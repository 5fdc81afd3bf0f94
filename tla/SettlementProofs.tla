--------------------------- MODULE SettlementProofs ---------------------------
(***************************************************************************)
(* Theorems about Settlement, and about Checkout, which composes it with   *)
(* the browsers.  The inductive invariant IInv of Settlement says of every *)
(* row that counts that it is verified, and of every report in flight that *)
(* whatever it has read so far justifies the write it is going to make.    *)
(* It rests on success on chain being stable.                              *)
(***************************************************************************)
EXTENDS Checkout, SumsProofs

ChainStatus == {"unmined", "succeeded", "reverted"}
TradeStatus == {"PENDING", "FAILED", "REJECTED", "CONFIRMED", "COMPLETED"}
MatchStatus == {"PROPOSED", "SETTLEMENT_PENDING", "SETTLED", "FAILED"}

\* ConfirmedIsVerified of one row or write w of match m, when the chain is ch.
VerifiedAs(m, w, ch) ==
  /\ w.hash \in Hashes /\ ch[w.hash] = "succeeded"
  /\ w.tradeId \in Hashes /\ ch[w.tradeId] = "succeeded"
  /\ Settles[w.tradeId] = None /\ m \in Fits[w.tradeId]
  /\ w.status = "CONFIRMED" => w.hash = w.tradeId
  /\ w.status # "CONFIRMED" => Settles[w.hash] = w.tradeId

RowVerified(row, ch) == row.status \in COMPLETED_TRADE => VerifiedAs(row.match, row, ch)

\* What a report in flight has read, and may act on.
Continues(q) == q.at # None => q.at \in Keys /\ q.old \in TradeRow /\ q.old.match = q.body.match

WriteOK(q, ch) ==
  /\ q.write.status \in TradeStatus
  /\ q.write.hash \in Hashes \cup {None} /\ q.write.tradeId \in Hashes \cup {None}
  /\ q.write.status \in COMPLETED_TRADE => VerifiedAs(q.body.match, q.write, ch)

RequestOK(q, ch) ==
  /\ q.pc \in {"find", "purchase", "chain", "write", "sync"} => q.body \in Reports
  /\ q.pc \in {"purchase", "chain", "write"} => Continues(q)
  /\ q.pc \in {"purchase", "chain"} => q.body.hash \in Hashes
  /\ q.pc = "purchase" => q.body.action = "settle"
  /\ q.pc = "chain" /\ q.body.action = "settle" =>
       q.purchase \in Hashes /\ ch[q.purchase] = "succeeded"
  /\ q.pc = "write" => WriteOK(q, ch)
  /\ q.pc = "sync" => q.row \in TradeRow /\ RowVerified(q.row, ch)

RequestsOK == DOMAIN req = Reporters /\ \A r \in Reporters : RequestOK(req[r], chain)

IInv ==
  /\ TypeOK
  /\ chain \in [Hashes -> ChainStatus]
  /\ \A k \in Keys : trade[k] # None => RowVerified(trade[k], chain)
  /\ RequestsOK

\* A report carries what its schema allows.
LEMMA BodyTypes ==
  ASSUME NEW body \in Reports
  PROVE  /\ body.match \in Matches /\ body.key \in Keys
         /\ body.action \in {"purchase", "settle", "reject"}
         /\ body.action # "reject" => body.hash \in Hashes
BY SettlementAssumption DEF SettlementAssumption, ReportShape

\* Verification is stable as long as no success is undone.
LEMMA VerifiedStable ==
  ASSUME NEW ch, NEW ch2, \A h \in Hashes : ch[h] = "succeeded" => ch2[h] = "succeeded"
  PROVE  /\ \A m, w : VerifiedAs(m, w, ch) => VerifiedAs(m, w, ch2)
         /\ \A row : RowVerified(row, ch) => RowVerified(row, ch2)
         /\ \A q : RequestOK(q, ch) => RequestOK(q, ch2)
<1>1. \A m, w : VerifiedAs(m, w, ch) => VerifiedAs(m, w, ch2)
  BY DEF VerifiedAs
<1>2. \A row : RowVerified(row, ch) => RowVerified(row, ch2)
  BY <1>1 DEF RowVerified
<1>3. \A q : WriteOK(q, ch) => WriteOK(q, ch2)
  BY <1>1 DEF WriteOK
<1>4. \A q : RequestOK(q, ch) => RequestOK(q, ch2)
  BY <1>2, <1>3 DEF RequestOK
<1> QED
  BY <1>1, <1>2, <1>4

\* One report moves on while the chain stands still.
LEMMA OneReport ==
  ASSUME RequestsOK, NEW r \in Reporters, NEW v, RequestOK(v, chain),
         req' = [req EXCEPT ![r] = v], chain' = chain
  PROVE  RequestsOK'
BY DEF RequestsOK

LEMMA IdleOK == RequestOK(Idle, chain)
BY DEF RequestOK, Idle

\* The row a report writes is a row, and a verified one if it counts.
LEMMA RowOK ==
  ASSUME NEW q, NEW ch, RequestOK(q, ch), q.pc = "write"
  PROVE  /\ Row(q) \in TradeRow /\ Target(q) \in Keys
         /\ Row(q).match = q.body.match /\ Row(q).status = q.write.status
         /\ RowVerified(Row(q), ch)
<1>1. /\ q.body \in Reports /\ Continues(q) /\ WriteOK(q, ch)
      /\ q.body.match \in Matches /\ q.body.key \in Keys
  BY BodyTypes DEF RequestOK
<1> DEFINE w == q.write
<1>2. /\ w.status \in TradeStatus
      /\ w.hash \in Hashes \cup {None} /\ w.tradeId \in Hashes \cup {None}
  BY <1>1 DEF WriteOK
<1>3. CASE q.at = None
  <2>1. Row(q) = [match |-> q.body.match, status |-> w.status, hash |-> w.hash,
                  tradeId |-> w.tradeId]
    BY <1>3 DEF Row
  <2>2. Row(q) \in TradeRow
    BY <1>1, <1>2, <2>1 DEF TradeRow, TradeStatus
  <2>3. RowVerified(Row(q), ch)
    BY <1>1, <2>1 DEF RowVerified, WriteOK, VerifiedAs
  <2> QED
    BY <1>1, <1>3, <2>1, <2>2, <2>3 DEF Target
<1>4. CASE q.at # None
  <2> DEFINE h == IF w.hash = None THEN q.old.hash ELSE w.hash
             t == IF w.tradeId = None THEN q.old.tradeId ELSE w.tradeId
  <2>1. q.old \in TradeRow /\ q.at \in Keys /\ q.old.match = q.body.match
    BY <1>1, <1>4 DEF Continues
  <2>2. Row(q) = [match |-> q.body.match, status |-> w.status, hash |-> h, tradeId |-> t]
    BY <1>4, <2>1 DEF Row, TradeRow
  <2>3. Row(q) \in TradeRow
    <3>1. h \in Hashes \cup {None} /\ t \in Hashes \cup {None}
      BY <1>2, <2>1 DEF TradeRow
    <3> QED
      BY <1>1, <1>2, <2>2, <3>1 DEF TradeRow, TradeStatus
  <2>4. w.status \in COMPLETED_TRADE => w.hash \in Hashes /\ w.tradeId \in Hashes
    BY <1>1 DEF WriteOK, VerifiedAs
  <2>5. w.status \in COMPLETED_TRADE => h = w.hash /\ t = w.tradeId
    BY <2>4, SettlementAssumption DEF SettlementAssumption
  <2>6. RowVerified(Row(q), ch)
    BY <1>1, <2>2, <2>5 DEF RowVerified, WriteOK, VerifiedAs
  <2> QED
    BY <1>4, <2>1, <2>2, <2>3, <2>6 DEF Target
<1> QED
  BY <1>3, <1>4

LEMMA InitIInv == Init => IInv
<1> SUFFICES ASSUME Init PROVE IInv
  OBVIOUS
<1>1. TypeOK /\ chain \in [Hashes -> ChainStatus]
  BY DEF Init, TypeOK, ChainStatus
<1>2. RequestsOK
  BY IdleOK DEF Init, RequestsOK
<1> QED
  BY <1>1, <1>2 DEF Init, IInv

LEMMA LoadPreserves ==
  ASSUME IInv, NEW r \in Reporters, NEW body \in Reports, loadMatch(r, body)
  PROVE  IInv'
<1> DEFINE v == [pc |-> "find", body |-> body, status |-> match[body.match],
                 live |-> body.match \in live, mapped |-> mapped]
<1>1. req' = [req EXCEPT ![r] = v] /\ UNCHANGED <<match, trade, live, mapped, chain>>
  BY DEF loadMatch
<1>2. RequestOK(v, chain)
  BY DEF RequestOK
<1> HIDE DEF v
<1> QED
  BY <1>1, <1>2, OneReport DEF IInv, TypeOK

\* A report that ends, or dies, leaves the tables alone.
LEMMA EndPreserves ==
  ASSUME IInv, NEW r \in Reporters, Finish(r), UNCHANGED <<trade, chain>>,
         match' \in [Matches -> MatchStatus]
  PROVE  IInv'
<1>1. RequestsOK'
  BY IdleOK, OneReport DEF IInv, Finish
<1> QED
  BY <1>1 DEF IInv, TypeOK, MatchStatus

LEMMA FindPreserves ==
  ASSUME IInv, NEW r \in Reporters, findExisting(r)
  PROVE  IInv'
<1> DEFINE q == req[r]
           at == IF Continued(q.body) = {} THEN None
                 ELSE CHOOSE k \in Continued(q.body) : TRUE
           old == IF at = None THEN None ELSE trade[at]
           base == [pc |-> "chain", body |-> q.body, mapped |-> q.mapped, at |-> at,
                    old |-> old, purchase |-> None, write |-> None]
           rejects == [base EXCEPT !.pc = "write", !.write = Write("REJECTED", None, None)]
           settles == [base EXCEPT !.pc = "purchase"]
<1>1. q.body \in Reports /\ UNCHANGED <<match, trade, chain>>
  BY DEF IInv, RequestsOK, RequestOK, findExisting
<1>2. at # None => at \in Keys /\ old \in TradeRow
  <2>1. Continued(q.body) \subseteq {k \in Keys : trade[k] # None}
    BY <1>1, BodyTypes DEF Continued
  <2>2. at # None => at \in Continued(q.body)
    OBVIOUS
  <2> QED
    BY <2>1, <2>2 DEF IInv, TypeOK
<1>3. \/ /\ at # None => Resumable(q.body, old)
         /\ \/ q.body.action = "reject" /\ req' = [req EXCEPT ![r] = rejects]
            \/ q.body.action = "purchase" /\ req' = [req EXCEPT ![r] = base]
            \/ q.body.action = "settle" /\ req' = [req EXCEPT ![r] = settles]
      \/ Finish(r)
  BY DEF findExisting
<1> HIDE DEF q, at, old
<1>4. ASSUME at # None => Resumable(q.body, old)
      PROVE  /\ q.body.action = "reject" => RequestOK(rejects, chain)
             /\ q.body.action = "purchase" => RequestOK(base, chain)
             /\ q.body.action = "settle" => RequestOK(settles, chain)
  <2>1. Continues(base) /\ Continues(rejects) /\ Continues(settles)
    BY <1>2, <1>4 DEF Continues, Resumable
  <2>2. WriteOK(rejects, chain)
    BY DEF WriteOK, Write, TradeStatus, COMPLETED_TRADE
  <2>3. q.body.action # "reject" => q.body.hash \in Hashes
    BY <1>1, BodyTypes
  <2> QED
    BY <1>1, <2>1, <2>2, <2>3 DEF RequestOK
<1> HIDE DEF base, rejects, settles
<1>5. CASE Finish(r)
  BY <1>1, <1>5, EndPreserves DEF IInv, TypeOK, MatchStatus
<1>6. CASE RequestsOK'
  BY <1>1, <1>6 DEF IInv, TypeOK
<1> QED
  BY <1>1, <1>3, <1>4, <1>5, <1>6, OneReport DEF IInv

\* The row that justifies a settlement is a confirmed purchase.
LEMMA PurchaseFound ==
  ASSUME IInv, NEW m \in Matches, NEW k \in ConfirmedPurchases(m)
  PROVE  trade[k].tradeId \in Hashes /\ chain[trade[k].tradeId] = "succeeded"
BY DEF IInv, ConfirmedPurchases, RowVerified, VerifiedAs, COMPLETED_TRADE

LEMMA FindPurchasePreserves ==
  ASSUME IInv, NEW r \in Reporters, findPurchase(r)
  PROVE  IInv'
<1> DEFINE q == req[r]
<1>1. /\ RequestOK(q, chain) /\ q.pc = "purchase" /\ q.body.match \in Matches
      /\ UNCHANGED <<match, trade, chain>>
  BY BodyTypes DEF IInv, RequestsOK, RequestOK, findPurchase
<1>2. CASE Finish(r)
  BY <1>1, <1>2, EndPreserves DEF IInv, TypeOK, MatchStatus
<1>3. ASSUME NEW k \in ConfirmedPurchases(q.body.match),
             req' = [req EXCEPT ![r].pc = "chain", ![r].purchase = trade[k].tradeId]
      PROVE  IInv'
  <2> DEFINE v == [q EXCEPT !.pc = "chain", !.purchase = trade[k].tradeId]
  <2>1. req' = [req EXCEPT ![r] = v]
    BY <1>3 DEF IInv, RequestsOK
  <2>2. RequestOK(v, chain)
    BY <1>1, PurchaseFound DEF RequestOK, Continues
  <2> HIDE DEF v
  <2> QED
    BY <1>1, <2>1, <2>2, OneReport DEF IInv, TypeOK
<1> QED
  BY <1>2, <1>3 DEF findPurchase

\* What the chain's answer leads to is a write the report may make.
LEMMA OutcomeOK ==
  ASSUME NEW q, RequestOK(q, chain), q.pc = "chain",
         q.body.action \in {"purchase", "settle"}, NEW w \in Outcome(q)
  PROVE  /\ w.status \in TradeStatus
         /\ w.hash \in Hashes \cup {None} /\ w.tradeId \in Hashes \cup {None}
         /\ w.status \in COMPLETED_TRADE => VerifiedAs(q.body.match, w, chain)
<1> DEFINE h == q.body.hash
<1>1. h \in Hashes
  BY DEF RequestOK
<1>2. CASE w = Write("FAILED", h, None) \/ w = Write("PENDING", h, None)
  BY <1>1, <1>2 DEF Write, TradeStatus, COMPLETED_TRADE
<1>3. CASE /\ q.body.action = "purchase" /\ w = Write("CONFIRMED", h, h)
           /\ chain[h] = "succeeded" /\ verifyPurchase(q)
  BY <1>1, <1>3 DEF Write, TradeStatus, VerifiedAs, verifyPurchase, parseEnergyPurchasedLogs
<1>4. CASE /\ q.body.action = "settle" /\ w = Write("COMPLETED", h, q.purchase)
           /\ chain[h] = "succeeded" /\ verifySettle(q)
  <2>1. q.purchase \in Hashes /\ chain[q.purchase] = "succeeded"
    BY <1>4 DEF RequestOK
  <2>2. Settles[h] = q.purchase /\ Settles[q.purchase] = None
    BY <1>1, <1>4, <2>1, SettlementAssumption DEF SettlementAssumption, verifySettle, parseTradeSettledLogs
  <2> QED
    BY <1>1, <1>4, <2>1, <2>2 DEF Write, TradeStatus, VerifiedAs, verifySettle
<1> QED
  BY <1>2, <1>3, <1>4
     DEF Outcome, failVerification, markFailed, verifyPurchase, verifySettle, assertSuccessfulReceipt

LEMMA ChainPreserves ==
  ASSUME IInv, NEW r \in Reporters, queryChain(r)
  PROVE  IInv'
<1> DEFINE q == req[r]
<1>1. /\ RequestOK(q, chain) /\ q.pc = "chain" /\ q.body \in Reports
      /\ UNCHANGED <<match, trade, chain>>
  BY DEF IInv, RequestsOK, RequestOK, queryChain
<1>2. PICK w \in Outcome(q) : req' = [req EXCEPT ![r].pc = "write", ![r].write = w]
  BY DEF queryChain
<1>3. q.body.action \in {"purchase", "settle"}
  BY <1>1, BodyTypes, SettlementAssumption DEF SettlementAssumption, ReportShape, RequestOK
<1> DEFINE v == [q EXCEPT !.pc = "write", !.write = w]
<1>4. req' = [req EXCEPT ![r] = v]
  BY <1>2 DEF IInv, RequestsOK
<1>5. RequestOK(v, chain)
  <2>1. v.pc = "write" /\ v.body = q.body /\ v.at = q.at /\ v.old = q.old /\ v.write = w
    BY <1>1 DEF RequestOK
  <2>2. WriteOK(v, chain)
    BY <1>1, <1>3, <2>1, OutcomeOK DEF WriteOK
  <2> HIDE DEF v
  <2> QED
    BY <1>1, <2>1, <2>2 DEF RequestOK, Continues
<1> HIDE DEF v
<1> QED
  BY <1>1, <1>4, <1>5, OneReport DEF IInv, TypeOK

LEMMA PersistPreserves ==
  ASSUME IInv, NEW r \in Reporters, persistTrade(r)
  PROVE  IInv'
<1> DEFINE q == req[r]
           written == Sync(q, Row(q))
<1>1. /\ RequestOK(q, chain) /\ q.pc = "write" /\ q.body \in Reports
      /\ UNCHANGED <<match, chain>>
  BY DEF IInv, RequestsOK, RequestOK, persistTrade
<1>2. /\ Row(q) \in TradeRow /\ Target(q) \in Keys /\ RowVerified(Row(q), chain)
  BY <1>1, RowOK
<1> HIDE DEF q
<1>3. CASE UNCHANGED trade /\ Finish(r)
  BY <1>1, <1>3, EndPreserves DEF IInv, TypeOK, MatchStatus
<1>4. ASSUME NEW k \in Keys, trade[k] # None, UNCHANGED trade,
             req' = [req EXCEPT ![r] = Sync(q, trade[k])]
      PROVE  IInv'
  <2>1. RequestOK(Sync(q, trade[k]), chain)
    BY <1>1, <1>4 DEF RequestOK, Sync, IInv, TypeOK
  <2>2. RequestsOK'
    BY <1>1, <1>4, <2>1, OneReport DEF IInv
  <2> QED
    BY <1>1, <1>4, <2>2 DEF IInv, TypeOK
<1>5. ASSUME trade' = [trade EXCEPT ![Target(q)] = Row(q)],
             req' = [req EXCEPT ![r] = Idle] \/ req' = [req EXCEPT ![r] = written]
      PROVE  IInv'
  <2>1. RequestOK(written, chain)
    BY <1>1, <1>2 DEF RequestOK, Sync
  <2> HIDE DEF written
  <2>2. RequestsOK'
    BY <1>1, <1>5, <2>1, IdleOK, OneReport DEF IInv
  <2>3. TypeOK'
    BY <1>1, <1>2, <1>5 DEF IInv, TypeOK
  <2>4. ASSUME NEW k \in Keys, trade'[k] # None
        PROVE  RowVerified(trade'[k], chain)
    BY <1>2, <1>5, <2>4 DEF IInv, TypeOK
  <2> QED
    BY <1>1, <2>2, <2>3, <2>4 DEF IInv
<1>6. \/ UNCHANGED trade /\ Finish(r)
      \/ \E k \in Keys : /\ trade[k] # None /\ UNCHANGED trade
                         /\ req' = [req EXCEPT ![r] = Sync(q, trade[k])]
      \/ /\ trade' = [trade EXCEPT ![Target(q)] = Row(q)]
         /\ req' = [req EXCEPT ![r] = Idle] \/ req' = [req EXCEPT ![r] = written]
  BY DEF persistTrade, Finish, q
<1> QED
  BY <1>3, <1>4, <1>5, <1>6

LEMMA SyncPreserves ==
  ASSUME IInv, NEW r \in Reporters, syncMatch(r)
  PROVE  IInv'
<1> DEFINE q == req[r]
           next == StatusAfter(q.body.action, q.row, match[q.body.match])
<1>1. q.row \in TradeRow /\ q.body.match \in Matches
  BY BodyTypes DEF IInv, RequestsOK, RequestOK, syncMatch
<1>2. next \in MatchStatus
  BY <1>1 DEF StatusAfter, TradeRow, MatchStatus, IInv, TypeOK
<1>3. match' = [match EXCEPT ![q.body.match] = next]
  BY DEF syncMatch
<1> HIDE DEF next
<1>4. match' \in [Matches -> MatchStatus]
  BY <1>1, <1>2, <1>3 DEF IInv, TypeOK, MatchStatus
<1> QED
  BY <1>4, EndPreserves DEF syncMatch

\* What the rest of the program and the chain do.
LEMMA OthersPreserve ==
  ASSUME IInv, (\E h \in Hashes : mine(h)) \/ UNCHANGED <<match, trade, chain, req>>
  PROVE  IInv'
<1>1. ASSUME NEW h \in Hashes, mine(h)
      PROVE  IInv'
  <2>1. \A g \in Hashes : chain[g] = "succeeded" => chain'[g] = "succeeded"
    BY <1>1 DEF mine, IInv
  <2>2. /\ \A row : RowVerified(row, chain) => RowVerified(row, chain')
        /\ \A q : RequestOK(q, chain) => RequestOK(q, chain')
    BY <2>1, VerifiedStable
  <2>3. chain' \in [Hashes -> ChainStatus] /\ UNCHANGED <<match, trade, req>>
    BY <1>1 DEF mine, IInv, ChainStatus
  <2> QED
    BY <2>2, <2>3 DEF IInv, TypeOK, RequestsOK
<1>2. CASE UNCHANGED <<match, trade, chain, req>>
  BY <1>2 DEF IInv, TypeOK, RequestsOK
<1> QED
  BY <1>1, <1>2

LEMMA StepPreserves == IInv /\ [Next]_vars => IInv'
<1> SUFFICES ASSUME IInv, [Next]_vars PROVE IInv'
  OBVIOUS
<1>1. ASSUME NEW r \in Reporters, Step(r) PROVE IInv'
  BY <1>1, FindPreserves, FindPurchasePreserves, ChainPreserves, PersistPreserves,
     SyncPreserves DEF Step
<1>2. ASSUME NEW r \in Reporters, dies(r) PROVE IInv'
  BY <1>2, EndPreserves DEF dies, IInv, TypeOK, MatchStatus
<1>3. CASE UNCHANGED <<match, trade, chain, req>> \/ \E h \in Hashes : mine(h)
  BY <1>3, OthersPreserve
<1>4. \/ \E r \in Reporters, body \in Reports : loadMatch(r, body)
      \/ \E r \in Reporters : Step(r) \/ dies(r)
      \/ UNCHANGED <<match, trade, chain, req>> \/ \E h \in Hashes : mine(h)
  BY DEF Next, withdraw, remap, vars
<1> QED
  BY <1>1, <1>2, <1>3, <1>4, LoadPreserves

LEMMA IInvImplies == IInv => TypeOK /\ ConfirmedIsVerified
<1> SUFFICES ASSUME IInv, NEW k \in Counted
             PROVE  VerifiedAs(trade[k].match, trade[k], chain)
  BY SettlementAssumption
     DEF IInv, TypeOK, ConfirmedIsVerified, VerifiedAs, Succeeded, Counted,
         SettlementAssumption, COMPLETED_TRADE
<1> QED
  BY DEF IInv, Counted, RowVerified

-----------------------------------------------------------------------------
(* Uniqueness, when rejections have keys of their own.  A row then has a hash
   exactly if its key is no rejection's, a report continues only a row of its
   own match and hash, and so no write changes either: a row keeps what makes
   it stand for one payment of one match. *)

RejectsHaveOwnKeys ==
  \A a, b \in Reports : a.action = "reject" /\ b.action # "reject" => a.key # b.key

RejectKey(k) == \E b \in Reports : b.action = "reject" /\ b.key = k

\* Some row records payment h for match m.
Backed(m, h, tr) == \E k \in Keys : tr[k] # None /\ tr[k].hash = h /\ tr[k].match = m

Reads(q, tr) ==
  /\ q.pc \in {"purchase", "chain", "write"} /\ q.at # None =>
       /\ tr[q.at] # None /\ tr[q.at].hash = q.body.hash /\ tr[q.at].match = q.body.match
       /\ q.old.hash = q.body.hash
  /\ q.pc = "chain" /\ q.body.action = "settle" => Backed(q.body.match, q.purchase, tr)
  /\ q.pc = "write" =>
       /\ q.write.hash = q.body.hash
       /\ q.write.status = "COMPLETED" => Backed(q.body.match, q.write.tradeId, tr)

RowsOK(tr) ==
  /\ \A k \in Keys : tr[k] # None => (tr[k].hash = None <=> RejectKey(k))
  /\ \A i, j \in Keys : tr[i] # None /\ tr[j] # None /\ tr[i].hash = tr[j].hash
                        /\ tr[i].hash # None => i = j
  /\ \A k \in Keys : tr[k] # None /\ tr[k].status = "COMPLETED" =>
                       Backed(tr[k].match, tr[k].tradeId, tr)

KInv == RowsOK(trade) /\ \A r \in Reporters : Reads(req[r], trade)

Keeps(tr, tr2) ==
  \A k \in Keys : tr[k] # None =>
    tr2[k] # None /\ tr2[k].hash = tr[k].hash /\ tr2[k].match = tr[k].match

LEMMA ReadsStable ==
  ASSUME NEW tr, NEW tr2, Keeps(tr, tr2), NEW q, NEW ch, RequestOK(q, ch), Reads(q, tr)
  PROVE  Reads(q, tr2)
<1>1. \A m, h : Backed(m, h, tr) => Backed(m, h, tr2)
  BY DEF Backed, Keeps
<1>2. q.pc \in {"purchase", "chain", "write"} /\ q.at # None => q.at \in Keys
  BY DEF RequestOK, Continues
<1> QED
  BY <1>1, <1>2 DEF Reads, Keeps

\* A report that moves on while the rows stand still.
LEMMA OneRead ==
  ASSUME IInv, KInv, NEW r \in Reporters, NEW v, Reads(v, trade),
         req' = [req EXCEPT ![r] = v], trade' = trade
  PROVE  KInv' /\ Keeps(trade, trade')
BY DEF IInv, RequestsOK, KInv, Keeps

LEMMA IdleReads == \A tr : Reads(Idle, tr)
BY DEF Reads, Idle

LEMMA KeyOfBody ==
  ASSUME RejectsHaveOwnKeys, NEW body \in Reports
  PROVE  RejectKey(body.key) <=> body.hash = None
<1>1. body.action = "reject" <=> body.hash = None
  BY SettlementAssumption DEF SettlementAssumption, ReportShape
<1>2. body.action = "reject" <=> RejectKey(body.key)
  BY DEF RejectsHaveOwnKeys, RejectKey
<1> QED
  BY <1>1, <1>2

LEMMA FindReads ==
  ASSUME RejectsHaveOwnKeys, IInv, KInv, NEW r \in Reporters, findExisting(r)
  PROVE  KInv' /\ Keeps(trade, trade')
<1> DEFINE q == req[r]
           at == IF Continued(q.body) = {} THEN None
                 ELSE CHOOSE k \in Continued(q.body) : TRUE
           old == IF at = None THEN None ELSE trade[at]
           base == [pc |-> "chain", body |-> q.body, mapped |-> q.mapped, at |-> at,
                    old |-> old, purchase |-> None, write |-> None]
           rejects == [base EXCEPT !.pc = "write", !.write = Write("REJECTED", None, None)]
           settles == [base EXCEPT !.pc = "purchase"]
<1>1. q.body \in Reports /\ q.body.key \in Keys /\ UNCHANGED trade
  BY BodyTypes DEF IInv, RequestsOK, RequestOK, findExisting
<1>2. \/ /\ at # None => Resumable(q.body, old)
         /\ \/ q.body.action = "reject" /\ req' = [req EXCEPT ![r] = rejects]
            \/ q.body.action = "purchase" /\ req' = [req EXCEPT ![r] = base]
            \/ q.body.action = "settle" /\ req' = [req EXCEPT ![r] = settles]
      \/ req' = [req EXCEPT ![r] = Idle]
  BY DEF findExisting, Finish
<1>3. ASSUME at # None, Resumable(q.body, old)
      PROVE  trade[at] # None /\ old.hash = q.body.hash /\ old.match = q.body.match
  <2>1. at \in Continued(q.body)
    BY <1>3
  <2>2. CASE trade[q.body.key] # None
    <3>1. at = q.body.key
      BY <2>1, <2>2 DEF Continued
    <3>2. trade[at].hash = None <=> q.body.hash = None
      BY <1>1, <2>2, <3>1, KeyOfBody DEF KInv, RowsOK
    <3> QED
      BY <1>3, <2>2, <3>1, <3>2 DEF Resumable
  <2>3. CASE trade[q.body.key] = None
    <3>1. trade[at] # None /\ trade[at].hash = q.body.hash
      BY <2>1, <2>3 DEF Continued
    <3> QED
      BY <1>3, <3>1 DEF Resumable
  <2> QED
    BY <2>2, <2>3
<1>4. at # None => old = trade[at]
  OBVIOUS
<1> HIDE DEF q, at, old
<1>5. ASSUME at # None => Resumable(q.body, old)
      PROVE  /\ Reads(base, trade) \/ q.body.action # "purchase"
             /\ Reads(settles, trade)
             /\ q.body.action = "reject" => Reads(rejects, trade)
  <2>1. q.body.action = "reject" => q.body.hash = None
    BY <1>1, SettlementAssumption DEF SettlementAssumption, ReportShape
  <2> QED
    BY <1>3, <1>4, <1>5, <2>1 DEF Reads, Write
<1> HIDE DEF base, rejects, settles
<1> QED
  BY <1>1, <1>2, <1>5, IdleReads, OneRead

LEMMA FindPurchaseReads ==
  ASSUME IInv, KInv, NEW r \in Reporters, findPurchase(r)
  PROVE  KInv' /\ Keeps(trade, trade')
<1> DEFINE q == req[r]
<1>1. Reads(q, trade) /\ q.pc = "purchase" /\ UNCHANGED trade
  BY DEF KInv, findPurchase
<1>2. CASE Finish(r)
  BY <1>1, <1>2, IdleReads, OneRead DEF Finish
<1>3. ASSUME NEW k \in ConfirmedPurchases(q.body.match),
             req' = [req EXCEPT ![r].pc = "chain", ![r].purchase = trade[k].tradeId]
      PROVE  KInv' /\ Keeps(trade, trade')
  <2> DEFINE v == [q EXCEPT !.pc = "chain", !.purchase = trade[k].tradeId]
  <2>1. req' = [req EXCEPT ![r] = v]
    BY <1>3 DEF IInv, RequestsOK
  <2>2. Backed(q.body.match, trade[k].tradeId, trade)
    BY DEF Backed, ConfirmedPurchases, IInv, RowVerified, VerifiedAs, COMPLETED_TRADE
  <2>3. Reads(v, trade)
    BY <1>1, <2>2 DEF Reads
  <2> HIDE DEF v
  <2> QED
    BY <1>1, <2>1, <2>3, OneRead
<1> QED
  BY <1>2, <1>3 DEF findPurchase

LEMMA ChainReads ==
  ASSUME IInv, KInv, NEW r \in Reporters, queryChain(r)
  PROVE  KInv' /\ Keeps(trade, trade')
<1> DEFINE q == req[r]
<1>1. Reads(q, trade) /\ q.pc = "chain" /\ UNCHANGED trade
  BY DEF KInv, queryChain
<1>2. PICK w \in Outcome(q) : req' = [req EXCEPT ![r].pc = "write", ![r].write = w]
  BY DEF queryChain
<1> DEFINE v == [q EXCEPT !.pc = "write", !.write = w]
<1>3. req' = [req EXCEPT ![r] = v]
  BY <1>2 DEF IInv, RequestsOK
<1>4. /\ w.hash = q.body.hash
      /\ w.status = "COMPLETED" => q.body.action = "settle" /\ w.tradeId = q.purchase
  BY DEF Outcome, failVerification, markFailed, Write
<1>5. v.pc = "write" /\ v.body = q.body /\ v.at = q.at /\ v.old = q.old /\ v.write = w
  BY <1>1
<1> HIDE DEF v
<1>6. Reads(v, trade)
  BY <1>1, <1>4, <1>5 DEF Reads
<1> QED
  BY <1>1, <1>3, <1>6, OneRead

LEMMA PersistKeeps ==
  ASSUME RejectsHaveOwnKeys, IInv, KInv, NEW r \in Reporters, persistTrade(r)
  PROVE  KInv' /\ Keeps(trade, trade')
<1> DEFINE q == req[r]
           k0 == Target(q)
           row == Row(q)
<1>1. /\ RequestOK(q, chain) /\ q.pc = "write" /\ q.body \in Reports /\ q.body.key \in Keys
      /\ Reads(q, trade) /\ Continues(q) /\ WriteOK(q, chain)
  BY BodyTypes DEF IInv, KInv, RequestsOK, RequestOK, persistTrade
<1>2. /\ row \in TradeRow /\ k0 \in Keys /\ row.match = q.body.match
      /\ row.status = q.write.status
  BY <1>1, RowOK
<1>3. row # None
  BY <1>2, NoneAssumption
<1>4. row.hash = q.body.hash
  BY <1>1 DEF Reads, Row, Continues, TradeRow
<1>5. row.status = "COMPLETED" => row.tradeId = q.write.tradeId
  <2>1. q.write.status = "COMPLETED" => q.write.tradeId \in Hashes
    BY <1>1 DEF WriteOK, VerifiedAs, COMPLETED_TRADE
  <2>2. q.write.status = "COMPLETED" => q.write.tradeId # None
    BY <2>1, SettlementAssumption DEF SettlementAssumption
  <2> QED
    BY <1>1, <1>2, <2>2 DEF Row, Continues, TradeRow
<1> HIDE DEF q
<1>6. ASSUME UNCHANGED trade, NEW v, Reads(v, trade), req' = [req EXCEPT ![r] = v]
      PROVE  KInv' /\ Keeps(trade, trade')
  BY <1>6, OneRead
<1>7. \A x : Reads(Sync(q, x), trade) /\ Reads(Sync(q, x), trade')
  BY DEF Reads, Sync
<1>8. ASSUME ~isUniqueViolation(q), trade' = [trade EXCEPT ![k0] = row],
             NEW v, Reads(v, trade'), req' = [req EXCEPT ![r] = v]
      PROVE  KInv' /\ Keeps(trade, trade')
  <2>1. trade[k0] # None =>
          trade[k0].hash = row.hash /\ trade[k0].match = row.match
    <3>1. q.at = None => trade[k0] = None
      BY <1>8 DEF isUniqueViolation, Target
    <3>2. q.at # None => k0 = q.at
      BY DEF Target
    <3> QED
      BY <1>1, <1>2, <1>4, <3>1, <3>2 DEF Reads
  <2>2. RejectKey(k0) <=> row.hash = None
    <3>1. CASE q.at = None
      BY <1>1, <1>4, <3>1, KeyOfBody DEF Target
    <3>2. CASE q.at # None
      BY <1>1, <1>2, <1>4, <3>2 DEF Target, Reads, KInv, RowsOK
    <3> QED
      BY <3>1, <3>2
  <2>3. \A k \in Keys \ {k0} : trade[k] # None /\ trade[k].hash # None => trade[k].hash # row.hash
    BY <1>8 DEF isUniqueViolation
  <2>4. row.status = "COMPLETED" => Backed(row.match, row.tradeId, trade)
    BY <1>1, <1>2, <1>5 DEF Reads
  <2> HIDE DEF k0, row
  <2>5. trade'[k0] = row /\ \A k \in Keys \ {k0} : trade'[k] = trade[k]
    BY <1>2, <1>8 DEF IInv, TypeOK
  <2>6. Keeps(trade, trade')
    BY <1>2, <1>3, <2>1, <2>5 DEF Keeps
  <2>7. \A m, h : Backed(m, h, trade) => Backed(m, h, trade')
    BY <2>6 DEF Backed, Keeps
  <2>8. RowsOK(trade')
    <3>1. \A k \in Keys : trade'[k] # None => (trade'[k].hash = None <=> RejectKey(k))
      BY <2>2, <2>5 DEF KInv, RowsOK
    <3>2. \A i, j \in Keys : /\ trade'[i] # None /\ trade'[j] # None
                             /\ trade'[i].hash = trade'[j].hash /\ trade'[i].hash # None
                             => i = j
      BY <2>3, <2>5 DEF KInv, RowsOK
    <3>3. \A k \in Keys : trade'[k] # None /\ trade'[k].status = "COMPLETED" =>
                            Backed(trade'[k].match, trade'[k].tradeId, trade')
      BY <2>4, <2>5, <2>7 DEF KInv, RowsOK
    <3> QED
      BY <3>1, <3>2, <3>3 DEF RowsOK
  <2>9. ASSUME NEW s \in Reporters PROVE Reads(req'[s], trade')
    <3>1. req'[s] = IF s = r THEN v ELSE req[s]
      BY <1>8 DEF IInv, RequestsOK
    <3>2. RequestOK(req[s], chain) /\ Reads(req[s], trade)
      BY DEF IInv, RequestsOK, KInv
    <3> QED
      BY <1>8, <2>6, <3>1, <3>2, ReadsStable
  <2> QED
    BY <2>6, <2>8, <2>9 DEF KInv
<1>9. \/ UNCHANGED trade /\ req' = [req EXCEPT ![r] = Idle]
      \/ \E x : UNCHANGED trade /\ req' = [req EXCEPT ![r] = Sync(q, x)]
      \/ /\ ~isUniqueViolation(q) /\ trade' = [trade EXCEPT ![k0] = row]
         /\ \/ req' = [req EXCEPT ![r] = Idle]
            \/ req' = [req EXCEPT ![r] = Sync(q, row)]
  BY DEF persistTrade, Finish, q
<1> HIDE DEF k0, row
<1> QED
  BY <1>6, <1>7, <1>8, <1>9, IdleReads

\* The steps that leave the rows alone and end or begin a report, or leave all
\* reports alone.
LEMMA OthersKeep ==
  ASSUME IInv, KInv, UNCHANGED trade,
         \/ UNCHANGED req
         \/ \E r \in Reporters : Finish(r)
         \/ \E r \in Reporters, body \in Reports : loadMatch(r, body)
  PROVE  KInv' /\ Keeps(trade, trade')
<1>1. CASE UNCHANGED req
  BY <1>1 DEF KInv, Keeps
<1>2. CASE \E r \in Reporters : Finish(r)
  BY <1>2, IdleReads, OneRead DEF Finish
<1>3. ASSUME NEW r \in Reporters, NEW body \in Reports, loadMatch(r, body)
      PROVE  KInv' /\ Keeps(trade, trade')
  <2> DEFINE v == [pc |-> "find", body |-> body, status |-> match[body.match],
                   live |-> body.match \in live, mapped |-> mapped]
  <2>1. req' = [req EXCEPT ![r] = v] /\ Reads(v, trade)
    BY <1>3 DEF loadMatch, Reads
  <2> HIDE DEF v
  <2> QED
    BY <2>1, OneRead
<1> QED
  BY <1>1, <1>2, <1>3

LEMMA StepKeeps ==
  ASSUME RejectsHaveOwnKeys
  PROVE  IInv /\ KInv /\ [Next]_vars => KInv' /\ Keeps(trade, trade')
<1> SUFFICES ASSUME IInv, KInv, [Next]_vars PROVE KInv' /\ Keeps(trade, trade')
  OBVIOUS
<1>1. ASSUME NEW r \in Reporters, Step(r) PROVE KInv' /\ Keeps(trade, trade')
  <2>1. CASE syncMatch(r)
    BY <2>1, OthersKeep DEF syncMatch
  <2> QED
    BY <1>1, <2>1, FindReads, FindPurchaseReads, ChainReads, PersistKeeps DEF Step
<1>2. ASSUME NEW r \in Reporters, dies(r) PROVE KInv' /\ Keeps(trade, trade')
  BY <1>2, OthersKeep DEF dies
<1>3. ASSUME NEW r \in Reporters, NEW body \in Reports, loadMatch(r, body)
      PROVE  KInv' /\ Keeps(trade, trade')
  BY <1>3, OthersKeep DEF loadMatch
<1>4. CASE UNCHANGED <<trade, req>>
  BY <1>4, OthersKeep
<1>5. \/ \E r \in Reporters, body \in Reports : loadMatch(r, body)
      \/ \E r \in Reporters : Step(r) \/ dies(r)
      \/ UNCHANGED <<trade, req>>
  BY DEF Next, withdraw, remap, mine, vars
<1> QED
  BY <1>1, <1>2, <1>3, <1>4, <1>5

LEMMA InitKInv == Init => KInv
BY IdleReads DEF Init, KInv, RowsOK

LEMMA KInvImplies == IInv /\ KInv => OnePurchaseOneMatch
<1> SUFFICES ASSUME IInv, KInv, NEW i \in Counted, NEW j \in Counted,
                    trade[i].tradeId = trade[j].tradeId
             PROVE  trade[i].match = trade[j].match
  BY DEF OnePurchaseOneMatch
<1>1. \A k \in Counted : /\ trade[k].tradeId \in Hashes
                         /\ Backed(trade[k].match, trade[k].tradeId, trade)
  <2> SUFFICES ASSUME NEW k \in Counted
               PROVE  /\ trade[k].tradeId \in Hashes
                      /\ Backed(trade[k].match, trade[k].tradeId, trade)
    OBVIOUS
  <2>1. k \in Keys /\ trade[k] # None /\ VerifiedAs(trade[k].match, trade[k], chain)
    BY DEF IInv, Counted, RowVerified
  <2>2. CASE trade[k].status = "CONFIRMED"
    BY <2>1, <2>2 DEF VerifiedAs, Backed
  <2>3. CASE trade[k].status = "COMPLETED"
    BY <2>1, <2>3 DEF VerifiedAs, KInv, RowsOK
  <2> QED
    BY <2>1, <2>2, <2>3 DEF Counted, COMPLETED_TRADE
<1>2. trade[i].tradeId # None
  BY <1>1, SettlementAssumption DEF SettlementAssumption
<1> QED
  BY <1>1, <1>2 DEF Backed, KInv, RowsOK

-----------------------------------------------------------------------------
(* A payment counts once as purchase and once as settlement, whatever the keys: no two rows
   have a transaction in common, and the contract pays a purchase out once. *)

UInv ==
  /\ \A i, j \in Keys : trade[i] # None /\ trade[j] # None /\ trade[i].hash = trade[j].hash
                        /\ trade[i].hash # None => i = j
  /\ \A g, h \in Hashes : Settles[g] # None /\ Settles[g] = Settles[h]
                          /\ chain[g] = "succeeded" /\ chain[h] = "succeeded" => g = h

LEMMA RowsDiffer ==
  ASSUME IInv, UInv, NEW r \in Reporters, persistTrade(r)
  PROVE  UInv'
<1> DEFINE q == req[r]
           k0 == Target(q)
           row == Row(q)
<1>1. RequestOK(q, chain) /\ q.pc = "write" /\ UNCHANGED chain
  BY DEF IInv, RequestsOK, persistTrade
<1>2. k0 \in Keys
  BY <1>1, RowOK
<1>3. CASE UNCHANGED trade
  BY <1>1, <1>3 DEF UInv
<1>4. CASE ~isUniqueViolation(q) /\ trade' = [trade EXCEPT ![k0] = row]
  <2>1. \A k \in Keys \ {k0} : trade[k] # None /\ trade[k].hash # None => trade[k].hash # row.hash
    BY <1>4 DEF isUniqueViolation
  <2> HIDE DEF k0, row, q
  <2>2. trade'[k0] = row /\ \A k \in Keys \ {k0} : trade'[k] = trade[k]
    BY <1>2, <1>4 DEF IInv, TypeOK
  <2> QED
    BY <1>1, <2>1, <2>2 DEF UInv
<1> QED
  BY <1>3, <1>4 DEF persistTrade

LEMMA PaidOutOnce ==
  ASSUME IInv, UInv, NEW h \in Hashes, mine(h)
  PROVE  UInv'
<1>1. UNCHANGED trade
  BY DEF mine
<1>2. \/ /\ Settles[h] # None =>
              \A g \in Hashes : Settles[g] = Settles[h] => chain[g] # "succeeded"
         /\ chain' = [chain EXCEPT ![h] = "succeeded"]
      \/ chain' = [chain EXCEPT ![h] = "reverted"]
  BY DEF mine
<1>3. \A g \in Hashes : chain'[g] = "succeeded" => g = h \/ chain[g] = "succeeded"
  BY <1>2 DEF IInv
<1>4. \A g \in Hashes : /\ chain'[h] = "succeeded" /\ Settles[h] # None /\ Settles[g] = Settles[h]
                        => chain[g] # "succeeded"
  BY <1>2 DEF IInv, ChainStatus, mine
<1> QED
  BY <1>1, <1>3, <1>4 DEF UInv

LEMMA StepDiffers == IInv /\ UInv /\ [Next]_vars => UInv'
<1> SUFFICES ASSUME IInv, UInv, [Next]_vars PROVE UInv'
  OBVIOUS
<1>1. CASE UNCHANGED <<trade, chain>>
  BY <1>1 DEF UInv
<1>2. \/ \E r \in Reporters : persistTrade(r)
      \/ \E h \in Hashes : mine(h)
      \/ UNCHANGED <<trade, chain>>
  BY DEF Next, Step, loadMatch, findExisting, findPurchase, queryChain, syncMatch, dies,
         withdraw, remap, vars
<1>3. CASE \E r \in Reporters : persistTrade(r)
  BY <1>3, RowsDiffer
<1>4. CASE \E h \in Hashes : mine(h)
  BY <1>4, PaidOutOnce
<1> QED
  BY <1>1, <1>2, <1>3, <1>4

LEMMA InitUInv == Init => UInv
<1> SUFFICES ASSUME Init PROVE UInv
  OBVIOUS
<1>1. \A k \in Keys : trade[k] = None
  BY DEF Init
<1>2. \A h \in Hashes : chain[h] # "succeeded"
  BY DEF Init
<1> QED
  BY <1>1, <1>2 DEF UInv

LEMMA UInvImplies == IInv /\ UInv => CountedOnceEach
<1> SUFFICES ASSUME IInv, UInv, NEW i \in Counted, NEW j \in Counted,
                    trade[i].status = trade[j].status, trade[i].tradeId = trade[j].tradeId
             PROVE  i = j
  BY DEF CountedOnceEach
<1>1. \A k \in Counted : /\ k \in Keys /\ trade[k] # None
                         /\ VerifiedAs(trade[k].match, trade[k], chain)
  BY DEF IInv, Counted, RowVerified
<1>2. trade[i].hash = trade[j].hash
  <2>1. CASE trade[i].status = "CONFIRMED"
    BY <1>1, <2>1 DEF VerifiedAs
  <2>2. CASE trade[i].status # "CONFIRMED"
    <3>1. trade[i].tradeId # None
      BY <1>1, SettlementAssumption DEF VerifiedAs, SettlementAssumption
    <3> QED
      BY <1>1, <2>2, <3>1 DEF VerifiedAs, UInv
  <2> QED
    BY <2>1, <2>2
<1>3. trade[i].hash # None
  BY <1>1, SettlementAssumption DEF VerifiedAs, SettlementAssumption
<1> QED
  BY <1>1, <1>2, <1>3 DEF UInv

-----------------------------------------------------------------------------
(* A match is SETTLED when a report of a settlement is left with a row that
   counts, be it its own or the one in its way.  When settlements have keys and
   transactions of their own, as those of the web client do, that row is never a
   purchase's, and so it stands for a payout. *)

SettlesAreTheirOwn ==
  \A a, b \in Reports : a.action = "settle" /\ b.action # "settle"
                        => a.key # b.key /\ a.hash # b.hash

SettleKey(k) == \E b \in Reports : b.action = "settle" /\ b.key = k
SettleHash(h) == \E b \in Reports : b.action = "settle" /\ b.hash = h

\* The contract paid out a purchase of match m, when the chain is ch.
PaidOut(m, ch) ==
  \E h \in Hashes : h # None /\ ch[h] = "succeeded" /\ Settles[h] # None
                    /\ m \in Fits[Settles[h]]

SettleRow(row) == row.status # "CONFIRMED" /\ SettleHash(row.hash)

Settling(q, ch) ==
  /\ q.pc \in {"purchase", "chain", "write"} /\ q.at # None /\ SettleKey(q.at) =>
       q.body.action = "settle"
  /\ q.pc = "write" /\ q.body.action = "settle" =>
       q.write.status # "CONFIRMED" /\ q.write.hash = q.body.hash
  /\ q.pc = "sync" /\ q.body.action = "settle" /\ q.row.status \in COMPLETED_TRADE =>
       PaidOut(q.body.match, ch)

SInv ==
  /\ \A k \in Keys : trade[k] # None /\ SettleKey(k) => SettleRow(trade[k])
  /\ \A r \in Reporters : Settling(req[r], chain)
  /\ \A m \in Matches : match[m] = "SETTLED" => PaidOut(m, chain)

LEMMA OwnBody ==
  ASSUME SettlesAreTheirOwn, NEW body \in Reports
  PROVE  /\ SettleKey(body.key) <=> body.action = "settle"
         /\ SettleHash(body.hash) <=> body.action = "settle"
BY DEF SettlesAreTheirOwn, SettleKey, SettleHash

LEMMA IdleSettling == \A ch : Settling(Idle, ch)
BY DEF Settling, Idle

\* A row that is verified and is no purchase's shows a payout.
LEMMA VerifiedPaysOut ==
  ASSUME NEW m, NEW w, NEW ch, VerifiedAs(m, w, ch), w.status # "CONFIRMED"
  PROVE  PaidOut(m, ch)
<1>1. w.hash \in Hashes /\ Settles[w.hash] = w.tradeId /\ w.tradeId \in Hashes
  BY DEF VerifiedAs
<1>2. w.hash # None /\ w.tradeId # None
  BY <1>1, SettlementAssumption DEF SettlementAssumption
<1> QED
  BY <1>1, <1>2 DEF VerifiedAs, PaidOut

\* A report moves on and the tables stand still.
LEMMA OneSettling ==
  ASSUME IInv, SInv, NEW r \in Reporters, NEW v, Settling(v, chain),
         req' = [req EXCEPT ![r] = v], UNCHANGED <<match, trade, chain>>
  PROVE  SInv'
BY DEF IInv, RequestsOK, SInv

LEMMA LoadSettling ==
  ASSUME IInv, SInv, NEW r \in Reporters, NEW body \in Reports, loadMatch(r, body)
  PROVE  SInv'
<1> DEFINE v == [pc |-> "find", body |-> body, status |-> match[body.match],
                 live |-> body.match \in live, mapped |-> mapped]
<1>1. req' = [req EXCEPT ![r] = v] /\ UNCHANGED <<match, trade, chain>>
  BY DEF loadMatch
<1>2. Settling(v, chain)
  BY DEF Settling
<1> HIDE DEF v
<1> QED
  BY <1>1, <1>2, OneSettling

LEMMA FindSettling ==
  ASSUME SettlesAreTheirOwn, IInv, SInv, NEW r \in Reporters, findExisting(r)
  PROVE  SInv'
<1> DEFINE q == req[r]
           at == IF Continued(q.body) = {} THEN None
                 ELSE CHOOSE k \in Continued(q.body) : TRUE
           old == IF at = None THEN None ELSE trade[at]
           base == [pc |-> "chain", body |-> q.body, mapped |-> q.mapped, at |-> at,
                    old |-> old, purchase |-> None, write |-> None]
           rejects == [base EXCEPT !.pc = "write", !.write = Write("REJECTED", None, None)]
           settles == [base EXCEPT !.pc = "purchase"]
<1>1. q.body \in Reports /\ q.body.key \in Keys /\ UNCHANGED <<match, trade, chain>>
  BY BodyTypes DEF IInv, RequestsOK, RequestOK, findExisting
<1>2. \/ q.body.action = "reject" /\ req' = [req EXCEPT ![r] = rejects]
      \/ q.body.action = "purchase" /\ req' = [req EXCEPT ![r] = base]
      \/ q.body.action = "settle" /\ req' = [req EXCEPT ![r] = settles]
      \/ req' = [req EXCEPT ![r] = Idle]
  BY DEF findExisting, Finish
<1>3. at # None /\ SettleKey(at) => q.body.action = "settle"
  <2> SUFFICES ASSUME at # None, SettleKey(at) PROVE q.body.action = "settle"
    OBVIOUS
  <2>1. at \in Continued(q.body)
    OBVIOUS
  <2>2. CASE at = q.body.key
    BY <1>1, <2>2, OwnBody
  <2>3. CASE at \in Keys /\ trade[at] # None /\ trade[at].hash = q.body.hash
    BY <1>1, <2>3, OwnBody DEF SInv, SettleRow
  <2> QED
    BY <2>1, <2>2, <2>3 DEF Continued
<1> HIDE DEF q, at, old
<1>4. /\ q.body.action = "reject" => Settling(rejects, chain)
      /\ Settling(base, chain) /\ Settling(settles, chain)
  BY <1>3 DEF Settling
<1> HIDE DEF base, rejects, settles
<1> QED
  BY <1>1, <1>2, <1>4, IdleSettling, OneSettling

LEMMA FindPurchaseSettling ==
  ASSUME IInv, SInv, NEW r \in Reporters, findPurchase(r)
  PROVE  SInv'
<1> DEFINE q == req[r]
<1>1. Settling(q, chain) /\ q.pc = "purchase" /\ UNCHANGED <<match, trade, chain>>
  BY DEF SInv, findPurchase
<1>2. CASE Finish(r)
  BY <1>1, <1>2, IdleSettling, OneSettling DEF Finish
<1>3. ASSUME NEW k, req' = [req EXCEPT ![r].pc = "chain", ![r].purchase = trade[k].tradeId]
      PROVE  SInv'
  <2> DEFINE v == [q EXCEPT !.pc = "chain", !.purchase = trade[k].tradeId]
  <2>1. req' = [req EXCEPT ![r] = v]
    BY <1>3 DEF IInv, RequestsOK
  <2>2. Settling(v, chain)
    BY <1>1 DEF Settling
  <2> HIDE DEF v
  <2> QED
    BY <1>1, <2>1, <2>2, OneSettling
<1> QED
  BY <1>2, <1>3 DEF findPurchase

LEMMA ChainSettling ==
  ASSUME IInv, SInv, NEW r \in Reporters, queryChain(r)
  PROVE  SInv'
<1> DEFINE q == req[r]
<1>1. Settling(q, chain) /\ q.pc = "chain" /\ UNCHANGED <<match, trade, chain>>
  BY DEF SInv, queryChain
<1>2. PICK w \in Outcome(q) : req' = [req EXCEPT ![r].pc = "write", ![r].write = w]
  BY DEF queryChain
<1> DEFINE v == [q EXCEPT !.pc = "write", !.write = w]
<1>3. req' = [req EXCEPT ![r] = v]
  BY <1>2 DEF IInv, RequestsOK
<1>4. w.hash = q.body.hash /\ (q.body.action = "settle" => w.status # "CONFIRMED")
  BY DEF Outcome, failVerification, markFailed, Write
<1>5. v.pc = "write" /\ v.body = q.body /\ v.at = q.at /\ v.write = w
  BY <1>1
<1> HIDE DEF v
<1>6. Settling(v, chain)
  BY <1>1, <1>4, <1>5 DEF Settling
<1> QED
  BY <1>1, <1>3, <1>6, OneSettling

LEMMA PersistSettling ==
  ASSUME SettlesAreTheirOwn, IInv, SInv, NEW r \in Reporters, persistTrade(r)
  PROVE  SInv'
<1> DEFINE q == req[r]
           k0 == Target(q)
           row == Row(q)
<1>1. /\ RequestOK(q, chain) /\ q.pc = "write" /\ q.body \in Reports /\ q.body.key \in Keys
      /\ Settling(q, chain) /\ UNCHANGED <<match, chain>>
  BY BodyTypes DEF IInv, SInv, RequestsOK, RequestOK, persistTrade
<1>2. /\ row \in TradeRow /\ k0 \in Keys /\ row.match = q.body.match
      /\ row.status = q.write.status /\ RowVerified(row, chain)
  BY <1>1, RowOK
<1>3. q.body.action = "settle" => row.status # "CONFIRMED" /\ row.hash = q.body.hash
  <2> SUFFICES ASSUME q.body.action = "settle"
               PROVE  row.status # "CONFIRMED" /\ row.hash = q.body.hash
    OBVIOUS
  <2>1. q.write.status # "CONFIRMED" /\ q.write.hash = q.body.hash
    BY <1>1 DEF Settling
  <2>2. q.body.hash # None
    BY <1>1, BodyTypes, SettlementAssumption DEF SettlementAssumption
  <2>3. q.at # None => q.old \in TradeRow
    BY <1>1 DEF RequestOK, Continues
  <2> QED
    BY <1>2, <2>1, <2>2, <2>3 DEF Row, TradeRow
<1>4. SettleKey(k0) => q.body.action = "settle"
  <2>1. CASE q.at = None
    BY <1>1, <2>1, OwnBody DEF Target
  <2>2. CASE q.at # None
    BY <1>1, <2>2 DEF Target, Settling
  <2> QED
    BY <2>1, <2>2
<1> HIDE DEF q
<1>5. CASE UNCHANGED trade /\ req' = [req EXCEPT ![r] = Idle]
  BY <1>1, <1>5, IdleSettling, OneSettling
<1>6. ASSUME UNCHANGED trade, trade[q.body.key] # None,
             trade[q.body.key].match = q.body.match,
             req' = [req EXCEPT ![r] = Sync(q, trade[q.body.key])]
      PROVE  SInv'
  <2> DEFINE found == trade[q.body.key]
  <2>1. q.body.action = "settle" => found.status # "CONFIRMED"
    BY <1>1, <1>6, OwnBody DEF SInv, SettleRow
  <2>2. RowVerified(found, chain)
    BY <1>1, <1>6 DEF IInv
  <2> HIDE DEF found
  <2>3. q.body.action = "settle" /\ found.status \in COMPLETED_TRADE =>
          PaidOut(found.match, chain)
    BY <2>1, <2>2, VerifiedPaysOut DEF RowVerified
  <2>4. Settling(Sync(q, found), chain)
    BY <1>6, <2>3 DEF Settling, Sync, found
  <2> QED
    BY <1>1, <1>6, <2>4, OneSettling DEF found
<1>7. ASSUME trade' = [trade EXCEPT ![k0] = row],
             \/ req' = [req EXCEPT ![r] = Idle]
             \/ req' = [req EXCEPT ![r] = Sync(q, row)]
      PROVE  SInv'
  <2>1. q.body.action = "settle" /\ row.status \in COMPLETED_TRADE =>
          PaidOut(q.body.match, chain)
    BY <1>2, <1>3, VerifiedPaysOut DEF RowVerified
  <2>2. Settling(Sync(q, row), chain)
    BY <2>1 DEF Settling, Sync
  <2>3. SettleKey(k0) => SettleRow(row)
    BY <1>1, <1>3, <1>4, OwnBody DEF SettleRow
  <2> HIDE DEF k0, row
  <2>4. \A k \in Keys : trade'[k] # None /\ SettleKey(k) => SettleRow(trade'[k])
    BY <1>2, <1>7, <2>3 DEF IInv, TypeOK, SInv
  <2>5. \A s \in Reporters : Settling(req'[s], chain)
    BY <1>7, <2>2, IdleSettling DEF IInv, RequestsOK, SInv
  <2> QED
    BY <1>1, <2>4, <2>5 DEF SInv
<1>8. \/ UNCHANGED trade /\ req' = [req EXCEPT ![r] = Idle]
      \/ /\ UNCHANGED trade /\ trade[q.body.key] # None
         /\ trade[q.body.key].match = q.body.match
         /\ req' = [req EXCEPT ![r] = Sync(q, trade[q.body.key])]
      \/ /\ trade' = [trade EXCEPT ![k0] = row]
         /\ \/ req' = [req EXCEPT ![r] = Idle]
            \/ req' = [req EXCEPT ![r] = Sync(q, row)]
  BY DEF persistTrade, Finish, q
<1> QED
  BY <1>5, <1>6, <1>7, <1>8

LEMMA SyncSettling ==
  ASSUME IInv, SInv, NEW r \in Reporters, syncMatch(r)
  PROVE  SInv'
<1> DEFINE q == req[r]
           next == StatusAfter(q.body.action, q.row, match[q.body.match])
<1>1. /\ q.body.match \in Matches /\ q.body.action \in {"purchase", "settle", "reject"}
      /\ q.row \in TradeRow /\ q.pc = "sync"
  BY BodyTypes DEF IInv, RequestsOK, RequestOK, syncMatch
<1>2. /\ match' = [match EXCEPT ![q.body.match] = next]
      /\ req' = [req EXCEPT ![r] = Idle] /\ UNCHANGED <<trade, chain>>
  BY DEF syncMatch, Finish
<1>3. next = "SETTLED" => \/ match[q.body.match] = "SETTLED"
                          \/ q.body.action = "settle" /\ q.row.status \in COMPLETED_TRADE
  BY DEF StatusAfter, COMPLETED_TRADE
<1>4. Settling(q, chain)
  BY DEF SInv
<1>5. next = "SETTLED" => PaidOut(q.body.match, chain)
  BY <1>1, <1>3, <1>4 DEF Settling, SInv
<1> HIDE DEF next, q
<1>6. \A m \in Matches : match'[m] = "SETTLED" => PaidOut(m, chain)
  BY <1>1, <1>2, <1>5 DEF IInv, TypeOK, SInv
<1>7. \A s \in Reporters : Settling(req'[s], chain)
  BY <1>2, IdleSettling DEF IInv, RequestsOK, SInv
<1> QED
  BY <1>2, <1>6, <1>7 DEF SInv

\* A payout stays one, whatever else is mined.
LEMMA MineSettling ==
  ASSUME IInv, SInv, NEW h \in Hashes, mine(h)
  PROVE  SInv'
<1>1. \A g \in Hashes : chain[g] = "succeeded" => chain'[g] = "succeeded"
  BY DEF mine, IInv
<1>2. \A m : PaidOut(m, chain) => PaidOut(m, chain')
  BY <1>1 DEF PaidOut
<1>3. \A q : Settling(q, chain) => Settling(q, chain')
  BY <1>2 DEF Settling
<1> QED
  BY <1>2, <1>3 DEF SInv, mine

LEMMA StepSettling ==
  ASSUME SettlesAreTheirOwn
  PROVE  IInv /\ SInv /\ [Next]_vars => SInv'
<1> SUFFICES ASSUME IInv, SInv, [Next]_vars PROVE SInv'
  OBVIOUS
<1>1. ASSUME NEW r \in Reporters, Step(r) PROVE SInv'
  BY <1>1, FindSettling, FindPurchaseSettling, ChainSettling, PersistSettling,
     SyncSettling DEF Step
<1>2. ASSUME NEW r \in Reporters, dies(r) PROVE SInv'
  BY <1>2, IdleSettling, OneSettling DEF dies, Finish
<1>3. CASE UNCHANGED <<match, trade, chain, req>>
  BY <1>3 DEF SInv
<1>4. \/ \E r \in Reporters, body \in Reports : loadMatch(r, body)
      \/ \E r \in Reporters : Step(r) \/ dies(r)
      \/ UNCHANGED <<match, trade, chain, req>> \/ \E h \in Hashes : mine(h)
  BY DEF Next, withdraw, remap, vars
<1> QED
  BY <1>1, <1>2, <1>3, <1>4, LoadSettling, MineSettling

LEMMA InitSInv == Init => SInv
BY IdleSettling DEF Init, SInv

-----------------------------------------------------------------------------
(* The browsers.  Whatever they do, they take part in Settlement as reporters
   whose reports are well formed, which needs that a rejection always finds a
   new key; and a panel shows only rows that were trades of the table. *)

ApiRow == [status : TradeStatus \cup {"none"}, hash : Hashes \cup {None}]
PanelRow == [busy : BOOLEAN, api : ApiRow, list : ApiRow]
SubmitRow == [step : {"rest", "network", "prompt", "report", "wait", "again", "decline"},
              hash : Hashes \cup {None}, asked : BOOLEAN]

\* What is shown of a trade that counts succeeded, when the chain is ch.
ShownOK(api, ch) ==
  /\ api \in ApiRow
  /\ api.status \in COMPLETED_TRADE => api.hash # None /\ ch[api.hash] = "succeeded"

Signed(v) == v.step \in {"report", "wait", "again"} => v.hash \in Hashes

Declining == {t \in Reporters : submit[t].step = "decline"}
KeysSuffice == Cardinality(Declining) <= Cardinality(Keys \ minted)

SubmitsOK ==
  /\ submit \in [Reporters -> SubmitRow]
  /\ \A s \in Reporters : Signed(submit[s])
  /\ keyOf \in [Browsers -> [Slots -> Keys]]
  /\ KeysSuffice

PanelsOK ==
  /\ panel \in [Panels -> PanelRow]
  /\ \A p \in Panels : ShownOK(panel[p].api, chain) /\ ShownOK(panel[p].list, chain)

NewestOK ==
  /\ newest \in Seq(Keys)
  /\ \A i \in DOMAIN newest : trade[newest[i]] # None

CInv == IInv /\ SubmitsOK /\ PanelsOK /\ NewestOK

\* As long as fewer submits decline and no key is used up, the keys suffice.
LEMMA FewerDecline ==
  ASSUME KeysSuffice, Declining' \subseteq Declining, minted' = minted
  PROVE  KeysSuffice'
<1>1. IsFiniteSet(Declining)
  BY CheckoutAssumption, FS_Subset DEF CheckoutAssumption, Declining
<1>2. Cardinality(Declining') <= Cardinality(Declining)
      /\ Cardinality(Declining') \in Nat /\ Cardinality(Declining) \in Nat
  BY <1>1, FS_Subset, FS_CardinalityType
<1>3. IsFiniteSet(Keys \ minted) /\ Cardinality(Keys \ minted) \in Nat
  BY CheckoutAssumption, FS_Subset, FS_CardinalityType DEF CheckoutAssumption
<1> QED
  BY <1>2, <1>3 DEF KeysSuffice

\* One submit moves on, its browser's keys stand.
LEMMA OneSubmit ==
  ASSUME SubmitsOK, NEW s \in Reporters, NEW v \in SubmitRow, Signed(v),
         v.step # "decline", submit' = [submit EXCEPT ![s] = v],
         UNCHANGED <<keyOf, minted>>
  PROVE  SubmitsOK'
<1>1. submit' \in [Reporters -> SubmitRow] /\ \A t \in Reporters : Signed(submit'[t])
  BY DEF SubmitsOK
<1>2. Declining' \subseteq Declining
  BY DEF SubmitsOK, Declining
<1> QED
  BY <1>1, <1>2, FewerDecline DEF SubmitsOK

\* The user declines: there is a key for one more rejection.
LEMMA DeclineSubmits ==
  ASSUME SubmitsOK, NEW s \in Reporters, Decline(s)
  PROVE  SubmitsOK'
<1> DEFINE v == [submit[s] EXCEPT !.step = "decline"]
<1>1. /\ submit[s] \in SubmitRow /\ submit[s].step \in {"network", "prompt"}
      /\ submit' = [submit EXCEPT ![s] = v] /\ UNCHANGED <<keyOf, minted>>
      /\ Cardinality(Declining) < Cardinality(Keys \ minted)
  BY DEF Decline, SubmitsOK, Declining
<1>2. v \in SubmitRow /\ v.step = "decline"
  BY <1>1 DEF SubmitRow
<1>3. Signed(v)
  BY <1>2 DEF Signed
<1> HIDE DEF v
<1>4. submit' \in [Reporters -> SubmitRow] /\ \A t \in Reporters : Signed(submit'[t])
  BY <1>1, <1>2, <1>3 DEF SubmitsOK
<1>5. Declining' = Declining \cup {s} /\ s \notin Declining
  BY <1>1, <1>2 DEF SubmitsOK, Declining
<1>6. IsFiniteSet(Declining) /\ Cardinality(Declining) \in Nat
  BY CheckoutAssumption, FS_Subset, FS_CardinalityType DEF CheckoutAssumption, Declining
<1>7. Cardinality(Declining') = Cardinality(Declining) + 1
  <2> DEFINE D == Declining
  <2> HIDE DEF D
  <2>1. IsFiniteSet(D) => Cardinality(D \cup {s}) = IF s \in D THEN Cardinality(D) ELSE Cardinality(D) + 1
    BY FS_AddElement
  <2> QED
    BY <1>5, <1>6, <2>1 DEF D
<1>8. Cardinality(Keys \ minted) \in Nat
  BY CheckoutAssumption, FS_Subset, FS_CardinalityType DEF CheckoutAssumption
<1>9. KeysSuffice'
  BY <1>1, <1>6, <1>7, <1>8 DEF KeysSuffice
<1> QED
  BY <1>1, <1>4, <1>9 DEF SubmitsOK

\* A submit goes on after an answer; a declined one takes a key that is new.
LEMMA ContinueSubmits ==
  ASSUME SubmitsOK, NEW s \in Reporters, NEW answer, Continue(s, answer)
  PROVE  SubmitsOK'
<1> DEFINE waits == [submit[s] EXCEPT !.step = "wait", !.asked = FALSE]
           v == IF submit[s].step = "report" THEN waits ELSE Rest
<1>1. submit' = [submit EXCEPT ![s] = v] /\ submit[s] \in SubmitRow /\ Signed(submit[s])
  BY DEF Continue, SubmitsOK
<1>2. v \in SubmitRow /\ Signed(v) /\ v.step # "decline"
  BY <1>1 DEF SubmitRow, Signed, Rest
<1> HIDE DEF v
<1>3. CASE submit[s].step # "decline"
  <2>1. UNCHANGED <<keyOf, minted>>
    BY <1>3 DEF Continue
  <2> QED
    BY <1>1, <1>2, <2>1, OneSubmit
<1>4. CASE submit[s].step = "decline"
  <2> DEFINE free == Keys \ minted
             D == Declining
  <2>1. /\ minted' = minted \cup {NewKey}
        /\ keyOf' = [keyOf EXCEPT ![Browser(s)][Action(s)] = NewKey]
    BY <1>4 DEF Continue
  <2>2. s \in D /\ D' = D \ {s}
    BY <1>1, <1>2, <1>4 DEF SubmitsOK, Declining
  <2>3. /\ IsFiniteSet(D) /\ Cardinality(D) \in Nat
        /\ IsFiniteSet(free) /\ Cardinality(free) \in Nat
    BY CheckoutAssumption, FS_Subset, FS_CardinalityType DEF CheckoutAssumption, Declining
  <2>4. Cardinality(D') = Cardinality(D) - 1 /\ Cardinality(D) <= Cardinality(free)
    <3>1. Cardinality(D) <= Cardinality(free)
      BY DEF SubmitsOK, KeysSuffice
    <3> HIDE DEF D
    <3>2. Cardinality(D \ {s}) = Cardinality(D) - 1
      BY <2>2, <2>3, FS_RemoveElement
    <3> QED
      BY <2>2, <3>1, <3>2
  <2>5. Cardinality(D) > 0
    <3> HIDE DEF D
    <3>1. D # {}
      BY <2>2
    <3> QED
      BY <2>3, <3>1, FS_EmptySet
  <2>6. free # {}
    BY <2>3, <2>4, <2>5, FS_EmptySet
  <2>7. NewKey \in free
    BY <2>6 DEF NewKey
  <2>8. free' = free \ {NewKey}
    BY <2>1
  <2>9. Cardinality(free') = Cardinality(free) - 1
    <3> DEFINE k == NewKey
    <3> HIDE DEF free, k
    <3>1. Cardinality(free \ {k}) = Cardinality(free) - 1
      BY <2>3, <2>7, FS_RemoveElement DEF k
    <3> QED
      BY <2>8, <3>1 DEF k
  <2>10. KeysSuffice'
    BY <2>3, <2>4, <2>9 DEF KeysSuffice
  <2>11. keyOf' \in [Browsers -> [Slots -> Keys]]
    <3>1. /\ Browser(s) \in Browsers /\ Action(s) \in Slots /\ NewKey \in Keys
          /\ keyOf \in [Browsers -> [Slots -> Keys]]
      BY <2>7, CheckoutAssumption DEF CheckoutAssumption, Browser, Action, Slots, SubmitsOK
    <3> DEFINE b == Browser(s)
               a == Action(s)
               k == NewKey
    <3> HIDE DEF b, a, k
    <3>2. [keyOf EXCEPT ![b][a] = k] \in [Browsers -> [Slots -> Keys]]
      BY <3>1 DEF b, a, k
    <3> QED
      BY <2>1, <3>2 DEF b, a, k
  <2>12. submit' \in [Reporters -> SubmitRow] /\ \A t \in Reporters : Signed(submit'[t])
    BY <1>1, <1>2 DEF SubmitsOK
  <2> QED
    BY <2>10, <2>11, <2>12 DEF SubmitsOK
<1> QED
  BY <1>3, <1>4

\* The steps of one submit between its reports.
LEMMA OwnSteps ==
  ASSUME SubmitsOK, NEW s \in Reporters,
         \/ Click(s) \/ Prompt(s) \/ WalletFails(s) \/ (\E h \in Hashes : Approve(s, h))
         \/ Send(s) \/ Receipt(s) \/ ReceiptTimeout(s)
  PROVE  SubmitsOK'
<1>1. submit[s] \in SubmitRow /\ Signed(submit[s]) /\ UNCHANGED <<keyOf, minted>>
  BY DEF SubmitsOK, Click, Prompt, WalletFails, Approve, Send, Receipt, ReceiptTimeout
<1>2. CASE Click(s)
  <2> DEFINE v == [submit[s] EXCEPT !.step = "network"]
  <2>1. submit' = [submit EXCEPT ![s] = v]
    BY <1>1, <1>2 DEF Click
  <2>2. v \in SubmitRow /\ Signed(v) /\ v.step # "decline"
    BY <1>1 DEF SubmitRow, Signed
  <2> QED
    BY <1>1, <2>1, <2>2, OneSubmit
<1>3. CASE Prompt(s)
  <2> DEFINE v == [submit[s] EXCEPT !.step = "prompt"]
  <2>1. submit' = [submit EXCEPT ![s] = v]
    BY <1>1, <1>3 DEF Prompt
  <2>2. v \in SubmitRow /\ Signed(v) /\ v.step # "decline"
    BY <1>1 DEF SubmitRow, Signed
  <2> QED
    BY <1>1, <2>1, <2>2, OneSubmit
<1>4. ASSUME NEW h \in Hashes, Approve(s, h)
      PROVE  SubmitsOK'
  <2> DEFINE v == [submit[s] EXCEPT !.step = "report", !.hash = h]
  <2>1. submit' = [submit EXCEPT ![s] = v]
    BY <1>1, <1>4 DEF Approve
  <2>2. v \in SubmitRow /\ Signed(v) /\ v.step # "decline"
    BY <1>1 DEF SubmitRow, Signed
  <2> QED
    BY <1>1, <2>1, <2>2, OneSubmit
<1>5. CASE Send(s)
  <2>1. submit' = [submit EXCEPT ![s].asked = TRUE] /\ submit' \in [Reporters -> SubmitRow]
    BY <1>1, <1>5 DEF Send, SubmitsOK, SubmitRow
  <2>2. \A t \in Reporters : submit'[t].step = submit[t].step /\ submit'[t].hash = submit[t].hash
    BY <1>1, <2>1 DEF SubmitsOK, SubmitRow
  <2>3. Declining' = Declining
    BY <2>2 DEF Declining
  <2>4. \A t \in Reporters : Signed(submit'[t])
    BY <2>2 DEF Signed, SubmitsOK
  <2> QED
    BY <1>1, <2>1, <2>3, <2>4, FewerDecline DEF SubmitsOK
<1>6. CASE Receipt(s)
  <2> DEFINE v == [submit[s] EXCEPT !.step = "again"]
  <2>1. submit' = [submit EXCEPT ![s] = v] /\ submit[s].step = "wait"
    BY <1>1, <1>6 DEF Receipt
  <2>2. v \in SubmitRow /\ Signed(v) /\ v.step # "decline"
    BY <1>1, <2>1 DEF SubmitRow, Signed
  <2> QED
    BY <1>1, <2>1, <2>2, OneSubmit
<1>7. CASE WalletFails(s) \/ ReceiptTimeout(s)
  <2>1. submit' = [submit EXCEPT ![s] = Rest]
    BY <1>7 DEF WalletFails, ReceiptTimeout
  <2>2. Rest \in SubmitRow /\ Signed(Rest) /\ Rest.step # "decline"
    BY DEF Rest, SubmitRow, Signed
  <2> QED
    BY <1>1, <2>1, <2>2, OneSubmit
<1> QED
  BY <1>2, <1>3, <1>4, <1>5, <1>6, <1>7

LEMMA ReloadSubmits ==
  ASSUME SubmitsOK, NEW b, Reload(b)
  PROVE  SubmitsOK'
<1>1. /\ submit' = [s \in Reporters |-> IF Browser(s) = b THEN Rest ELSE submit[s]]
      /\ UNCHANGED <<keyOf, minted>>
  BY DEF Reload
<1>2. Rest \in SubmitRow /\ Signed(Rest) /\ Rest.step # "decline"
  BY DEF Rest, SubmitRow, Signed
<1>3. submit' \in [Reporters -> SubmitRow] /\ \A t \in Reporters : Signed(submit'[t])
  BY <1>1, <1>2 DEF SubmitsOK
<1>4. Declining' \subseteq Declining
  BY <1>1, <1>2 DEF Declining
<1> QED
  BY <1>1, <1>3, <1>4, FewerDecline DEF SubmitsOK

\* What a panel sends for submit s.
SentBody(s) ==
  [action |-> Slot(s), match |-> TheMatch, key |-> keyOf[Browser(s)][Slot(s)],
   hash |-> IF Slot(s) = "reject" THEN None ELSE submit[s].hash]

LEMMA BodySent ==
  ASSUME SubmitsOK, NEW s \in Reporters, Send(s)
  PROVE  /\ SentBody(s) \in ClientReports /\ loadMatch(s, SentBody(s))
         /\ Browser(s) \in Browsers /\ Slot(s) \in Slots
         /\ Slot(s) = "reject" \/ (Slot(s) = Action(s) /\ submit[s].step \in {"report", "again"})
<1>1. loadMatch(s, SentBody(s)) /\ submit[s].step \in {"report", "again", "decline"}
  BY DEF Send, SentBody
<1>2. Browser(s) \in Browsers /\ Action(s) \in {"purchase", "settle"}
  BY CheckoutAssumption DEF CheckoutAssumption, Browser, Action
<1>3. keyOf[Browser(s)][Slot(s)] \in Keys /\ Slot(s) \in Slots
  BY <1>2 DEF SubmitsOK, Slot, Slots
<1>4. CASE submit[s].step = "decline"
  <2>1. Slot(s) = "reject"
    BY <1>4 DEF Slot
  <2>2. SentBody(s) \in ClientReports
    BY <1>3, <2>1 DEF SentBody, ClientReports
  <2> QED
    BY <1>1, <1>2, <1>3, <2>1, <2>2
<1>5. CASE submit[s].step # "decline"
  <2>1. submit[s].hash \in Hashes
    BY <1>1, <1>5 DEF SubmitsOK, Signed
  <2>2. Slot(s) = Action(s)
    BY <1>5 DEF Slot
  <2>3. SentBody(s) \in ClientReports
    BY <1>2, <1>3, <2>1, <2>2 DEF SentBody, ClientReports
  <2> QED
    BY <1>1, <1>2, <1>3, <1>5, <2>2, <2>3
<1> QED
  BY <1>4, <1>5

\* It is a report of Settlement.
LEMMA SendIsReport ==
  ASSUME SubmitsOK, NEW s \in Reporters, Send(s)
  PROVE  \E body \in Reports : loadMatch(s, body)
BY BodySent, CheckoutAssumption DEF CheckoutAssumption

\* A row that is verified if it counts may be shown.
LEMMA ShownRow ==
  ASSUME NEW row \in TradeRow, RowVerified(row, chain)
  PROVE  ShownOK(Shown(row), chain)
BY SettlementAssumption
   DEF Shown, ShownOK, ApiRow, TradeRow, TradeStatus, RowVerified, VerifiedAs, SettlementAssumption

\* The row an answer gives is one of the table, or was when the report held it.
LEMMA AnswerOK ==
  ASSUME IInv, NEW s \in Reporters, Step(s)
  PROVE  ShownOK(AnswerOf(s), chain)
<1>1. /\ RequestOK(req[s], chain)
      /\ \A k \in Keys : trade[k] # None => trade[k] \in TradeRow /\ RowVerified(trade[k], chain)
  BY DEF IInv, RequestsOK, TypeOK
<1>2. \A row \in TradeRow : RowVerified(row, chain) => ShownOK(Shown(row), chain)
  BY ShownRow
<1>3. ShownOK(NoTrade, chain)
  BY DEF NoTrade, ShownOK, ApiRow, COMPLETED_TRADE
<1>4. ShownOK([status |-> "REJECTED", hash |-> None], chain)
  BY DEF ShownOK, ApiRow, TradeStatus, COMPLETED_TRADE
<1> DEFINE q == req[s]
           k0 == CHOOSE k \in Continued(q.body) : TRUE
<1>5. CASE q.pc = "sync"
  <2>1. AnswerOf(s) = IF q.row.status # "FAILED" THEN Shown(q.row) ELSE NoTrade
    BY <1>5 DEF AnswerOf
  <2>2. q.row \in TradeRow /\ RowVerified(q.row, chain)
    BY <1>1, <1>5 DEF RequestOK
  <2> QED
    BY <1>2, <1>3, <2>1, <2>2
<1>6. CASE q.pc = "find" /\ Continued(q.body) # {}
  <2>1. AnswerOf(s) = Shown(trade[k0]) \/ AnswerOf(s) = NoTrade
    BY <1>6 DEF AnswerOf
  <2>2. q.body \in Reports
    BY <1>1, <1>6 DEF RequestOK
  <2>3. k0 \in Continued(q.body)
    BY <1>6
  <2>4. k0 \in Keys /\ trade[k0] # None
    <3> HIDE DEF k0, q
    <3> QED
      BY <2>2, <2>3, BodyTypes DEF Continued
  <2> HIDE DEF k0
  <2> QED
    BY <1>1, <1>2, <1>3, <2>1, <2>4
<1>7. CASE ~(q.pc = "sync") /\ ~(q.pc = "find" /\ Continued(q.body) # {})
  <2>1. \/ AnswerOf(s) = [status |-> "REJECTED", hash |-> None]
        \/ AnswerOf(s) = NoTrade
    BY <1>7 DEF AnswerOf
  <2> QED
    BY <1>3, <1>4, <2>1
<1> QED
  BY <1>5, <1>6, <1>7

\* No step removes a trade, and none of a report moves the chain.
LEMMA RowsStay ==
  ASSUME IInv, NEW s \in Reporters, Step(s)
  PROVE  /\ chain' = chain
         /\ \A k \in Keys : trade[k] # None => trade'[k] # None
<1>1. chain' = chain
  BY DEF Step, findExisting, findPurchase, queryChain, persistTrade, syncMatch
<1>2. CASE persistTrade(s)
  <2>1. Row(req[s]) \in TradeRow
    BY <1>2, RowOK DEF IInv, RequestsOK, persistTrade
  <2>2. Row(req[s]) # None
    BY <2>1, NoneAssumption
  <2>3. trade' = trade \/ trade' = [trade EXCEPT ![Target(req[s])] = Row(req[s])]
    BY <1>2 DEF persistTrade
  <2> QED
    BY <1>1, <2>2, <2>3 DEF IInv, TypeOK
<1>3. CASE ~persistTrade(s)
  BY <1>1, <1>3 DEF Step, findExisting, findPurchase, queryChain, syncMatch
<1> QED
  BY <1>2, <1>3

\* Panels when nothing is shown anew.
LEMMA PanelsSame ==
  ASSUME PanelsOK, \A h \in Hashes : chain[h] = "succeeded" => chain'[h] = "succeeded",
         panel' = panel \/ \E s \in Reporters, busy \in BOOLEAN : SetBusy(s, busy)
  PROVE  PanelsOK'
<1>1. \A p \in Panels : /\ panel[p] \in PanelRow
                        /\ ShownOK(panel[p].api, chain) /\ ShownOK(panel[p].list, chain)
  BY DEF PanelsOK
<1>2. /\ panel' \in [Panels -> PanelRow]
      /\ \A p \in Panels : panel'[p].api = panel[p].api /\ panel'[p].list = panel[p].list
  <2>1. CASE panel' = panel
    BY <2>1 DEF PanelsOK
  <2>2. ASSUME NEW s \in Reporters, NEW busy \in BOOLEAN, SetBusy(s, busy)
        PROVE  /\ panel' \in [Panels -> PanelRow]
               /\ \A p \in Panels : panel'[p].api = panel[p].api /\ panel'[p].list = panel[p].list
    <3>1. panel' = [panel EXCEPT ![PanelOf[s]].busy = busy]
      BY <2>2 DEF SetBusy
    <3>2. PanelOf[s] \in Panels
      BY CheckoutAssumption DEF CheckoutAssumption
    <3> QED
      BY <1>1, <3>1, <3>2 DEF PanelsOK, PanelRow
  <2> QED
    BY <2>1, <2>2
<1>3. ASSUME NEW p \in Panels
      PROVE  ShownOK(panel[p].api, chain') /\ ShownOK(panel[p].list, chain')
  <2>1. panel[p].api \in ApiRow /\ panel[p].list \in ApiRow
    BY <1>1 DEF PanelRow
  <2> QED
    BY <1>1, <2>1 DEF ShownOK, ApiRow
<1> QED
  BY <1>2, <1>3 DEF PanelsOK

\* A panel shows another row.
LEMMA PanelShows ==
  ASSUME PanelsOK, chain' = chain, NEW p \in Panels, NEW api, ShownOK(api, chain),
         panel' = [panel EXCEPT ![p].api = api]
  PROVE  PanelsOK'
<1>1. api \in ApiRow
  BY DEF ShownOK
<1>2. panel' \in [Panels -> PanelRow]
  BY <1>1 DEF PanelsOK, PanelRow
<1>3. \A o \in Panels : /\ panel'[o].api = IF o = p THEN api ELSE panel[o].api
                        /\ panel'[o].list = panel[o].list
  BY DEF PanelsOK, PanelRow
<1> QED
  BY <1>2, <1>3 DEF PanelsOK

LEMMA ContinuePanels ==
  ASSUME PanelsOK, chain' = chain, NEW s \in Reporters, NEW answer, ShownOK(answer, chain),
         Continue(s, answer)
  PROVE  PanelsOK'
<1>1. PanelOf[s] \in Panels
  BY CheckoutAssumption DEF CheckoutAssumption
<1>2. \/ panel' = [panel EXCEPT ![PanelOf[s]].api = panel[PanelOf[s]].api]
      \/ panel' = [panel EXCEPT ![PanelOf[s]].api = answer]
  BY DEF Continue
<1>3. ShownOK(panel[PanelOf[s]].api, chain)
  BY <1>1 DEF PanelsOK
<1> QED
  BY <1>1, <1>2, <1>3, PanelShows

LEMMA MinIsIn ==
  ASSUME NEW S, S \subseteq Nat, S # {}
  PROVE  Min(S) \in S
BY LeastExists DEF Min

\* The list of trades gives rows of the table.
LEMMA ListTradesShows ==
  ASSUME CInv, NEW p \in Panels, ListTrades(p)
  PROVE  PanelsOK'
<1> DEFINE wanted == {i \in DOMAIN listTrades :
                        (listTrades[i].status = "COMPLETED") <=> (ActionOf[p] = "settle")}
           latest == IF wanted = {} THEN 1 ELSE Min(wanted)
           row == listTrades[latest]
<1>1. /\ newest # <<>> /\ newest \in Seq(Keys)
      /\ panel' = [panel EXCEPT ![p].list = Shown(row)] /\ chain' = chain
  BY DEF ListTrades, CInv, NewestOK, vars
<1>2. DOMAIN listTrades = DOMAIN newest /\ DOMAIN newest \subseteq Nat /\ 1 \in DOMAIN newest
  BY <1>1 DEF listTrades
<1>3. latest \in DOMAIN newest
  <2>1. wanted \subseteq Nat /\ wanted \subseteq DOMAIN newest
    BY <1>2
  <2> HIDE DEF wanted
  <2>2. wanted # {} => Min(wanted) \in wanted
    BY <2>1, MinIsIn
  <2> QED
    BY <1>2, <2>1, <2>2
<1> HIDE DEF latest
<1>4. row = trade[newest[latest]] /\ newest[latest] \in Keys /\ trade[newest[latest]] # None
  BY <1>1, <1>3 DEF listTrades, CInv, NewestOK
<1> HIDE DEF row
<1>5. row \in TradeRow /\ RowVerified(row, chain)
  BY <1>4 DEF CInv, IInv, TypeOK
<1>6. ShownOK(Shown(row), chain)
  BY <1>5, ShownRow
<1> DEFINE api == Shown(row)
<1> HIDE DEF api
<1>7. ShownOK(api, chain) /\ panel' = [panel EXCEPT ![p].list = api] /\ chain' = chain
  BY <1>1, <1>6 DEF api
<1>8. api \in ApiRow
  BY <1>7 DEF ShownOK
<1>9. \A o \in Panels : /\ panel'[o].api = panel[o].api
                        /\ panel'[o].list = IF o = p THEN api ELSE panel[o].list
  BY <1>7 DEF CInv, PanelsOK, PanelRow
<1> QED
  BY <1>7, <1>8, <1>9 DEF CInv, PanelsOK, PanelRow

\* What a list brought is shown.
LEMMA LoadTradesShows ==
  ASSUME CInv, NEW p \in Panels, LoadTrades(p)
  PROVE  PanelsOK'
<1> DEFINE row == panel[p].list
<1>1. panel' = [panel EXCEPT ![p].api = row, ![p].list = NoTrade] /\ chain' = chain
  BY DEF LoadTrades, vars
<1>2. ShownOK(row, chain) /\ ShownOK(NoTrade, chain) /\ row \in ApiRow /\ NoTrade \in ApiRow
  BY DEF CInv, PanelsOK, PanelRow, NoTrade, ShownOK, ApiRow, COMPLETED_TRADE
<1> HIDE DEF row
<1>3. \A o \in Panels : /\ panel'[o].api = IF o = p THEN row ELSE panel[o].api
                        /\ panel'[o].list = IF o = p THEN NoTrade ELSE panel[o].list
  BY <1>1 DEF CInv, PanelsOK, PanelRow
<1> QED
  BY <1>1, <1>2, <1>3 DEF CInv, PanelsOK, PanelRow

\* New rows come first, and no row goes.
LEMMA NewestGrows ==
  ASSUME NewestOK, \A k \in Keys : trade[k] # None => trade'[k] # None,
         newest' = SetToSeq({k \in Keys : trade[k] = None /\ trade'[k] # None}) \o newest
  PROVE  NewestOK'
<1> DEFINE S == {k \in Keys : trade[k] = None /\ trade'[k] # None}
           new == SetToSeq(S)
<1>1. new \in Seq(S)
  <2>1. IsFiniteSet(S)
    BY CheckoutAssumption, FS_Subset DEF CheckoutAssumption
  <2>2. Cardinality(S) \in Nat /\ ExistsBijection(1..Cardinality(S), S)
    BY <2>1, FS_CardinalityType
  <2>3. \E f \in [1..Cardinality(S) -> S] : IsInjective(f)
    BY <2>2 DEF ExistsBijection, Bijection, Injection
  <2> HIDE DEF S
  <2>4. new \in [1..Cardinality(S) -> S]
    BY <2>3 DEF SetToSeq
  <2> QED
    BY <2>2, <2>4
<1>2. newest' = new \o newest
  OBVIOUS
<1>3. S \subseteq Keys /\ \A k \in S : trade'[k] # None
  OBVIOUS
<1> HIDE DEF S, new
<1>4. new \in Seq(Keys) /\ newest \in Seq(Keys) /\ \A i \in DOMAIN new : new[i] \in S
  BY <1>1, <1>3 DEF NewestOK
<1>5. newest' \in Seq(Keys)
  <2>1. new \in Seq(Keys) /\ newest \in Seq(Keys)
    BY <1>4
  <2> QED
    BY <1>2, <2>1, ConcatProperties
<1>6. ASSUME NEW i \in DOMAIN newest'
      PROVE  trade'[newest'[i]] # None
  <2>1. \/ i \in DOMAIN new /\ newest'[i] = new[i]
        \/ \E j \in DOMAIN newest : newest'[i] = newest[j]
    <3>1. new \in Seq(Keys) /\ newest \in Seq(Keys)
      BY <1>4
    <3>2. /\ Len(new) \in Nat /\ Len(newest) \in Nat /\ Len(newest') = Len(new) + Len(newest)
          /\ \A j \in 1..(Len(new) + Len(newest)) :
               newest'[j] = IF j <= Len(new) THEN new[j] ELSE newest[j - Len(new)]
      <4>1. Len(new) \in Nat /\ Len(newest) \in Nat
        BY <3>1, LenProperties
      <4>2. /\ Len(new \o newest) = Len(new) + Len(newest)
            /\ \A j \in 1..(Len(new) + Len(newest)) :
                 (new \o newest)[j] = IF j <= Len(new) THEN new[j] ELSE newest[j - Len(new)]
        BY <3>1, ConcatProperties
      <4> QED
        BY <1>2, <4>1, <4>2
    <3>3. i \in 1..(Len(new) + Len(newest)) /\ DOMAIN new = 1..Len(new) /\ DOMAIN newest = 1..Len(newest)
      BY <1>5, <1>6, <3>1, <3>2, LenProperties
    <3>4. CASE i <= Len(new)
      BY <3>2, <3>3, <3>4
    <3>5. CASE ~(i <= Len(new))
      <4>1. i - Len(new) \in DOMAIN newest /\ newest'[i] = newest[i - Len(new)]
        BY <3>2, <3>3, <3>5
      <4> QED
        BY <4>1
    <3> QED
      BY <3>4, <3>5
  <2>2. \A j \in DOMAIN newest : newest[j] \in Keys /\ trade[newest[j]] # None
    BY <1>4 DEF NewestOK
  <2> QED
    BY <1>3, <1>4, <2>1, <2>2
<1> QED
  BY <1>5, <1>6 DEF NewestOK

\* Every step of the browsers is a step of Settlement, or none.
LEMMA CheckoutSteps ==
  ASSUME SubmitsOK, [CheckoutNext]_checkoutVars
  PROVE  [Next]_vars
<1>1. ASSUME NEW s \in Reporters, Send(s)
      PROVE  Next
  BY <1>1, SendIsReport DEF Next
<1>2. ASSUME NEW s \in Reporters, Api(s) \/ ApiDies(s)
      PROVE  Next
  BY <1>2 DEF Api, ApiDies, Next
<1>3. ASSUME NEW s \in Reporters,
             Choose(s) \/ Receipt(s) \/ ReceiptTimeout(s)
      PROVE  UNCHANGED vars
  BY <1>3 DEF Choose, Click, Prompt, Decline, WalletFails, Approve, Receipt, ReceiptTimeout
<1>4. ASSUME \/ \E p \in Panels : ListTrades(p) \/ LoadTrades(p)
             \/ \E b \in Browsers : Refetch(b) \/ Reload(b)
             \/ UNCHANGED checkoutVars
      PROVE  UNCHANGED vars
  BY <1>4 DEF ListTrades, LoadTrades, Refetch, Reload, checkoutVars
<1>5. ASSUME (\E h \in Hashes : Mine(h)) \/ Published
      PROVE  Next
  BY <1>5 DEF Mine, Published, Next
<1> QED
  BY <1>1, <1>2, <1>3, <1>4, <1>5 DEF CheckoutNext, Work

LEMMA InitCInv == CheckoutInit => CInv
<1> SUFFICES ASSUME CheckoutInit PROVE CInv
  OBVIOUS
<1>1. IInv
  BY InitIInv DEF CheckoutInit
<1>2. PanelsOK
  <2>1. Opened \in PanelRow /\ Opened.api = NoTrade /\ Opened.list = NoTrade
    BY DEF Opened, PanelRow, ApiRow, NoTrade
  <2>2. ShownOK(NoTrade, chain)
    BY DEF NoTrade, ShownOK, ApiRow, COMPLETED_TRADE
  <2> QED
    BY <2>1, <2>2 DEF CheckoutInit, PanelsOK
<1>3. NewestOK
  BY DEF CheckoutInit, NewestOK
<1>4. SubmitsOK
  <2>1. Rest \in SubmitRow /\ Signed(Rest) /\ Rest.step # "decline"
    BY DEF Rest, SubmitRow, Signed
  <2>2. submit = [s \in Reporters |-> Rest] /\ keyOf = FirstKeys
    BY DEF CheckoutInit
  <2>3. Cardinality(Declining) = 0
    <3>1. Declining = {}
      BY <2>1, <2>2 DEF Declining
    <3> QED
      BY <3>1, FS_EmptySet
  <2>4. Cardinality(Keys \ minted) \in Nat
    BY CheckoutAssumption, FS_Subset, FS_CardinalityType DEF CheckoutAssumption
  <2>5. KeysSuffice
    BY <2>3, <2>4 DEF KeysSuffice
  <2> QED
    BY <2>1, <2>2, <2>5, CheckoutAssumption DEF SubmitsOK, CheckoutAssumption
<1> QED
  BY <1>1, <1>2, <1>3, <1>4 DEF CInv

\* A step of the API with its answer.
LEMMA ApiPreserves ==
  ASSUME CInv, NEW s \in Reporters, Api(s)
  PROVE  SubmitsOK' /\ PanelsOK' /\ NewestOK'
<1>1. Step(s) /\ IInv /\ SubmitsOK /\ PanelsOK /\ NewestOK
  BY DEF Api, CInv
<1>2. chain' = chain /\ \A k \in Keys : trade[k] # None => trade'[k] # None
  BY <1>1, RowsStay
<1>3. NewestOK'
  BY <1>1, <1>2, NewestGrows DEF Api
<1>4. CASE UNCHANGED <<panel, submit, heard, keyOf, minted>>
  BY <1>1, <1>2, <1>3, <1>4 DEF SubmitsOK, PanelsOK, KeysSuffice, Declining
<1>5. ASSUME NEW answer \in {AnswerOf(s), NoTrade}, Continue(s, answer)
      PROVE  SubmitsOK' /\ PanelsOK'
  <2>1. ShownOK(NoTrade, chain)
    BY DEF NoTrade, ShownOK, ApiRow, COMPLETED_TRADE
  <2>2. ShownOK(answer, chain)
    BY <1>1, <2>1, AnswerOK
  <2> QED
    BY <1>1, <1>2, <1>5, <2>2, ContinueSubmits, ContinuePanels
<1> QED
  BY <1>3, <1>4, <1>5 DEF Api

LEMMA CheckoutPreserves == CInv /\ [CheckoutNext]_checkoutVars => CInv'
<1> SUFFICES ASSUME CInv, [CheckoutNext]_checkoutVars PROVE CInv'
  OBVIOUS
<1>1. IInv /\ SubmitsOK /\ PanelsOK /\ NewestOK
  BY DEF CInv
<1>2. IInv'
  BY <1>1, CheckoutSteps, StepPreserves
<1> SUFFICES SubmitsOK' /\ PanelsOK' /\ NewestOK'
  BY <1>2 DEF CInv
<1>3. ASSUME NEW s \in Reporters, Api(s)
      PROVE  SubmitsOK' /\ PanelsOK' /\ NewestOK'
  BY <1>3, ApiPreserves
<1>4. ASSUME NEW s \in Reporters, ApiDies(s)
      PROVE  SubmitsOK' /\ PanelsOK' /\ NewestOK'
  <2>1. UNCHANGED <<trade, chain, newest>>
    BY <1>4 DEF ApiDies, dies
  <2>2. NewestOK'
    BY <1>1, <2>1 DEF NewestOK
  <2>3. CASE Continue(s, NoTrade)
    <3>1. ShownOK(NoTrade, chain)
      BY DEF NoTrade, ShownOK, ApiRow, COMPLETED_TRADE
    <3> QED
      BY <1>1, <2>1, <2>2, <2>3, <3>1, ContinueSubmits, ContinuePanels
  <2>4. CASE UNCHANGED <<panel, submit, heard, keyOf, minted>>
    BY <1>1, <2>1, <2>2, <2>4 DEF SubmitsOK, PanelsOK, KeysSuffice, Declining
  <2> QED
    BY <1>4, <2>3, <2>4 DEF ApiDies
<1>5. ASSUME NEW s \in Reporters, Choose(s) \/ Send(s) \/ Receipt(s) \/ ReceiptTimeout(s)
      PROVE  SubmitsOK' /\ PanelsOK' /\ NewestOK'
  <2>1. UNCHANGED <<trade, chain, newest>>
    BY <1>5 DEF Choose, Click, Prompt, Approve, Decline, WalletFails, Send, loadMatch, Receipt,
                ReceiptTimeout, vars
  <2>2. NewestOK'
    BY <1>1, <2>1 DEF NewestOK
  <2>3. SubmitsOK'
    BY <1>1, <1>5, OwnSteps, DeclineSubmits DEF Choose
  <2>4. panel' = panel \/ \E t \in Reporters, busy \in BOOLEAN : SetBusy(t, busy)
    BY <1>5 DEF Choose, Click, Prompt, Approve, Decline, WalletFails, Send, Receipt, ReceiptTimeout
  <2> QED
    BY <1>1, <2>1, <2>2, <2>3, <2>4, PanelsSame
<1>6. ASSUME NEW p \in Panels, ListTrades(p) \/ LoadTrades(p)
      PROVE  SubmitsOK' /\ PanelsOK' /\ NewestOK'
  <2>1. UNCHANGED <<trade, submit, keyOf, minted, newest>>
    BY <1>6 DEF ListTrades, LoadTrades, vars
  <2> QED
    BY <1>1, <1>6, <2>1, ListTradesShows, LoadTradesShows
       DEF SubmitsOK, NewestOK, KeysSuffice, Declining
<1>7. ASSUME NEW b \in Browsers, Reload(b)
      PROVE  SubmitsOK' /\ PanelsOK' /\ NewestOK'
  <2>1. /\ UNCHANGED <<trade, chain, newest>>
        /\ panel' = [p \in Panels |-> IF BrowserOf[p] = b THEN Opened ELSE panel[p]]
    BY <1>7 DEF Reload, vars
  <2>2. Opened \in PanelRow /\ ShownOK(Opened.api, chain) /\ ShownOK(Opened.list, chain)
    BY DEF Opened, PanelRow, ApiRow, NoTrade, ShownOK, COMPLETED_TRADE
  <2>3. PanelsOK'
    BY <1>1, <2>1, <2>2 DEF PanelsOK
  <2> QED
    BY <1>1, <1>7, <2>1, <2>3, ReloadSubmits DEF NewestOK
<1>8. CASE UNCHANGED <<trade, chain, panel, submit, keyOf, minted, newest>>
  BY <1>1, <1>8 DEF SubmitsOK, PanelsOK, NewestOK, KeysSuffice, Declining
<1>9. ASSUME NEW h \in Hashes, Mine(h)
      PROVE  SubmitsOK' /\ PanelsOK' /\ NewestOK'
  <2>1. UNCHANGED <<trade, panel, submit, keyOf, minted, newest>>
    BY <1>9 DEF Mine, mine, clientVars
  <2>2. \A g \in Hashes : chain[g] = "succeeded" => chain'[g] = "succeeded"
    BY <1>1, <1>9 DEF Mine, mine, IInv
  <2> QED
    BY <1>1, <2>1, <2>2, PanelsSame DEF SubmitsOK, NewestOK, KeysSuffice, Declining
<1>10. ASSUME (\E b \in Browsers : Refetch(b)) \/ Published \/ UNCHANGED checkoutVars
       PROVE  UNCHANGED <<trade, chain, panel, submit, keyOf, minted, newest>>
  BY <1>10 DEF Refetch, Published, remap, checkoutVars, clientVars, vars
<1> QED
  BY <1>3, <1>4, <1>5, <1>6, <1>7, <1>8, <1>9, <1>10 DEF CheckoutNext, Work

-----------------------------------------------------------------------------
(* The keys of the web client.  A key that a browser has generated is used for one
   kind of report only, and so a row never gets the transaction of another, a
   report of a purchase never carries the row of a rejection, and the FAILED row
   of a purchase always means that a payment failed on chain.  What Settlement
   promises under RejectsHaveOwnKeys and SettlesAreTheirOwn, which speak of all
   the reports there may be, Checkout keeps by the order in which keys are made. *)

\* What a report is about, told from its transaction.
Kind(h) == IF h = None THEN "reject" ELSE IF Settles[h] = None THEN "purchase" ELSE "settle"

\* A payment among sg failed on chain.
Reverted(sg, ch) == \E g \in sg : Settles[g] = None /\ ch[g] = "reverted"

\* cls tells of which kind the reports of a key are.  ko are the browsers' keys, mt the
\* ones generated, tr the trades, rq the reports in flight.
KeysOfKind(cls, ko, mt, tr, rq) ==
  /\ \A b \in Browsers, x \in Slots : cls[ko[b][x]] = x /\ ko[b][x] \in mt
  /\ \A r \in Reporters : rq[r] # Idle =>
       cls[rq[r].body.key] = rq[r].body.action /\ rq[r].body.key \in mt
  /\ \A k \in Keys : tr[k] # None => cls[k] = Kind(tr[k].hash) /\ k \in mt

\* A status that is stored, or about to be, for transaction h.
Reported(status, h, sg, ch) ==
  /\ status = "REJECTED" <=> h = None
  /\ status = "FAILED" /\ Kind(h) = "purchase" => Reverted(sg, ch)

\* A report that a panel sent.
Sent(q, tr, sg, ch) ==
  /\ q.body \in ClientReports /\ q.body.action = Kind(q.body.hash)
  /\ q.body.hash # None => q.body.hash \in sg
  /\ q.pc # "sync" => q.mapped
  /\ q.pc \in {"purchase", "chain", "write"} /\ q.at # None =>
       tr[q.at] # None /\ tr[q.at].hash = q.body.hash /\ q.old.hash = q.body.hash
  /\ q.pc \in {"purchase", "chain", "sync"} => q.body.action # "reject"
  /\ q.pc = "write" => q.write.hash = q.body.hash /\ Reported(q.write.status, q.write.hash, sg, ch)
  /\ q.pc = "sync" => /\ q.row.match = q.body.match /\ Kind(q.row.hash) = q.body.action
                      /\ Reported(q.row.status, q.row.hash, sg, ch)

\* What submit v, of action a, needs for the report it will send: mp is mapped, sg the
\* transactions sent, t the trade id its browser keeps.
Prepared(v, a, mp, sg, t) ==
  /\ v.step # "rest" => mp
  /\ v.step \in {"report", "wait", "again"} => v.hash \in sg /\ Kind(v.hash) = a
  /\ v.step \in {"network", "prompt"} /\ a = "settle" => t # None

\* What the match says, after what the API acknowledged and what the contract paid.
MatchTells ==
  /\ (\E b \in Browsers : heard[b] # {}) =>
       match[TheMatch] \in {"SETTLEMENT_PENDING", "SETTLED"} \/ Reverted(signed, chain)
  /\ \A m \in Matches : match[m] = "SETTLED" => PaidOut(m, chain)

ReportsSent ==
  /\ \A k \in Keys : trade[k] # None => Reported(trade[k].status, trade[k].hash, signed, chain)
  /\ \A r \in Reporters : req[r] # Idle => Sent(req[r], trade, signed, chain)

SubmitsPrepared ==
  /\ signed \subseteq Hashes
  /\ \A g \in signed : Settles[g] = None => TheMatch \in Fits[g]
  /\ stored \in [Browsers -> Hashes \cup {None}]
  /\ \A s \in Reporters :
       Prepared(submit[s], Action(s), mapped, signed, stored[Browser(s)])

KeysInv ==
  /\ minted \subseteq Keys
  /\ heard \in [Browsers -> SUBSET (Hashes \cup {None})]
  /\ \E cls \in [Keys -> Slots] : KeysOfKind(cls, keyOf, minted, trade, req)

HInv == KeysInv /\ ReportsSent /\ SubmitsPrepared /\ MatchTells

LEMMA KindOf ==
  ASSUME NEW h \in Hashes
  PROVE  /\ Kind(h) # "reject" /\ h # None
         /\ Kind(h) = "purchase" <=> Settles[h] = None
BY SettlementAssumption DEF Kind, SettlementAssumption

LEMMA ClientBody ==
  ASSUME NEW body \in ClientReports
  PROVE  /\ body \in Reports /\ body.match = TheMatch /\ body.match \in Matches /\ body.key \in Keys
         /\ body.action \in {"purchase", "settle", "reject"} /\ body.action \in Slots
         /\ body.action # "reject" => body.hash \in Hashes
         /\ body.action = "reject" => body.hash = None
<1>1. body \in Reports /\ TheMatch \in Matches
  BY CheckoutAssumption DEF CheckoutAssumption
<1> QED
  BY <1>1 DEF ClientReports, Slots

LEMMA RevertedStays ==
  ASSUME NEW sg, NEW sg2, NEW ch, NEW ch2, sg \subseteq sg2,
         \A g \in sg : ch[g] = "reverted" => ch2[g] = "reverted"
  PROVE  Reverted(sg, ch) => Reverted(sg2, ch2)
BY DEF Reverted

\* What is said of a report stays true while rows keep their transactions.
LEMMA SentStays ==
  ASSUME NEW q, NEW tr, NEW tr2, NEW sg, NEW sg2, NEW ch, NEW ch2, Sent(q, tr, sg, ch),
         sg \subseteq sg2, Reverted(sg, ch) => Reverted(sg2, ch2),
         q.pc \in {"purchase", "chain", "write"} /\ q.at # None /\ tr[q.at] # None =>
           tr2[q.at] # None /\ tr2[q.at].hash = tr[q.at].hash
  PROVE  Sent(q, tr2, sg2, ch2)
<1>1. \A status, h : Reported(status, h, sg, ch) => Reported(status, h, sg2, ch2)
  BY DEF Reported
<1> QED
  BY <1>1 DEF Sent

LEMMA PreparedStays ==
  ASSUME NEW v, NEW a, NEW mp, NEW sg, NEW sg2, NEW t, NEW t2, Prepared(v, a, mp, sg, t),
         sg \subseteq sg2, t # None => t2 # None
  PROVE  Prepared(v, a, mp, sg2, t2)
BY DEF Prepared

\* Rows stay, each with its transaction.
KeepsHash(tr, tr2) == \A k \in Keys : tr[k] # None => tr2[k] # None /\ tr2[k].hash = tr[k].hash

\* A report moves on and the trades stand still.
LEMMA OneSent ==
  ASSUME IInv, ReportsSent, NEW r \in Reporters, NEW v, v = Idle \/ Sent(v, trade, signed, chain),
         req' = [req EXCEPT ![r] = v], UNCHANGED <<trade, signed, chain>>
  PROVE  ReportsSent'
<1>1. DOMAIN req = Reporters
  BY DEF IInv, RequestsOK
<1> QED
  BY <1>1 DEF ReportsSent

LEMMA OneKey ==
  ASSUME IInv, NEW cls, NEW ko, NEW mt, KeysOfKind(cls, ko, mt, trade, req),
         NEW r \in Reporters, NEW v, v = Idle \/ (req[r] # Idle /\ v.body = req[r].body),
         req' = [req EXCEPT ![r] = v], UNCHANGED trade
  PROVE  KeysOfKind(cls, ko, mt, trade', req') /\ KeepsHash(trade, trade')
<1>1. DOMAIN req = Reporters
  BY DEF IInv, RequestsOK
<1> QED
  BY <1>1 DEF KeysOfKind, KeepsHash

\* The row that a report continues is of its own transaction.
LEMMA ContinuedOwn ==
  ASSUME NEW cls, NEW ko, NEW mt, KeysOfKind(cls, ko, mt, trade, req),
         NEW r \in Reporters, req[r] # Idle, req[r].body \in ClientReports,
         req[r].body.action = Kind(req[r].body.hash),
         NEW k \in Continued(req[r].body), Resumable(req[r].body, trade[k])
  PROVE  k \in Keys /\ trade[k] # None /\ trade[k].hash = req[r].body.hash
<1> DEFINE body == req[r].body
<1>1. body.key \in Keys
  BY ClientBody
<1>2. CASE trade[body.key] # None
  <2>1. k = body.key
    BY <1>2 DEF Continued
  <2>2. Kind(trade[k].hash) = Kind(body.hash)
    BY <1>1, <1>2, <2>1 DEF KeysOfKind
  <2>3. trade[k].hash = None <=> body.hash = None
    BY <2>2 DEF Kind
  <2> QED
    BY <1>1, <1>2, <2>1, <2>3 DEF Resumable
<1>3. CASE trade[body.key] = None
  BY <1>3 DEF Continued
<1> QED
  BY <1>2, <1>3

LEMMA FindSent ==
  ASSUME IInv, ReportsSent, NEW cls, NEW ko, NEW mt, KeysOfKind(cls, ko, mt, trade, req),
         NEW r \in Reporters, findExisting(r), UNCHANGED signed
  PROVE  ReportsSent' /\ KeysOfKind(cls, ko, mt, trade', req') /\ KeepsHash(trade, trade')
<1> DEFINE q == req[r]
           at == IF Continued(q.body) = {} THEN None
                 ELSE CHOOSE k \in Continued(q.body) : TRUE
           old == IF at = None THEN None ELSE trade[at]
           base == [pc |-> "chain", body |-> q.body, mapped |-> q.mapped, at |-> at,
                    old |-> old, purchase |-> None, write |-> None]
           rejects == [base EXCEPT !.pc = "write", !.write = Write("REJECTED", None, None)]
           settles == [base EXCEPT !.pc = "purchase"]
<1>1. q.pc = "find" /\ q # Idle /\ UNCHANGED <<trade, chain>>
  BY DEF findExisting, Idle
<1>2. Sent(q, trade, signed, chain)
  BY <1>1 DEF ReportsSent
<1>3. q.body \in ClientReports /\ q.body.action = Kind(q.body.hash) /\ q.mapped
      /\ (q.body.hash # None => q.body.hash \in signed)
  BY <1>1, <1>2 DEF Sent
<1>4. \/ /\ at # None => Resumable(q.body, old)
         /\ \/ q.body.action = "reject" /\ req' = [req EXCEPT ![r] = rejects]
            \/ q.body.action = "purchase" /\ req' = [req EXCEPT ![r] = base]
            \/ q.body.action = "settle" /\ req' = [req EXCEPT ![r] = settles]
      \/ req' = [req EXCEPT ![r] = Idle]
  BY DEF findExisting, Finish
<1>5. ASSUME at # None, Resumable(q.body, old)
      PROVE  trade[at] # None /\ trade[at].hash = q.body.hash /\ old.hash = q.body.hash
  <2>1. at \in Continued(q.body) /\ old = trade[at]
    BY <1>5
  <2> HIDE DEF at, old
  <2> QED
    BY <1>1, <1>3, <1>5, <2>1, ContinuedOwn
<1> HIDE DEF q, at, old
<1>6. ASSUME at # None => Resumable(q.body, old)
      PROVE  /\ q.body.action = "reject" => Sent(rejects, trade, signed, chain)
             /\ q.body.action = "purchase" => Sent(base, trade, signed, chain)
             /\ q.body.action = "settle" => Sent(settles, trade, signed, chain)
  <2>1. q.body.action = "reject" => q.body.hash = None
    BY <1>3, ClientBody
  <2>2. Reported("REJECTED", None, signed, chain)
    BY DEF Reported
  <2> QED
    BY <1>3, <1>5, <1>6, <2>1, <2>2 DEF Sent, Write
<1>7. rejects.body = q.body /\ base.body = q.body /\ settles.body = q.body
  OBVIOUS
<1> HIDE DEF base, rejects, settles
<1>8. PICK v : (v = Idle \/ (Sent(v, trade, signed, chain) /\ v.body = q.body))
               /\ req' = [req EXCEPT ![r] = v]
  BY <1>4, <1>6, <1>7
<1> QED
  BY <1>1, <1>8, OneSent, OneKey DEF q

LEMMA FindPurchaseSent ==
  ASSUME IInv, ReportsSent, NEW cls, NEW ko, NEW mt, KeysOfKind(cls, ko, mt, trade, req),
         NEW r \in Reporters, findPurchase(r), UNCHANGED signed
  PROVE  ReportsSent' /\ KeysOfKind(cls, ko, mt, trade', req') /\ KeepsHash(trade, trade')
<1> DEFINE q == req[r]
<1>1. q.pc = "purchase" /\ q # Idle /\ UNCHANGED <<trade, chain>>
  BY DEF findPurchase, Idle
<1>2. Sent(q, trade, signed, chain)
  BY <1>1 DEF ReportsSent
<1>3. CASE Finish(r)
  BY <1>1, <1>3, OneSent, OneKey DEF Finish
<1>4. ASSUME NEW k, req' = [req EXCEPT ![r].pc = "chain", ![r].purchase = trade[k].tradeId]
      PROVE  ReportsSent' /\ KeysOfKind(cls, ko, mt, trade', req') /\ KeepsHash(trade, trade')
  <2> DEFINE v == [q EXCEPT !.pc = "chain", !.purchase = trade[k].tradeId]
  <2>1. req' = [req EXCEPT ![r] = v]
    BY <1>4 DEF IInv, RequestsOK
  <2>2. Sent(v, trade, signed, chain) /\ v.body = q.body
    <3>1. v.body = q.body /\ v.at = q.at /\ v.old = q.old /\ v.mapped = q.mapped
      OBVIOUS
    <3>2. v.pc # "sync" /\ v.pc # "write"
      BY <1>1, <1>2 DEF Sent
    <3> HIDE DEF v
    <3> QED
      BY <1>1, <1>2, <3>1, <3>2 DEF Sent
  <2> HIDE DEF v
  <2> QED
    BY <1>1, <2>1, <2>2, OneSent, OneKey
<1> QED
  BY <1>3, <1>4 DEF findPurchase

\* The chain refuses a payment only if it failed: what the wallet signed fits the match.
LEMMA ChainSent ==
  ASSUME IInv, ReportsSent, SubmitsPrepared,
         NEW cls, NEW ko, NEW mt, KeysOfKind(cls, ko, mt, trade, req),
         NEW r \in Reporters, queryChain(r), Honest(r), UNCHANGED signed
  PROVE  ReportsSent' /\ KeysOfKind(cls, ko, mt, trade', req') /\ KeepsHash(trade, trade')
<1> DEFINE q == req[r]
           h == q.body.hash
<1>1. q.pc = "chain" /\ q # Idle /\ UNCHANGED <<trade, chain>>
  BY DEF queryChain, Idle
<1>2. Sent(q, trade, signed, chain)
  BY <1>1 DEF ReportsSent
<1>3. h \in Hashes /\ h # None /\ h \in signed /\ q.mapped /\ q.body.match = TheMatch
      /\ q.body.action = Kind(h) /\ Kind(h) # "reject"
  <2>1. q.body \in ClientReports /\ q.body.action # "reject"
    BY <1>1, <1>2 DEF Sent
  <2> QED
    BY <1>1, <1>2, <2>1, ClientBody, KindOf DEF Sent
<1>4. PICK w \in Outcome(q) : req' = [req EXCEPT ![r].pc = "write", ![r].write = w]
  BY DEF queryChain
<1> DEFINE v == [q EXCEPT !.pc = "write", !.write = w]
<1>5. req' = [req EXCEPT ![r] = v] /\ req'[r] = v
  BY <1>4 DEF IInv, RequestsOK
<1>6. w.hash = h /\ w.status # "REJECTED"
  BY DEF Outcome, failVerification, markFailed, Write
<1>7. ASSUME w.status = "FAILED", Kind(h) = "purchase"
      PROVE  Reverted(signed, chain)
  <2>1. req'[r].write.status = "FAILED"
    <3>1. v.write = w
      BY <1>1, <1>2, <1>5 DEF IInv, RequestsOK, RequestOK
    <3> QED
      BY <1>5, <1>7, <3>1
  <2>2. Settles[h] = None /\ TheMatch \in Fits[h] /\ q.body.action # "settle"
    BY <1>3, <1>7, KindOf DEF SubmitsPrepared
  <2>3. chain[h] = "succeeded" => verifyPurchase(q)
    BY <1>3, <2>2 DEF verifyPurchase, assertSuccessfulReceipt, expectedOnChainListingId,
                      parseEnergyPurchasedLogs
  <2>4. chain[h] = "reverted"
    BY <1>1, <2>1, <2>2, <2>3 DEF Honest
  <2> QED
    BY <1>3, <2>2, <2>4 DEF Reverted
<1>8. Sent(v, trade, signed, chain) /\ v.body = q.body
  <2>1. v.body = q.body /\ v.at = q.at /\ v.old = q.old /\ v.mapped = q.mapped
        /\ v.pc = "write" /\ v.write = w
    BY <1>1
  <2>2. Reported(w.status, h, signed, chain)
    BY <1>3, <1>6, <1>7 DEF Reported
  <2> HIDE DEF v
  <2> QED
    BY <1>1, <1>2, <1>6, <2>1, <2>2 DEF Sent
<1> HIDE DEF v
<1> QED
  BY <1>1, <1>5, <1>8, OneSent, OneKey

\* The row that a report writes is of the report's own transaction, and so is the one it replaces.
LEMMA PersistSent ==
  ASSUME IInv, ReportsSent, NEW cls, NEW ko, NEW mt, KeysOfKind(cls, ko, mt, trade, req),
         NEW r \in Reporters, persistTrade(r), UNCHANGED signed
  PROVE  ReportsSent' /\ KeysOfKind(cls, ko, mt, trade', req') /\ KeepsHash(trade, trade')
<1> DEFINE q == req[r]
           row == Row(q)
           at == Target(q)
<1>1. q.pc = "write" /\ q # Idle /\ chain' = chain
  BY DEF persistTrade, Idle
<1>2. Sent(q, trade, signed, chain)
  BY <1>1 DEF ReportsSent
<1>3. /\ q.body \in ClientReports /\ q.body.key \in Keys /\ q.body.action = Kind(q.body.hash)
      /\ q.write.hash = q.body.hash /\ Reported(q.write.status, q.body.hash, signed, chain)
      /\ q.at # None => trade[q.at].hash = q.body.hash /\ trade[q.at] # None
                        /\ q.old.hash = q.body.hash
      /\ cls[q.body.key] = q.body.action /\ q.body.key \in mt
  BY <1>1, <1>2, ClientBody DEF Sent, KeysOfKind
<1>4. /\ q.at # None => q.at \in Keys /\ q.old \in TradeRow /\ q.old.match = q.body.match
  BY <1>1 DEF IInv, RequestsOK, RequestOK, Continues
<1>5. row.hash = q.body.hash /\ row.status = q.write.status /\ row.match = q.body.match
  <2>1. CASE q.at = None
    BY <1>3, <2>1 DEF Row
  <2>2. CASE q.at # None
    BY <1>3, <1>4, <2>2 DEF Row, TradeRow
  <2> QED
    BY <2>1, <2>2
<1>6. at \in Keys /\ cls[at] = Kind(q.body.hash) /\ at \in mt
  BY <1>3, <1>4 DEF Target, KeysOfKind
<1>7. ASSUME NEW x, x.match = q.body.match, Kind(x.hash) = q.body.action,
             Reported(x.status, x.hash, signed, chain), q.body.action # "reject"
      PROVE  Sent(Sync(q, x), trade, signed, chain) /\ Sync(q, x).body = q.body
  BY <1>2, <1>3, <1>7 DEF Sent, Sync
<1>8. CASE /\ ~isUniqueViolation(q) /\ trade' = [trade EXCEPT ![at] = row]
           /\ req' = [req EXCEPT ![r] = IF q.body.action = "reject" THEN Idle ELSE Sync(q, row)]
  <2> DEFINE v == IF q.body.action = "reject" THEN Idle ELSE Sync(q, row)
  <2>1. trade[at] # None => trade[at].hash = q.body.hash
    BY <1>3, <1>8 DEF Target, isUniqueViolation
  <2> HIDE DEF row, at
  <2>2. trade' = [trade EXCEPT ![at] = row] /\ trade \in [Keys -> TradeRow \cup {None}]
        /\ row # None
    <3>1. Row(q) \in TradeRow
      BY <1>1, RowOK, ClientBody, <1>3 DEF IInv, RequestsOK
    <3> QED
      BY <1>8, <3>1, NoneAssumption DEF IInv, TypeOK, row
  <2>3. KeepsHash(trade, trade')
    BY <1>5, <2>1, <2>2 DEF KeepsHash
  <2>4. v = Idle \/ (v.body = q.body /\ Sent(v, trade, signed, chain))
    BY <1>3, <1>5, <1>7
  <2> HIDE DEF v
  <2>5. req' = [req EXCEPT ![r] = v] /\ DOMAIN req = Reporters
    BY <1>8 DEF v, IInv, RequestsOK
  <2>6. KeysOfKind(cls, ko, mt, trade', req')
    BY <1>1, <1>5, <1>6, <2>2, <2>4, <2>5 DEF KeysOfKind
  <2>7. ASSUME NEW p \in Reporters, req'[p] # Idle
        PROVE  Sent(req'[p], trade', signed, chain)
    <3> DEFINE u == req'[p]
    <3>1. Sent(u, trade, signed, chain)
      BY <2>4, <2>5, <2>7 DEF ReportsSent
    <3>2. u.pc \in {"purchase", "chain", "write"} /\ u.at # None /\ trade[u.at] # None =>
            trade'[u.at] # None /\ trade'[u.at].hash = trade[u.at].hash
      <4>1. CASE p = r
        <5>1. u.pc = "sync"
          BY <1>8, <2>5, <2>7, <4>1 DEF v, Sync
        <5> QED
          BY <5>1
      <4>2. CASE p # r
        <5>1. u = req[p] /\ u \in {req[z] : z \in Reporters}
          BY <2>5, <4>2
        <5>2. u.pc \in {"purchase", "chain", "write"} /\ u.at # None => u.at \in Keys
          BY <5>1 DEF IInv, RequestsOK, RequestOK, Continues
        <5> QED
          BY <2>3, <5>2 DEF KeepsHash
      <4> QED
        BY <4>1, <4>2
    <3> HIDE DEF u
    <3>3. Sent(u, trade', signed, chain)
      BY <3>1, <3>2, SentStays
    <3> QED
      BY <3>3 DEF u
  <2>8. ASSUME NEW k \in Keys, trade'[k] # None
        PROVE  Reported(trade'[k].status, trade'[k].hash, signed, chain)
    BY <1>3, <1>5, <2>2, <2>8 DEF ReportsSent
  <2> QED
    BY <1>1, <2>3, <2>6, <2>7, <2>8 DEF ReportsSent
<1>9. CASE UNCHANGED trade /\ Finish(r)
  BY <1>1, <1>9, OneSent, OneKey DEF Finish
<1>10. ASSUME UNCHANGED trade, NEW k \in Keys, k = q.body.key, trade[k] # None,
              trade[k].match = q.body.match, q.body.action # "reject",
              req' = [req EXCEPT ![r] = Sync(q, trade[k])]
       PROVE  ReportsSent' /\ KeysOfKind(cls, ko, mt, trade', req') /\ KeepsHash(trade, trade')
  <2>1. Kind(trade[k].hash) = q.body.action
    BY <1>3, <1>10 DEF KeysOfKind
  <2>2. Sent(Sync(q, trade[k]), trade, signed, chain) /\ Sync(q, trade[k]).body = q.body
    BY <1>7, <1>10, <2>1 DEF ReportsSent
  <2> QED
    BY <1>1, <1>10, <2>2, OneSent, OneKey
<1> QED
  BY <1>8, <1>9, <1>10 DEF persistTrade, Finish

\* A match is moved by a report that holds a row of its own; only a failed payment moves it to
\* FAILED, and only a settlement that paid out to SETTLED.
LEMMA SyncTells ==
  ASSUME IInv, ReportsSent, MatchTells, NEW r \in Reporters, syncMatch(r)
  PROVE  LET moved == match'[TheMatch] \in {"SETTLEMENT_PENDING", "SETTLED"}
         IN  /\ match[TheMatch] \in {"SETTLEMENT_PENDING", "SETTLED"} =>
                  moved \/ Reverted(signed, chain)
             /\ req[r].row.status # "FAILED" => moved
             /\ \A m \in Matches : match'[m] = "SETTLED" => PaidOut(m, chain)
<1> DEFINE q == req[r]
           row == q.row
           moved == match'[TheMatch] \in {"SETTLEMENT_PENDING", "SETTLED"}
<1>1. q.pc = "sync" /\ q # Idle /\ chain' = chain
  BY DEF syncMatch, Idle
<1>2. Sent(q, trade, signed, chain) /\ RequestOK(q, chain)
  BY <1>1 DEF ReportsSent, IInv, RequestsOK
<1>3. /\ q.body \in ClientReports /\ q.body.action # "reject" /\ row.match = q.body.match
      /\ Kind(row.hash) = q.body.action /\ Reported(row.status, row.hash, signed, chain)
      /\ row \in TradeRow /\ RowVerified(row, chain)
  BY <1>1, <1>2 DEF Sent, RequestOK
<1>4. q.body.match = TheMatch /\ TheMatch \in Matches /\ q.body.action \in {"purchase", "settle"}
  BY <1>3, ClientBody
<1>5. row.hash # None /\ row.status # "REJECTED"
      /\ (row.status = "FAILED" /\ q.body.action = "purchase" => Reverted(signed, chain))
  BY <1>3 DEF Kind, Reported
<1>6. /\ match' = [match EXCEPT ![TheMatch] = StatusAfter(q.body.action, row, match[TheMatch])]
      /\ TheMatch \in DOMAIN match
  BY <1>4 DEF syncMatch, IInv, TypeOK
<1>7. match'[TheMatch] = StatusAfter(q.body.action, row, match[TheMatch])
  BY <1>6
<1>8. row.status \in {"PENDING", "FAILED", "CONFIRMED", "COMPLETED"}
  BY <1>3, <1>5 DEF TradeRow
<1>9. moved \/ (row.status = "FAILED" /\ q.body.action = "purchase")
  BY <1>4, <1>7, <1>8 DEF StatusAfter
<1>10. ASSUME match'[TheMatch] = "SETTLED"
       PROVE  PaidOut(TheMatch, chain)
  <2>1. q.body.action = "settle" /\ row.status \in COMPLETED_TRADE
    BY <1>4, <1>7, <1>8, <1>10 DEF StatusAfter, COMPLETED_TRADE
  <2>2. VerifiedAs(TheMatch, row, chain)
    BY <1>3, <1>4, <2>1 DEF RowVerified
  <2>3. row.status # "CONFIRMED"
    BY <1>3, <1>5, <2>1, <2>2 DEF VerifiedAs, Kind
  <2> QED
    BY <2>2, <2>3, VerifiedPaysOut
<1>11. \A m \in Matches : match'[m] = "SETTLED" => PaidOut(m, chain)
  <2> SUFFICES ASSUME NEW m \in Matches, match'[m] = "SETTLED" PROVE PaidOut(m, chain)
    OBVIOUS
  <2>1. CASE m = TheMatch
    BY <1>10, <2>1
  <2>2. CASE m # TheMatch
    <3>1. match[m] = "SETTLED"
      BY <1>6, <2>2
    <3> QED
      BY <3>1 DEF MatchTells
  <2> QED
    BY <2>1, <2>2
<1> QED
  BY <1>5, <1>9, <1>11

\* A step of a report, whatever is done with its answer.
LEMMA StepSent ==
  ASSUME IInv, ReportsSent, SubmitsPrepared,
         NEW cls, NEW ko, NEW mt, KeysOfKind(cls, ko, mt, trade, req),
         NEW r \in Reporters, Step(r), Honest(r), UNCHANGED signed
  PROVE  /\ ReportsSent' /\ KeysOfKind(cls, ko, mt, trade', req') /\ KeepsHash(trade, trade')
         /\ UNCHANGED <<chain, mapped>>
<1>1. UNCHANGED <<chain, mapped>>
  BY DEF Step, findExisting, findPurchase, queryChain, persistTrade, syncMatch
<1>2. CASE syncMatch(r)
  <2>1. req' = [req EXCEPT ![r] = Idle] /\ UNCHANGED trade
    BY <1>2 DEF syncMatch, Finish
  <2> QED
    BY <1>1, <2>1, OneSent, OneKey
<1> QED
  BY <1>1, <1>2, FindSent, FindPurchaseSent, ChainSent, PersistSent DEF Step

\* Only the last step of a report moves the match.
LEMMA StepTells ==
  ASSUME IInv, ReportsSent, MatchTells, NEW r \in Reporters, Step(r)
  PROVE  LET moved == match'[TheMatch] \in {"SETTLEMENT_PENDING", "SETTLED"}
         IN  /\ match[TheMatch] \in {"SETTLEMENT_PENDING", "SETTLED"} =>
                  moved \/ Reverted(signed, chain)
             /\ req[r].pc = "sync" /\ req[r].row.status # "FAILED" => moved
             /\ \A m \in Matches : match'[m] = "SETTLED" => PaidOut(m, chain)
<1>1. CASE syncMatch(r)
  BY <1>1, SyncTells
<1>2. CASE findExisting(r) \/ findPurchase(r) \/ queryChain(r) \/ persistTrade(r)
  <2>1. match' = match /\ req[r].pc # "sync"
    BY <1>2 DEF findExisting, findPurchase, queryChain, persistTrade
  <2> QED
    BY <2>1 DEF MatchTells
<1> QED
  BY <1>1, <1>2 DEF Step

\* A declined prompt finds a key that nothing was reported under.
LEMMA NewKeyIsNew ==
  ASSUME SubmitsOK, NEW s \in Reporters, submit[s].step = "decline"
  PROVE  NewKey \in Keys \ minted
<1> DEFINE free == Keys \ minted
           D == Declining
<1>1. s \in D
  BY DEF SubmitsOK, Declining
<1>2. /\ IsFiniteSet(D) /\ Cardinality(D) \in Nat
      /\ IsFiniteSet(free) /\ Cardinality(free) \in Nat
  BY CheckoutAssumption, FS_Subset, FS_CardinalityType DEF CheckoutAssumption, Declining
<1>3. Cardinality(D) <= Cardinality(free)
  BY DEF SubmitsOK, KeysSuffice
<1>4. Cardinality(D) # 0
  <2> HIDE DEF D
  <2>1. D # {}
    BY <1>1
  <2> QED
    BY <1>2, <2>1, FS_EmptySet
<1>5. free # {}
  BY <1>2, <1>3, <1>4, FS_EmptySet
<1> QED
  BY <1>5 DEF NewKey

\* The keys after an answer.
LEMMA ContinueKeys ==
  ASSUME SubmitsOK, KeysInv, NEW s \in Reporters, NEW answer, Continue(s, answer),
         answer.hash \in Hashes \cup {None},
         NEW cls \in [Keys -> Slots], KeysOfKind(cls, keyOf, minted, trade', req')
  PROVE  KeysInv'
<1> DEFINE b == Browser(s)
           a == Action(s)
<1>1. b \in Browsers /\ a \in Slots
  BY CheckoutAssumption DEF CheckoutAssumption, Browser, Action, Slots
<1>2. heard' \in [Browsers -> SUBSET (Hashes \cup {None})]
  BY <1>1 DEF Continue, KeysInv
<1>3. CASE submit[s].step # "decline"
  BY <1>2, <1>3 DEF Continue, KeysInv
<1>4. CASE submit[s].step = "decline"
  <2> DEFINE k == NewKey
             cls2 == [cls EXCEPT ![k] = a]
  <2>1. k \in Keys \ minted
    BY <1>4, NewKeyIsNew
  <2>2. minted' = minted \cup {k} /\ keyOf' = [keyOf EXCEPT ![b][a] = k]
        /\ keyOf \in [Browsers -> [Slots -> Keys]]
    BY <1>4 DEF Continue, SubmitsOK
  <2> HIDE DEF k, b, a
  <2>3. cls2 \in [Keys -> Slots] /\ cls2[k] = a /\ \A x \in Keys \ {k} : cls2[x] = cls[x]
    BY <1>1, <2>1
  <2> HIDE DEF cls2
  <2>4. ASSUME NEW c \in Browsers, NEW x \in Slots
        PROVE  cls2[keyOf'[c][x]] = x /\ keyOf'[c][x] \in minted'
    <3>1. keyOf'[c][x] = IF c = b /\ x = a THEN k ELSE keyOf[c][x]
      BY <1>1, <2>2
    <3>2. keyOf[c][x] \in Keys /\ keyOf[c][x] \in minted /\ cls[keyOf[c][x]] = x
      BY <2>2 DEF KeysOfKind
    <3> QED
      BY <2>1, <2>2, <2>3, <3>1, <3>2
  <2>5. ASSUME NEW r \in Reporters, req'[r] # Idle
        PROVE  cls2[req'[r].body.key] = req'[r].body.action /\ req'[r].body.key \in minted'
    <3>1. req'[r].body.key \in minted /\ cls[req'[r].body.key] = req'[r].body.action
      BY <2>5 DEF KeysOfKind
    <3> QED
      BY <2>1, <2>2, <2>3, <3>1 DEF KeysInv
  <2>6. ASSUME NEW x \in Keys, trade'[x] # None
        PROVE  cls2[x] = Kind(trade'[x].hash) /\ x \in minted'
    BY <2>1, <2>2, <2>3, <2>6 DEF KeysOfKind
  <2>7. KeysOfKind(cls2, keyOf', minted', trade', req')
    BY <2>4, <2>5, <2>6 DEF KeysOfKind
  <2>8. minted' \subseteq Keys
    BY <2>1, <2>2 DEF KeysInv
  <2> QED
    BY <1>2, <2>3, <2>7, <2>8 DEF KeysInv
<1> QED
  BY <1>3, <1>4

\* While no table, report or key changes, what they tell stays.
LEMMA TablesSame ==
  ASSUME HInv, UNCHANGED <<match, trade, req, keyOf, minted, heard>>, signed \subseteq signed',
         \A h \in Hashes : chain[h] \in {"succeeded", "reverted"} => chain'[h] = chain[h]
  PROVE  KeysInv' /\ ReportsSent' /\ MatchTells' /\ KeepsHash(trade, trade')
<1>1. Reverted(signed, chain) => Reverted(signed', chain')
  BY DEF Reverted, HInv, SubmitsPrepared
<1>2. \A m \in Matches : PaidOut(m, chain) => PaidOut(m, chain')
  BY DEF PaidOut
<1>3. \A status, h : Reported(status, h, signed, chain) => Reported(status, h, signed', chain')
  BY <1>1 DEF Reported
<1>4. ASSUME NEW r \in Reporters, req[r] # Idle
      PROVE  Sent(req[r], trade, signed', chain')
  <2>1. Sent(req[r], trade, signed, chain)
    BY <1>4 DEF HInv, ReportsSent
  <2> QED
    BY <1>1, <2>1, SentStays
<1>5. ReportsSent'
  BY <1>3, <1>4 DEF HInv, ReportsSent
<1>6. KeysInv'
  BY DEF HInv, KeysInv
<1>7. MatchTells'
  BY <1>1, <1>2 DEF HInv, MatchTells
<1> QED
  BY <1>5, <1>6, <1>7 DEF KeepsHash

\* One submit moves on.
LEMMA OnePrepared ==
  ASSUME SubmitsOK, SubmitsPrepared, NEW s \in Reporters, NEW v,
         submit' = [submit EXCEPT ![s] = v], UNCHANGED mapped,
         signed \subseteq signed', signed' \subseteq Hashes,
         \A g \in signed' : Settles[g] = None => TheMatch \in Fits[g],
         stored' \in [Browsers -> Hashes \cup {None}],
         \A b \in Browsers : stored[b] # None => stored'[b] # None,
         Prepared(v, Action(s), mapped, signed', stored'[Browser(s)])
  PROVE  SubmitsPrepared'
<1>1. ASSUME NEW t \in Reporters
      PROVE  Prepared(submit'[t], Action(t), mapped, signed', stored'[Browser(t)])
  <2>1. CASE t = s
    BY <2>1 DEF SubmitsOK
  <2>2. CASE t # s
    <3>1. Prepared(submit[t], Action(t), mapped, signed, stored[Browser(t)])
      BY DEF SubmitsPrepared
    <3>2. Browser(t) \in Browsers
      BY CheckoutAssumption DEF CheckoutAssumption, Browser
    <3>3. submit'[t] = submit[t]
      BY <2>2 DEF SubmitsOK
    <3> QED
      BY <3>1, <3>2, <3>3, PreparedStays
  <2> QED
    BY <2>1, <2>2
<1> QED
  BY <1>1 DEF SubmitsPrepared, Action, Browser

\* A submit is at a step that it was prepared for.
LEMMA OwnPrepared ==
  ASSUME CInv, HInv, NEW s \in Reporters, Choose(s) \/ Receipt(s) \/ ReceiptTimeout(s)
  PROVE  HInv' /\ KeepsHash(trade, trade')
<1> DEFINE old == submit[s]
           b == Browser(s)
<1>1. /\ SubmitsOK /\ SubmitsPrepared /\ old \in SubmitRow /\ b \in Browsers
      /\ Prepared(old, Action(s), mapped, signed, stored[b])
      /\ stored \in [Browsers -> Hashes \cup {None}] /\ signed \subseteq Hashes
      /\ \A g \in signed : Settles[g] = None => TheMatch \in Fits[g]
      /\ Action(s) \in {"purchase", "settle"}
  BY CheckoutAssumption
     DEF CInv, SubmitsOK, HInv, SubmitsPrepared, CheckoutAssumption, Browser, Action
<1>2. UNCHANGED <<vars, keyOf, minted, heard>>
  BY DEF Choose, Click, Prompt, Decline, WalletFails, Approve, Receipt, ReceiptTimeout
<1>3. ASSUME signed \subseteq signed'
      PROVE  KeysInv' /\ ReportsSent' /\ MatchTells' /\ KeepsHash(trade, trade')
  BY <1>2, <1>3, TablesSame DEF vars
<1>4. ASSUME NEW v, submit' = [submit EXCEPT ![s] = v], UNCHANGED <<signed, stored>>,
             Prepared(v, Action(s), mapped, signed, stored[b])
      PROVE  HInv' /\ KeepsHash(trade, trade')
  <2>1. SubmitsPrepared'
    BY <1>1, <1>2, <1>4, OnePrepared DEF vars
  <2> QED
    BY <1>3, <1>4, <2>1 DEF HInv
<1>5. Prepared(Rest, Action(s), mapped, signed, stored[b])
  BY DEF Rest, Prepared
<1>6. CASE Click(s)
  <2> DEFINE v == [old EXCEPT !.step = "network"]
  <2>1. submit' = [submit EXCEPT ![s] = v] /\ UNCHANGED <<signed, stored>> /\ mapped
        /\ (Action(s) = "settle" => stored[b] # None)
    BY <1>1, <1>6 DEF Click, Ready, Action, Browser
  <2>2. Prepared(v, Action(s), mapped, signed, stored[b])
    BY <1>1, <2>1 DEF Prepared, SubmitRow
  <2> QED
    BY <1>4, <2>1, <2>2
<1>7. CASE Prompt(s)
  <2> DEFINE v == [old EXCEPT !.step = "prompt"]
  <2>1. submit' = [submit EXCEPT ![s] = v] /\ UNCHANGED <<signed, stored>> /\ old.step = "network"
    BY <1>1, <1>7 DEF Prompt
  <2>2. Prepared(v, Action(s), mapped, signed, stored[b])
    BY <1>1, <2>1 DEF Prepared, SubmitRow
  <2> QED
    BY <1>4, <2>1, <2>2
<1>8. CASE Decline(s)
  <2> DEFINE v == [old EXCEPT !.step = "decline"]
  <2>1. submit' = [submit EXCEPT ![s] = v] /\ UNCHANGED <<signed, stored>>
        /\ old.step \in {"network", "prompt"}
    BY <1>1, <1>8 DEF Decline
  <2>2. Prepared(v, Action(s), mapped, signed, stored[b])
    BY <1>1, <2>1 DEF Prepared, SubmitRow
  <2> QED
    BY <1>4, <2>1, <2>2
<1>9. CASE WalletFails(s) \/ ReceiptTimeout(s)
  BY <1>4, <1>5, <1>9 DEF WalletFails, ReceiptTimeout
<1>10. ASSUME NEW h \in Hashes, Approve(s, h)
       PROVE  HInv' /\ KeepsHash(trade, trade')
  <2> DEFINE v == [old EXCEPT !.step = "report", !.hash = h]
  <2>1. /\ submit' = [submit EXCEPT ![s] = v] /\ stored' = stored
        /\ signed' = signed \cup {h} /\ old.step = "prompt"
        /\ IF Action(s) = "settle" THEN Settles[h] = stored[b]
           ELSE Settles[h] = None /\ TheMatch \in Fits[h]
    BY <1>1, <1>10 DEF Approve, Signable
  <2>2. Action(s) = "settle" => stored[b] # None
    BY <1>1, <2>1 DEF Prepared
  <2>3. Kind(h) = Action(s)
    BY <1>1, <2>1, <2>2, KindOf DEF Kind
  <2>4. Prepared(v, Action(s), mapped, signed', stored[b])
    BY <1>1, <2>1, <2>3 DEF Prepared, SubmitRow
  <2>5. SubmitsPrepared'
    <3>1. \A g \in signed' : Settles[g] = None => TheMatch \in Fits[g]
      BY <1>1, <2>1, <2>2
    <3> QED
      BY <1>1, <1>2, <2>1, <2>4, <3>1, OnePrepared DEF vars
  <2> QED
    BY <1>3, <2>1, <2>5 DEF HInv
<1>11. CASE Receipt(s)
  <2> DEFINE v == [old EXCEPT !.step = "again"]
  <2>1. /\ submit' = [submit EXCEPT ![s] = v] /\ signed' = signed /\ old.step = "wait"
        /\ stored' = stored \/ stored' = [stored EXCEPT ![b] = old.hash]
    BY <1>1, <1>11 DEF Receipt
  <2>2. old.hash \in Hashes /\ old.hash # None
    BY <1>1, <2>1, KindOf DEF SubmitsOK, Signed
  <2>3. stored' \in [Browsers -> Hashes \cup {None}]
        /\ \A c \in Browsers : stored[c] # None => stored'[c] # None
    BY <1>1, <2>1, <2>2
  <2>4. Prepared(v, Action(s), mapped, signed, stored'[b])
    BY <1>1, <2>1 DEF Prepared, SubmitRow
  <2>5. SubmitsPrepared'
    BY <1>1, <1>2, <2>1, <2>3, <2>4, OnePrepared DEF vars
  <2> QED
    BY <1>3, <2>1, <2>5 DEF HInv
<1> QED
  BY <1>6, <1>7, <1>8, <1>9, <1>10, <1>11 DEF Choose

\* What a panel sends is about its own transaction, under a key of that kind.
LEMMA SendKeeps ==
  ASSUME CInv, HInv, NEW s \in Reporters, Send(s)
  PROVE  HInv' /\ KeepsHash(trade, trade')
<1> DEFINE body == SentBody(s)
           b == Browser(s)
           q == [pc |-> "find", body |-> body, status |-> match[body.match],
                 live |-> body.match \in live, mapped |-> mapped]
<1>1. /\ SubmitsOK /\ IInv /\ submit[s] \in SubmitRow
      /\ Prepared(submit[s], Action(s), mapped, signed, stored[b])
  BY DEF CInv, SubmitsOK, HInv, SubmitsPrepared
<1>2. /\ body \in ClientReports /\ loadMatch(s, body) /\ b \in Browsers /\ Slot(s) \in Slots
      /\ Slot(s) = "reject" \/ (Slot(s) = Action(s) /\ submit[s].step \in {"report", "again"})
  BY <1>1, BodySent
<1>3. /\ req' = [req EXCEPT ![s] = q] /\ submit' = [submit EXCEPT ![s].asked = TRUE]
      /\ submit[s].step # "rest"
      /\ UNCHANGED <<match, trade, live, mapped, chain, keyOf, minted, stored, signed, heard>>
  BY <1>2 DEF loadMatch, Send
<1>4. Kind(body.hash) = body.action /\ (body.hash # None => body.hash \in signed)
  BY <1>1, <1>2 DEF SentBody, Kind, Prepared
<1>5. Sent(q, trade, signed, chain)
  BY <1>1, <1>2, <1>3, <1>4 DEF Sent, Prepared
<1> HIDE DEF body
<1>6. q.body = body
  OBVIOUS
<1> HIDE DEF q
<1>7. ReportsSent'
  BY <1>1, <1>3, <1>5, OneSent DEF HInv
<1>8. KeysInv'
  <2>1. PICK cls \in [Keys -> Slots] : KeysOfKind(cls, keyOf, minted, trade, req)
    BY DEF HInv, KeysInv
  <2>2. cls[body.key] = body.action /\ body.key \in minted
    BY <1>2, <2>1 DEF KeysOfKind, body, SentBody
  <2>3. \A r \in Reporters : req'[r] = IF r = s THEN q ELSE req[r]
    BY <1>1, <1>3 DEF IInv, RequestsOK
  <2>4. KeysOfKind(cls, keyOf', minted', trade', req')
    BY <1>3, <1>6, <2>1, <2>2, <2>3 DEF KeysOfKind
  <2> QED
    BY <1>3, <2>4 DEF HInv, KeysInv
<1>9. MatchTells'
  BY <1>3 DEF HInv, MatchTells
<1>10. SubmitsPrepared'
  <2> DEFINE v == [submit[s] EXCEPT !.asked = TRUE]
  <2>1. submit' = [submit EXCEPT ![s] = v]
    BY <1>1, <1>3
  <2>2. Prepared(v, Action(s), mapped, signed, stored[b])
    BY <1>1 DEF Prepared, SubmitRow
  <2> HIDE DEF v
  <2> QED
    BY <1>1, <1>3, <2>1, <2>2, OnePrepared DEF HInv, SubmitsPrepared
<1> QED
  BY <1>3, <1>7, <1>8, <1>9, <1>10 DEF HInv, KeepsHash

\* An answer moves its submit on.
LEMMA ContinuePrepared ==
  ASSUME SubmitsOK, SubmitsPrepared, NEW s \in Reporters, NEW answer, Continue(s, answer),
         UNCHANGED <<mapped, signed, stored>>
  PROVE  SubmitsPrepared'
<1> DEFINE old == submit[s]
           v == IF old.step = "report" THEN [old EXCEPT !.step = "wait", !.asked = FALSE]
                ELSE Rest
<1>1. submit' = [submit EXCEPT ![s] = v] /\ old \in SubmitRow
  BY DEF Continue, SubmitsOK
<1>2. Prepared(old, Action(s), mapped, signed, stored[Browser(s)])
  BY DEF SubmitsPrepared
<1>3. Prepared(v, Action(s), mapped, signed, stored[Browser(s)])
  BY <1>1, <1>2 DEF Prepared, SubmitRow, Rest
<1> HIDE DEF v
<1> QED
  BY <1>1, <1>3, OnePrepared DEF SubmitsPrepared

\* A step of the API, and what the browser makes of its answer.
LEMMA ApiKeeps ==
  ASSUME CInv, HInv, NEW s \in Reporters, Api(s)
  PROVE  HInv' /\ KeepsHash(trade, trade')
<1>1. /\ IInv /\ SubmitsOK /\ KeysInv /\ ReportsSent /\ SubmitsPrepared /\ MatchTells
      /\ Step(s) /\ Honest(s) /\ UNCHANGED <<signed, stored>>
  BY DEF CInv, HInv, Api
<1>2. PICK cls \in [Keys -> Slots] : KeysOfKind(cls, keyOf, minted, trade, req)
  BY <1>1 DEF KeysInv
<1>3. /\ ReportsSent' /\ KeysOfKind(cls, keyOf, minted, trade', req')
      /\ KeepsHash(trade, trade') /\ UNCHANGED <<chain, mapped>>
  BY <1>1, <1>2, StepSent
<1>4. /\ match[TheMatch] \in {"SETTLEMENT_PENDING", "SETTLED"} =>
           match'[TheMatch] \in {"SETTLEMENT_PENDING", "SETTLED"} \/ Reverted(signed, chain)
      /\ req[s].pc = "sync" /\ req[s].row.status # "FAILED" =>
           match'[TheMatch] \in {"SETTLEMENT_PENDING", "SETTLED"}
      /\ \A m \in Matches : match'[m] = "SETTLED" => PaidOut(m, chain)
  BY <1>1, StepTells
<1>5. ASSUME heard' = heard \/ (req[s].pc = "sync" /\ req[s].row.status # "FAILED")
      PROVE  MatchTells'
  BY <1>1, <1>3, <1>4, <1>5 DEF MatchTells
<1>6. CASE UNCHANGED <<panel, submit, heard, keyOf, minted>>
  <2>1. KeysInv'
    BY <1>1, <1>3, <1>6 DEF KeysInv
  <2>2. SubmitsPrepared'
    BY <1>1, <1>3, <1>6 DEF SubmitsPrepared, Action, Browser
  <2> QED
    BY <1>3, <1>5, <1>6, <2>1, <2>2 DEF HInv
<1>7. ASSUME NEW answer \in {AnswerOf(s), NoTrade}, Continue(s, answer)
      PROVE  HInv' /\ KeepsHash(trade, trade')
  <2>1. answer.hash \in Hashes \cup {None}
    BY <1>1, AnswerOK DEF ShownOK, ApiRow, NoTrade
  <2>2. KeysInv'
    BY <1>1, <1>2, <1>3, <1>7, <2>1, ContinueKeys
  <2>3. SubmitsPrepared'
    BY <1>1, <1>3, <1>7, ContinuePrepared
  <2>4. heard' = heard \/ (req[s].pc = "sync" /\ answer # NoTrade)
    BY <1>7 DEF Continue
  <2>5. req[s].pc = "sync" /\ answer # NoTrade => req[s].row.status # "FAILED"
    BY <1>7 DEF AnswerOf
  <2> QED
    BY <1>3, <1>5, <2>2, <2>3, <2>4, <2>5 DEF HInv
<1> QED
  BY <1>6, <1>7 DEF Api

\* A report dies, and the browser hears of no trade.
LEMMA DiesKeeps ==
  ASSUME CInv, HInv, NEW s \in Reporters, ApiDies(s)
  PROVE  HInv' /\ KeepsHash(trade, trade')
<1>1. /\ IInv /\ SubmitsOK /\ KeysInv /\ ReportsSent /\ SubmitsPrepared /\ MatchTells
      /\ req' = [req EXCEPT ![s] = Idle]
      /\ UNCHANGED <<match, trade, mapped, chain, signed, stored>>
  BY DEF CInv, HInv, ApiDies, dies, Finish
<1>2. PICK cls \in [Keys -> Slots] : KeysOfKind(cls, keyOf, minted, trade, req)
  BY <1>1 DEF KeysInv
<1>3. /\ ReportsSent' /\ KeysOfKind(cls, keyOf, minted, trade', req')
      /\ KeepsHash(trade, trade')
  BY <1>1, <1>2, OneSent, OneKey
<1>4. CASE UNCHANGED <<panel, submit, heard, keyOf, minted>>
  <2>1. KeysInv' /\ MatchTells'
    BY <1>1, <1>3, <1>4 DEF KeysInv, MatchTells
  <2>2. SubmitsPrepared'
    BY <1>1, <1>4 DEF SubmitsPrepared, Action, Browser
  <2> QED
    BY <1>3, <2>1, <2>2 DEF HInv
<1>5. CASE Continue(s, NoTrade)
  <2>1. NoTrade.hash \in Hashes \cup {None}
    BY DEF NoTrade
  <2>2. KeysInv'
    BY <1>1, <1>2, <1>3, <1>5, <2>1, ContinueKeys
  <2>3. SubmitsPrepared'
    BY <1>1, <1>5, ContinuePrepared
  <2>4. heard' = heard
    BY <1>5 DEF Continue
  <2>5. MatchTells'
    BY <1>1, <2>4 DEF MatchTells
  <2> QED
    BY <1>3, <2>2, <2>3, <2>5 DEF HInv
<1> QED
  BY <1>4, <1>5 DEF ApiDies

LEMMA InitHInv == CheckoutInit => HInv
<1> SUFFICES ASSUME CheckoutInit PROVE HInv
  OBVIOUS
<1>1. /\ match = [m \in Matches |-> "PROPOSED"] /\ trade = [k \in Keys |-> None]
      /\ req = [r \in Reporters |-> Idle] /\ keyOf = FirstKeys /\ signed = {}
      /\ minted = {FirstKeys[b][s] : b \in Browsers, s \in Slots}
      /\ submit = [s \in Reporters |-> Rest] /\ stored = [b \in Browsers |-> None]
      /\ heard = [b \in Browsers |-> {}]
  BY DEF CheckoutInit, Init
<1>2. KeysInv
  <2> DEFINE OfKey(k, x) == \E b \in Browsers : FirstKeys[b][x] = k
             cls == [k \in Keys |-> IF \E x \in Slots : OfKey(k, x)
                                    THEN CHOOSE x \in Slots : OfKey(k, x) ELSE "reject"]
  <2>1. cls \in [Keys -> Slots]
    BY DEF Slots
  <2>2. ASSUME NEW b \in Browsers, NEW x \in Slots
        PROVE  cls[FirstKeys[b][x]] = x /\ FirstKeys[b][x] \in minted
    <3>1. FirstKeys[b][x] \in Keys /\ OfKey(FirstKeys[b][x], x)
      BY CheckoutAssumption DEF CheckoutAssumption
    <3>2. \A y \in Slots : OfKey(FirstKeys[b][x], y) => y = x
      BY CheckoutAssumption DEF CheckoutAssumption
    <3> HIDE DEF OfKey
    <3> QED
      BY <1>1, <3>1, <3>2
  <2> HIDE DEF cls
  <2>3. KeysOfKind(cls, keyOf, minted, trade, req)
    BY <1>1, <2>2 DEF KeysOfKind
  <2>4. minted \subseteq Keys
    BY <1>1, CheckoutAssumption DEF CheckoutAssumption
  <2> QED
    BY <1>1, <2>1, <2>3, <2>4 DEF KeysInv
<1>3. ReportsSent
  BY <1>1 DEF ReportsSent
<1>4. SubmitsPrepared
  BY <1>1 DEF SubmitsPrepared, Prepared, Rest
<1>5. MatchTells
  BY <1>1 DEF MatchTells
<1> QED
  BY <1>2, <1>3, <1>4, <1>5 DEF HInv

LEMMA HeardPreserves ==
  CInv /\ HInv /\ [CheckoutNext]_checkoutVars => HInv' /\ KeepsHash(trade, trade')
<1> SUFFICES ASSUME CInv, HInv, [CheckoutNext]_checkoutVars
             PROVE  HInv' /\ KeepsHash(trade, trade')
  OBVIOUS
<1>1. ASSUME NEW s \in Reporters, Work(s) \/ Choose(s) \/ ReceiptTimeout(s) \/ ApiDies(s)
      PROVE  HInv' /\ KeepsHash(trade, trade')
  BY <1>1, OwnPrepared, SendKeeps, ApiKeeps, DiesKeeps DEF Work
<1>2. ASSUME UNCHANGED <<match, trade, req, chain, keyOf, minted, stored, signed, heard>>,
             \/ UNCHANGED <<submit, mapped>>
             \/ mapped' /\ submit' = submit
             \/ \E b : Reload(b)
      PROVE  HInv' /\ KeepsHash(trade, trade')
  <2>1. KeysInv' /\ ReportsSent' /\ MatchTells' /\ KeepsHash(trade, trade')
    BY <1>2, TablesSame
  <2>2. ASSUME NEW t \in Reporters
        PROVE  Prepared(submit'[t], Action(t), mapped', signed, stored[Browser(t)])
    <3>1. Prepared(submit[t], Action(t), mapped, signed, stored[Browser(t)])
      BY DEF HInv, SubmitsPrepared
    <3>2. Prepared(Rest, Action(t), mapped', signed, stored[Browser(t)])
      BY DEF Prepared, Rest
    <3>3. CASE UNCHANGED <<submit, mapped>>
      BY <3>1, <3>3
    <3>4. ASSUME NEW b, Reload(b)
          PROVE  mapped' = mapped /\ submit'[t] \in {Rest, submit[t]}
      BY <3>4 DEF Reload, vars
    <3>5. CASE mapped' /\ submit' = submit
      BY <3>1, <3>5 DEF Prepared
    <3> QED
      BY <1>2, <3>1, <3>2, <3>3, <3>4, <3>5
  <2>3. SubmitsPrepared'
    BY <1>2, <2>2 DEF HInv, SubmitsPrepared, Action, Browser
  <2> QED
    BY <2>1, <2>3 DEF HInv
<1>3. ASSUME NEW h \in Hashes, Mine(h)
      PROVE  HInv' /\ KeepsHash(trade, trade')
  <2>1. UNCHANGED <<match, trade, req, keyOf, minted, heard, signed, submit, stored, mapped>>
    BY <1>3 DEF Mine, mine, clientVars
  <2>2. \A g \in Hashes : chain[g] \in {"succeeded", "reverted"} => chain'[g] = chain[g]
    BY <1>3 DEF Mine, mine, CInv, IInv
  <2>3. SubmitsPrepared'
    BY <2>1 DEF HInv, SubmitsPrepared, Action, Browser
  <2> QED
    BY <2>1, <2>2, <2>3, TablesSame DEF HInv
<1>4. ASSUME \/ \E p \in Panels : ListTrades(p) \/ LoadTrades(p)
             \/ \E b \in Browsers : Refetch(b)
             \/ UNCHANGED checkoutVars
      PROVE  HInv' /\ KeepsHash(trade, trade')
  <2>1. UNCHANGED <<match, trade, req, chain, keyOf, minted, stored, signed, heard, submit, mapped>>
    BY <1>4 DEF ListTrades, LoadTrades, Refetch, checkoutVars, clientVars, vars
  <2> QED
    BY <1>2, <2>1
<1>5. ASSUME NEW b \in Browsers, Reload(b)
      PROVE  HInv' /\ KeepsHash(trade, trade')
  <2>1. UNCHANGED <<match, trade, req, chain, keyOf, minted, stored, signed, heard>>
    BY <1>5 DEF Reload, vars
  <2> QED
    BY <1>2, <1>5, <2>1
<1>6. CASE Published
  <2>1. UNCHANGED <<match, trade, req, chain, keyOf, minted, stored, signed, heard, submit>>
        /\ mapped'
    BY <1>6 DEF Published, remap, clientVars
  <2> QED
    BY <1>2, <2>1
<1> QED
  BY <1>1, <1>3, <1>4, <1>5, <1>6 DEF CheckoutNext

\* The button of a purchase opens on an up-to-date page after an acknowledgement only if a
\* payment failed.
LEMMA ClickIsUnlocked ==
  ASSUME CInv, HInv, [CheckoutNext]_checkoutVars, NEW s \in Reporters,
         Action(s) = "purchase", submit[s].step = "rest", submit'[s].step = "network",
         view[Browser(s)] = match[TheMatch], heard[Browser(s)] # {}
  PROVE  Reverted(signed, chain)
<1>1. SubmitsOK /\ Browser(s) \in Browsers
  BY CheckoutAssumption DEF CInv, CheckoutAssumption, Browser
<1>2. CASE Click(s)
  <2>1. match[TheMatch] \notin {"SETTLEMENT_PENDING", "SETTLED"}
    BY <1>2 DEF Click, Locked, Action, Browser
  <2> QED
    BY <1>1, <2>1 DEF HInv, MatchTells
<1>3. CASE ~Click(s)
  <2>1. ASSUME NEW t \in Reporters, NEW v, v.step # "network",
               submit' = [submit EXCEPT ![t] = v]
        PROVE  FALSE
    BY <1>1, <2>1 DEF SubmitsOK
  <2>2. Rest.step # "network"
    BY DEF Rest
  <2>3. ASSUME NEW t \in Reporters, Click(t)
        PROVE  FALSE
    BY <1>1, <1>3, <2>3 DEF Click, SubmitsOK
  <2>4. ASSUME NEW t \in Reporters, Prompt(t) \/ Decline(t) \/ WalletFails(t) \/ Receipt(t)
                                    \/ ReceiptTimeout(t) \/ (\E h \in Hashes : Approve(t, h))
        PROVE  FALSE
    <3>1. submit[t] \in SubmitRow
      BY <1>1 DEF SubmitsOK
    <3> QED
      BY <1>1, <2>1, <2>2, <2>4, <3>1
         DEF Prompt, Decline, WalletFails, Receipt, ReceiptTimeout, Approve, SubmitRow, SubmitsOK
  <2>5. ASSUME NEW t \in Reporters, Send(t)
        PROVE  FALSE
    BY <1>1, <2>5 DEF Send, SubmitsOK, SubmitRow
  <2>6. ASSUME NEW t \in Reporters, NEW answer, Continue(t, answer)
        PROVE  FALSE
    BY <1>1, <2>2, <2>6 DEF Continue, SubmitsOK, SubmitRow
  <2>7. submit' # submit
    OBVIOUS
  <2>8. ASSUME NEW t \in Reporters, Api(t) \/ ApiDies(t)
        PROVE  FALSE
    BY <2>6, <2>7, <2>8 DEF Api, ApiDies
  <2>9. ASSUME NEW b, Reload(b)
        PROVE  FALSE
    BY <2>2, <2>9 DEF Reload
  <2>10. ASSUME \/ \E p \in Panels : ListTrades(p) \/ LoadTrades(p)
                \/ (\E b \in Browsers : Refetch(b)) \/ (\E h \in Hashes : Mine(h)) \/ Published \/ UNCHANGED checkoutVars
         PROVE  FALSE
    BY <2>7, <2>10 DEF ListTrades, LoadTrades, Refetch, Mine, Published, checkoutVars, clientVars
  <2> QED
    BY <2>3, <2>4, <2>5, <2>8, <2>9, <2>10 DEF CheckoutNext, Work, Choose
<1> QED
  BY <1>2, <1>3


-----------------------------------------------------------------------------
(* Results *)

\* The Match and Trade tables always hold rows of their schema.
THEOREM TypesHold == Spec => []TypeOK
BY InitIInv, StepPreserves, IInvImplies, PTL DEF Spec

\* A trade that counts was verified on chain, whatever reports were in flight,
\* how stale what they had read, and wherever they died.
THEOREM ConfirmedIsVerifiedHolds == Spec => []ConfirmedIsVerified
BY InitIInv, StepPreserves, IInvImplies, PTL DEF Spec

\* A row never changes its transaction, two reports that race on its key
\* included, if no rejection is reported under a purchase's or settlement's key.
THEOREM KeyKeepsHashHolds == ASSUME RejectsHaveOwnKeys PROVE Spec => KeyKeepsHash
<1>1. IInv /\ KInv /\ [Next]_vars => IInv' /\ KInv' /\ Keeps(trade, trade')
  BY StepPreserves, StepKeeps
<1>2. IInv /\ Keeps(trade, trade') =>
        \A k \in Keys : trade[k] # None /\ trade[k].hash # None
                        => trade'[k].hash = trade[k].hash
  BY DEF Keeps
<1> QED
  BY <1>1, <1>2, InitIInv, InitKInv, PTL DEF Spec, KeyKeepsHash

\* Under the same condition one on-chain purchase never counts for two matches.
THEOREM OnePurchaseOneMatchHolds ==
  ASSUME RejectsHaveOwnKeys PROVE Spec => []OnePurchaseOneMatch
<1>1. IInv /\ KInv /\ [Next]_vars => IInv' /\ KInv'
  BY StepPreserves, StepKeeps
<1> QED
  BY <1>1, InitIInv, InitKInv, KInvImplies, PTL DEF Spec

\* No condition is needed for this: the sums of the analytics take a payment at most twice,
\* once as the purchase and once as its settlement.
THEOREM CountedOnceEachHolds == Spec => []CountedOnceEach
<1>1. IInv /\ UInv /\ [Next]_vars => IInv' /\ UInv'
  BY StepPreserves, StepDiffers
<1> QED
  BY <1>1, InitIInv, InitUInv, UInvImplies, PTL DEF Spec

\* If settlements are reported under keys and transactions of their own, a match
\* is SETTLED only when the contract paid out a purchase of it.
THEOREM SettledIsVerifiedHolds ==
  ASSUME SettlesAreTheirOwn PROVE Spec => []SettledIsVerified
<1>1. IInv /\ SInv /\ [Next]_vars => IInv' /\ SInv'
  BY StepPreserves, StepSettling
<1>2. SInv => SettledIsVerified
  BY DEF SInv, PaidOut, SettledIsVerified, Succeeded
<1> QED
  BY <1>1, <1>2, InitIInv, InitSInv, PTL DEF Spec

\* The purchase and settle panels, in however many browsers, and the API make up a
\* behaviour of Settlement: every report they send is one its schema allows, and a
\* rejection always finds a key that was never used.
THEOREM CheckoutIsSettlement == CheckoutSpec => Spec
<1>1. CheckoutInit => Init
  BY DEF CheckoutInit
<1>2. CInv /\ [CheckoutNext]_checkoutVars => [Next]_vars
  BY CheckoutSteps DEF CInv
<1> QED
  BY <1>1, <1>2, InitCInv, CheckoutPreserves, PTL DEF CheckoutSpec, Spec

\* A panel says "confirmed" or "completed" only of a transaction that succeeded on
\* chain, whichever of its own answers, older reports or lists of trades it heard.
THEOREM ShownIsVerifiedHolds == CheckoutSpec => []ShownIsVerified
<1>1. CInv => ShownIsVerified
  BY DEF CInv, PanelsOK, ShownOK, ShownIsVerified, Succeeded
<1> QED
  BY <1>1, InitCInv, CheckoutPreserves, PTL DEF CheckoutSpec

\* In the browsers' traffic a row never changes its transaction: nothing is asked of the
\* keys, as in KeyKeepsHashHolds, for the pages keep them apart.
THEOREM CheckoutKeepsHash == CheckoutSpec => KeyKeepsHash
<1>1. CInv /\ HInv /\ [CheckoutNext]_checkoutVars =>
        CInv' /\ HInv' /\ KeepsHash(trade, trade')
  BY CheckoutPreserves, HeardPreserves
<1>2. CInv /\ KeepsHash(trade, trade') =>
        [\A k \in Keys : trade[k] # None /\ trade[k].hash # None
                         => trade'[k].hash = trade[k].hash]_vars
  BY DEF KeepsHash
<1> QED
  BY <1>1, <1>2, InitCInv, InitHInv, PTL DEF CheckoutSpec, KeyKeepsHash

\* Nor does it take a condition there for a SETTLED match to be one the contract paid out.
THEOREM CheckoutSettledIsVerified == CheckoutSpec => []SettledIsVerified
<1>1. CInv /\ HInv /\ [CheckoutNext]_checkoutVars => CInv' /\ HInv'
  BY CheckoutPreserves, HeardPreserves
<1>2. HInv => SettledIsVerified
  BY DEF HInv, MatchTells, PaidOut, SettledIsVerified, Succeeded
<1> QED
  BY <1>1, <1>2, InitCInv, InitHInv, PTL DEF CheckoutSpec

\* An up-to-date page offers no second payment beside an acknowledged first, unless a
\* payment of the match reverted.
THEOREM HeardPurchaseLocksHolds == CheckoutSpec => HeardPurchaseLocks
<1>1. CInv /\ HInv /\ [CheckoutNext]_checkoutVars => CInv' /\ HInv'
  BY CheckoutPreserves, HeardPreserves
<1>2. CInv /\ HInv /\ [CheckoutNext]_checkoutVars =>
        [\A s \in Reporters :
           /\ Action(s) = "purchase" /\ submit[s].step = "rest" /\ submit'[s].step = "network"
           /\ view[Browser(s)] = match[TheMatch] /\ heard[Browser(s)] # {}
           => \E g \in signed : Settles[g] = None /\ chain[g] = "reverted"]_checkoutVars
  BY ClickIsUnlocked DEF Reverted
<1> QED
  BY <1>1, <1>2, InitCInv, InitHInv, PTL DEF CheckoutSpec, HeardPurchaseLocks
=============================================================================
