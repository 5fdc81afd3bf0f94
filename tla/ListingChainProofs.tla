-------------------------- MODULE ListingChainProofs --------------------------
(***************************************************************************)
(* Theorems about ListingChain, and about Publication, which adds to it    *)
(* the pages that the seller publishes from.                               *)
(*                                                                         *)
(* A report overwrites all on-chain columns at once, so a row is as good   *)
(* as the write that produced it: the invariant asks of every write that   *)
(* is about to happen what it asks of every row (RowOK), whenever the      *)
(* report decided on it.  That stays true because the chain never takes a  *)
(* success back.                                                           *)
(***************************************************************************)
EXTENDS Publication, FiniteSetTheorems, TLAPS

RowOK(l, row, ch) ==
  /\ row.id # None <=> row.status = "CONFIRMED"
  /\ row.status = "CONFIRMED" =>
       /\ row.hash # None
       /\ ch[row.hash].status = "succeeded" /\ ch[row.hash].id = row.id
       /\ Tx[row.hash].listing = l /\ Tx[row.hash].seller

\* The contract numbers each success, and creates a listing once.
ChainOK ==
  /\ \A h \in Hashes : chain[h].status = "succeeded" => chain[h].id # None
  /\ \A g, h \in Hashes :
       /\ chain[g].status = "succeeded" /\ chain[h].status = "succeeded"
       /\ Tx[g].listing = Tx[h].listing
       => g = h

RequestOK(q, ch) ==
  /\ q.pc \in {"find", "chain", "write"} => q.body \in ReportShape
  /\ q.pc = "find" => q.old \in ListingRow /\ RowOK(q.body.listing, q.old, ch)
  /\ q.pc = "chain" => q.body.action = "confirm" /\ q.old.id = None
  /\ q.pc = "write" => q.write \in ListingRow /\ RowOK(q.body.listing, q.write, ch)

IInv ==
  /\ TypeOK /\ ChainOK
  /\ \A l \in Listings : RowOK(l, listing[l], chain)
  /\ DOMAIN req = Reporters /\ \A r \in Reporters : RequestOK(req[r], chain)

\* A report carries what its schema allows.
LEMMA BodyTypes ==
  ASSUME NEW body \in ReportShape
  PROVE  /\ body.listing \in Listings /\ body.key \in Keys
         /\ body.action \in {"confirm", "reject"}
         /\ body.action = "confirm" => body.hash \in Hashes
BY DEF ReportShape

\* A step of one report leaves the others as they are.
LEMMA OneReport ==
  ASSUME IInv, NEW r \in Reporters, NEW q, Goto(r, q), RequestOK(q, chain)
  PROVE  DOMAIN req' = Reporters /\ \A s \in Reporters : RequestOK(req'[s], chain)
BY DEF IInv, Goto

LEMMA IdleOK == RequestOK(Idle, chain)
BY DEF RequestOK, Idle

LEMMA InitIInv == Init => IInv
<1> SUFFICES ASSUME Init PROVE IInv
  OBVIOUS
<1>1. TypeOK
  <2>1. listing \in [Listings -> ListingRow]
    BY DEF Init, ListingRow, Columns
  <2>2. book \in [Listings -> [offer : Offers, open : BOOLEAN]]
    <3>1. [offer : Offers, open : {TRUE}] \subseteq [offer : Offers, open : BOOLEAN]
      OBVIOUS
    <3> QED
      BY <3>1 DEF Init
  <2>3. chain \in [Hashes -> [status : {"unmined", "succeeded", "reverted"},
                             id : Nat \cup {None}]]
    BY DEF Init
  <2> QED
    BY <2>1, <2>2, <2>3 DEF Init, TypeOK
<1>2. ChainOK
  BY DEF Init, ChainOK
<1>3. \A l \in Listings : RowOK(l, listing[l], chain)
  BY DEF Init, RowOK, Columns
<1>4. \A r \in Reporters : RequestOK(req[r], chain)
  BY DEF Init, RequestOK, Idle
<1> QED
  BY <1>1, <1>2, <1>3, <1>4 DEF IInv, Init

LEMMA FindListingPreserves ==
  ASSUME IInv, NEW r \in Reporters, NEW body \in ReportShape, findListing(r, body)
  PROVE  IInv'
<1> DEFINE q == [pc |-> "find", body |-> body, old |-> listing[body.listing],
                 offer |-> book[body.listing].offer, open |-> book[body.listing].open]
<1>1. RequestOK(q, chain)
  BY BodyTypes DEF IInv, RequestOK, TypeOK
<1>2. DOMAIN req' = Reporters /\ \A s \in Reporters : RequestOK(req'[s], chain)
  <2> HIDE DEF q
  <2>1. Goto(r, q)
    BY DEF findListing, q
  <2> QED
    BY <1>1, <2>1, OneReport
<1> QED
  BY <1>2 DEF findListing, IInv, TypeOK, ChainOK

LEMMA FindOthersPreserves ==
  ASSUME IInv, NEW r \in Reporters, findOthers(r)
  PROVE  IInv'
<1> DEFINE old == req[r]
           reject == Writing(old, Columns(None, None, old.body.key, "REJECTED"))
           ask == [old EXCEPT !.pc = "chain"]
<1>0. old.pc = "find" /\ old.body \in ReportShape
      /\ (old.old.id # None <=> old.old.status = "CONFIRMED")
  BY DEF findOthers, IInv, RequestOK, RowOK
<1>1. RequestOK(reject, chain)
  BY <1>0, BodyTypes
     DEF RequestOK, Writing, Columns, RowOK, ListingRow
<1>2. ASSUME ~Mapped(old.old), old.body.action = "confirm"
      PROVE  RequestOK(ask, chain)
  <2>1. old.old.id = None
    BY <1>0, <1>2 DEF Mapped
  <2> QED
    BY <1>0, <1>2, <2>1 DEF RequestOK
<1>3. DOMAIN req' = Reporters /\ \A s \in Reporters : RequestOK(req'[s], chain)
  <2> HIDE DEF old, reject, ask
  <2>1. \/ Goto(r, Idle)
        \/ Goto(r, reject)
        \/ Goto(r, ask) /\ ~Mapped(old.old) /\ old.body.action = "confirm"
    BY DEF findOthers, old, reject, ask
  <2> QED
    BY <1>1, <1>2, <2>1, OneReport, IdleOK
<1> QED
  BY <1>3 DEF findOthers, IInv, TypeOK, ChainOK

\* What the chain's answer leads to is fit to be a row.
LEMMA ReportOK ==
  ASSUME IInv, NEW q, q.body \in ReportShape, q.body.action = "confirm", NEW id, NEW status,
         \/ id = None /\ status \in {"PENDING", "FAILED"}
         \/ /\ verifyListingCreated(q)
            /\ id = chain[q.body.hash].id /\ status = "CONFIRMED"
  PROVE  RequestOK(Writing(q, Report(q, id, status)), chain)
<1> DEFINE w == Report(q, id, status)
<1>1. q.body.hash \in Hashes /\ q.body.key \in Keys
  BY BodyTypes
<1>2. q.body.hash # None
  BY <1>1, ListingChainAssumption DEF ListingChainAssumption
<1>3. CASE id = None /\ status \in {"PENDING", "FAILED"}
  BY <1>1, <1>3 DEF RequestOK, Writing, Report, Columns, RowOK, ListingRow
<1>4. CASE /\ verifyListingCreated(q)
           /\ id = chain[q.body.hash].id /\ status = "CONFIRMED"
  <2>1. chain[q.body.hash].status = "succeeded" /\ Tx[q.body.hash].seller
        /\ Tx[q.body.hash].listing = q.body.listing
    BY <1>4 DEF verifyListingCreated, assertSuccessfulReceipt, senderAllowed, parseCreateListingInput
  <2>2. id # None /\ id \in Nat \cup {None}
    BY <1>1, <1>4, <2>1 DEF IInv, ChainOK, TypeOK
  <2>3. w \in ListingRow
    BY <1>1, <1>4, <2>2 DEF Report, Columns, ListingRow
  <2>4. RowOK(q.body.listing, w, chain)
    BY <1>2, <1>4, <2>1, <2>2 DEF RowOK, Report, Columns
  <2> QED
    BY <2>3, <2>4 DEF RequestOK, Writing
<1> QED
  BY <1>3, <1>4

LEMMA QueryChainPreserves ==
  ASSUME IInv, NEW r \in Reporters, queryChain(r) \/ misled(r)
  PROVE  IInv'
<1> DEFINE q == req[r]
           seen == chain[q.body.hash]
<1>0. q.pc = "chain" /\ q.body \in ReportShape /\ q.body.action = "confirm" /\ q.old.id = None
  BY DEF queryChain, misled, IInv, RequestOK
<1>1. PICK id, status :
        /\ Goto(r, Writing(q, Report(q, id, status)))
        /\ \/ id = None /\ status \in {"PENDING", "FAILED"}
           \/ /\ verifyListingCreated(q)
              /\ id = seen.id /\ status = "CONFIRMED"
  <2>1. CASE queryChain(r)
    BY <2>1 DEF queryChain, parseListingCreatedLogs
  <2>2. CASE misled(r)
    BY <1>0, <2>2 DEF misled
  <2> QED
    BY <2>1, <2>2
<1>2. RequestOK(Writing(q, Report(q, id, status)), chain)
  BY <1>0, <1>1, ReportOK
<1>3. DOMAIN req' = Reporters /\ \A s \in Reporters : RequestOK(req'[s], chain)
  BY <1>1, <1>2, OneReport
<1> QED
  BY <1>3 DEF queryChain, misled, IInv, TypeOK, ChainOK

LEMMA PersistPreserves ==
  ASSUME IInv, NEW r \in Reporters, persistOnChain(r)
  PROVE  IInv'
<1> DEFINE l == req[r].body.listing
           w == req[r].write
<1>1. w \in ListingRow /\ RowOK(l, w, chain) /\ l \in Listings
  BY BodyTypes DEF persistOnChain, IInv, RequestOK
<1>2. listing' = listing \/ listing' = [listing EXCEPT ![l] = w]
  BY DEF persistOnChain
<1>3. listing' \in [Listings -> ListingRow]
  BY <1>1, <1>2 DEF IInv, TypeOK
<1>4. \A m \in Listings : RowOK(m, listing'[m], chain)
  BY <1>1, <1>2 DEF IInv, TypeOK
<1>5. DOMAIN req' = Reporters /\ \A s \in Reporters : RequestOK(req'[s], chain)
  BY OneReport, IdleOK DEF persistOnChain
<1> QED
  BY <1>3, <1>4, <1>5 DEF persistOnChain, IInv, TypeOK, ChainOK

\* A success on chain is not taken back.
LEMMA ChainStable ==
  ASSUME IInv, NEW h \in Hashes, createListing(h), NEW l, NEW row,
         row.hash \in Hashes \cup {None}, RowOK(l, row, chain)
  PROVE  RowOK(l, row, chain')
<1>1. \A g \in Hashes : chain[g].status = "succeeded" => chain'[g] = chain[g]
  BY DEF createListing, IInv, TypeOK
<1> QED
  BY <1>1 DEF RowOK

LEMMA CreatePreserves ==
  ASSUME IInv, NEW h \in Hashes, createListing(h)
  PROVE  IInv'
<1>1. /\ nextListingId \in Nat \ {0} /\ nextListingId' \in Nat \ {0}
      /\ nextListingId # None
  BY ListingChainAssumption DEF createListing, IInv, TypeOK, ListingChainAssumption
<1>2. \/ /\ ~externalIdUsed(Tx[h].listing)
         /\ chain' = [chain EXCEPT ![h] = [status |-> "succeeded", id |-> nextListingId]]
      \/ chain' = [chain EXCEPT ![h].status = "reverted"]
  BY DEF createListing
<1>3. TypeOK'
  BY <1>1, <1>2 DEF createListing, IInv, TypeOK
<1>4. ChainOK'
  <2>1. \A g \in Hashes : g # h => chain'[g] = chain[g]
    BY <1>2 DEF IInv, TypeOK
  <2>2. chain'[h].status = "succeeded" =>
          chain'[h].id = nextListingId /\ ~externalIdUsed(Tx[h].listing)
    BY <1>2 DEF IInv, TypeOK
  <2> QED
    BY <1>1, <2>1, <2>2 DEF IInv, ChainOK, externalIdUsed
<1>5. \A l \in Listings : RowOK(l, listing'[l], chain')
  BY ChainStable DEF createListing, IInv, TypeOK, ListingRow
<1>6. \A r \in Reporters : RequestOK(req[r], chain')
  <2> SUFFICES ASSUME NEW r \in Reporters PROVE RequestOK(req[r], chain')
    OBVIOUS
  <2>1. req[r].pc = "write" => RowOK(req[r].body.listing, req[r].write, chain')
    BY ChainStable DEF IInv, RequestOK, ListingRow
  <2>2. req[r].pc = "find" => RowOK(req[r].body.listing, req[r].old, chain')
    BY ChainStable DEF IInv, RequestOK, ListingRow
  <2> QED
    BY <2>1, <2>2 DEF IInv, RequestOK
<1> QED
  BY <1>3, <1>4, <1>5, <1>6 DEF createListing, IInv

LEMMA OthersPreserve ==
  ASSUME IInv,
         \/ \E r \in Reporters : dies(r)
         \/ \E l \in Listings : close(l) \/ \E offer \in Offers : changeOffer(l, offer)
         \/ UNCHANGED vars
  PROVE  IInv'
<1>1. CASE \E r \in Reporters : dies(r)
  <2>1. DOMAIN req' = Reporters /\ \A s \in Reporters : RequestOK(req'[s], chain)
    BY <1>1, OneReport, IdleOK DEF dies
  <2> QED
    BY <1>1, <2>1 DEF dies, IInv, TypeOK, ChainOK
<1>2. CASE \E l \in Listings : close(l) \/ \E offer \in Offers : changeOffer(l, offer)
  <2>1. book' \in [Listings -> [offer : Offers, open : BOOLEAN]]
    <3>1. PICK l \in Listings : close(l) \/ \E offer \in Offers : changeOffer(l, offer)
      BY <1>2
    <3>2. CASE close(l)
      <4>1. [book[l] EXCEPT !.open = FALSE] \in [offer : Offers, open : BOOLEAN]
        BY DEF IInv, TypeOK
      <4> QED
        BY <3>2, <4>1 DEF close, IInv, TypeOK
    <3>3. ASSUME NEW offer \in Offers, changeOffer(l, offer)
          PROVE  book' \in [Listings -> [offer : Offers, open : BOOLEAN]]
      <4>1. [book[l] EXCEPT !.offer = offer] \in [offer : Offers, open : BOOLEAN]
        BY DEF IInv, TypeOK
      <4> QED
        BY <3>3, <4>1 DEF changeOffer, IInv, TypeOK
    <3> QED
      BY <3>1, <3>2, <3>3
  <2> QED
    BY <1>2, <2>1 DEF close, changeOffer, IInv, TypeOK, ChainOK
<1>3. CASE UNCHANGED vars
  BY <1>3 DEF vars, IInv, TypeOK, ChainOK
<1> QED
  BY <1>1, <1>2, <1>3

LEMMA StepPreserves == IInv /\ [Next]_vars => IInv'
<1> SUFFICES ASSUME IInv, [Next]_vars PROVE IInv'
  OBVIOUS
<1>1. CASE \E r \in Reporters, body \in Reports : findListing(r, body)
  BY <1>1, FindListingPreserves, ListingChainAssumption DEF ListingChainAssumption
<1>2. CASE \E r \in Reporters : findOthers(r)
  BY <1>2, FindOthersPreserves
<1>3. CASE \E r \in Reporters : queryChain(r) \/ misled(r)
  BY <1>3, QueryChainPreserves
<1>4. CASE \E r \in Reporters : persistOnChain(r)
  BY <1>4, PersistPreserves
<1>5. CASE \E h \in Hashes : createListing(h)
  BY <1>5, CreatePreserves
<1>6. CASE \/ \E r \in Reporters : dies(r)
           \/ \E l \in Listings : close(l) \/ \E offer \in Offers : changeOffer(l, offer)
           \/ UNCHANGED vars
  BY <1>6, OthersPreserve
<1> QED
  BY <1>1, <1>2, <1>3, <1>4, <1>5, <1>6 DEF Next, Step

\* Only createListing touches the chain.
ChainMoves == chain' = chain \/ \E t \in Hashes : createListing(t)

LEMMA NextMovesChain == [Next]_vars => ChainMoves
BY DEF ChainMoves, Next, Step, vars, findListing, findOthers, queryChain,
       persistOnChain, misled, dies, close, changeOffer

\* Only a write changes a row, and a listing has one id on chain, ever.
LEMMA IdsStay ==
  ASSUME IInv, ChainMoves, IInv', NEW l \in Listings,
         listing[l].id # None, listing'[l].id # None
  PROVE  listing'[l].id = listing[l].id
<1> DEFINE g == listing[l].hash
           h == listing'[l].hash
<1>1. /\ g \in Hashes /\ chain[g].status = "succeeded" /\ chain[g].id = listing[l].id
      /\ Tx[g].listing = l
  BY DEF IInv, TypeOK, ListingRow, RowOK
<1>2. /\ h \in Hashes /\ chain'[h].status = "succeeded" /\ chain'[h].id = listing'[l].id
      /\ Tx[h].listing = l
  BY DEF IInv, TypeOK, ListingRow, RowOK
<1>3. chain'[g].status = "succeeded" /\ chain'[g].id = chain[g].id
  <2>1. CASE chain' = chain
    BY <1>1, <2>1
  <2>2. CASE \E t \in Hashes : createListing(t)
    BY <1>1, <2>2 DEF createListing, IInv, TypeOK
  <2> QED
    BY <2>1, <2>2 DEF ChainMoves
<1>4. g = h
  BY <1>1, <1>2, <1>3 DEF IInv, ChainOK
<1> QED
  BY <1>1, <1>2, <1>3, <1>4

-----------------------------------------------------------------------------
(* The seller's pages.  Their reports are well formed, which needs that a
   rejection always finds a new key, and are all about the one listing; so a
   page only hears rows that were, or were to be, that listing's. *)

ApiRow == [id : Nat \cup {None},
           status : {"NONE", "PENDING", "FAILED", "REJECTED", "CONFIRMED"}]
TabRow == [busy : BOOLEAN, api : ApiRow, offer : Offers, open : BOOLEAN]
SubmitRow == [step : {"rest", "network", "prompt", "report", "wait", "again", "decline"},
              hash : Hashes \cup {None}, offer : Offers \cup {None}, asked : BOOLEAN]

\* What the page may show, when the chain is ch.
OwnId(api, ch) ==
  Mapped(api) => \E h \in Hashes : /\ ch[h] = [status |-> "succeeded", id |-> api.id]
                                   /\ Tx[h].listing = TheListing /\ Tx[h].seller

TabOK(v, ch) == v \in TabRow /\ OwnId(v.api, ch)

TabsOK == DOMAIN tab = Tabs /\ tab = [t \in Tabs |-> tab[t]] /\ \A t \in Tabs : TabOK(tab[t], chain)

About(q) == q.pc \in {"find", "chain", "write"} => q.body.listing = TheListing

AllAbout == \A r \in Reporters : About(req[r])

Signed(v) == v.step \in {"report", "wait", "again"} => v.hash \in Hashes

Declining == {t \in Reporters : submit[t].step = "decline"}
KeysSuffice == Cardinality(Declining) <= Cardinality(Keys \ minted)

SubmitsOK ==
  /\ submit \in [Reporters -> SubmitRow]
  /\ \A s \in Reporters : Signed(submit[s])
  /\ keyOf \in [Slots -> Keys]
  /\ KeysSuffice

HashesSigned == signed \subseteq Hashes

PInv == IInv /\ SubmitsOK /\ AllAbout /\ TabsOK

\* As long as fewer submits decline and no key is used up, the keys suffice.
LEMMA FewerDecline ==
  ASSUME KeysSuffice, Declining' \subseteq Declining, minted' = minted
  PROVE  KeysSuffice'
<1>1. IsFiniteSet(Declining)
  BY PublicationAssumption, FS_Subset DEF PublicationAssumption, Declining
<1>2. Cardinality(Declining') <= Cardinality(Declining)
      /\ Cardinality(Declining') \in Nat /\ Cardinality(Declining) \in Nat
  BY <1>1, FS_Subset, FS_CardinalityType
<1>3. IsFiniteSet(Keys \ minted) /\ Cardinality(Keys \ minted) \in Nat
  BY PublicationAssumption, FS_Subset, FS_CardinalityType DEF PublicationAssumption
<1> QED
  BY <1>2, <1>3 DEF KeysSuffice

\* One submit moves on, the browser's keys stand.
LEMMA OneSubmit ==
  ASSUME SubmitsOK, NEW s \in Reporters, NEW v \in SubmitRow, Signed(v),
         v.step # "decline", submit' = [submit EXCEPT ![s] = v],
         UNCHANGED <<keyOf, minted>>
  PROVE  SubmitsOK'
<1>1. submit' \in [Reporters -> SubmitRow] /\ \A t \in Reporters : Signed(submit'[t])
  BY DEF SubmitsOK
<1>2. Declining' \subseteq Declining
  BY DEF SubmitsOK, Declining
<1> QED
  BY <1>1, <1>2, FewerDecline DEF SubmitsOK

\* The user declines: there is a key for one more rejection.
LEMMA DeclineSubmits ==
  ASSUME SubmitsOK, NEW s \in Reporters, Decline(s)
  PROVE  SubmitsOK'
<1> DEFINE v == [submit[s] EXCEPT !.step = "decline"]
           D == Declining
<1>1. /\ submit[s] \in SubmitRow /\ submit[s].step \in {"network", "prompt"}
      /\ submit' = [submit EXCEPT ![s] = v] /\ UNCHANGED <<keyOf, minted>>
      /\ Cardinality(D) < Cardinality(Keys \ minted)
  BY DEF Decline, SubmitsOK, Declining
<1>2. v \in SubmitRow /\ v.step = "decline" /\ Signed(v)
  BY <1>1 DEF SubmitRow, Signed
<1> HIDE DEF v
<1>3. submit' \in [Reporters -> SubmitRow] /\ \A t \in Reporters : Signed(submit'[t])
  BY <1>1, <1>2 DEF SubmitsOK
<1>4. D' = D \cup {s} /\ s \notin D
  BY <1>1, <1>2 DEF SubmitsOK, Declining
<1>5. IsFiniteSet(D) /\ Cardinality(D) \in Nat
  BY PublicationAssumption, FS_Subset, FS_CardinalityType DEF PublicationAssumption, Declining
<1>6. Cardinality(D') = Cardinality(D) + 1
  <2> HIDE DEF D
  <2>1. IsFiniteSet(D) => Cardinality(D \cup {s}) = IF s \in D THEN Cardinality(D) ELSE Cardinality(D) + 1
    BY FS_AddElement
  <2> QED
    BY <1>4, <1>5, <2>1
<1>7. Cardinality(Keys \ minted) \in Nat
  BY PublicationAssumption, FS_Subset, FS_CardinalityType DEF PublicationAssumption
<1>8. KeysSuffice'
  BY <1>1, <1>5, <1>6, <1>7 DEF KeysSuffice
<1> QED
  BY <1>1, <1>3, <1>8 DEF SubmitsOK

\* A submit goes on after an answer; a declined one takes a key that is new.
LEMMA ContinueSubmits ==
  ASSUME SubmitsOK, NEW s \in Reporters, NEW answer, Continue(s, answer)
  PROVE  SubmitsOK'
<1> DEFINE waits == [submit[s] EXCEPT !.step = "wait", !.asked = FALSE]
           v == IF submit[s].step = "report" THEN waits ELSE Rest
<1>1. submit' = [submit EXCEPT ![s] = v] /\ submit[s] \in SubmitRow /\ Signed(submit[s])
  BY DEF Continue, SubmitsOK
<1>2. v \in SubmitRow /\ Signed(v) /\ v.step # "decline"
  BY <1>1 DEF SubmitRow, Signed, Rest
<1> HIDE DEF v
<1>3. CASE submit[s].step # "decline"
  <2>1. UNCHANGED <<keyOf, minted>>
    BY <1>3 DEF Continue
  <2> QED
    BY <1>1, <1>2, <2>1, OneSubmit
<1>4. CASE submit[s].step = "decline"
  <2> DEFINE free == Keys \ minted
             D == Declining
             k == NewKey
  <2>1. minted' = minted \cup {k} /\ keyOf' = [keyOf EXCEPT !["confirm"] = k]
    BY <1>4 DEF Continue
  <2>2. s \in D /\ D' = D \ {s}
    BY <1>1, <1>2, <1>4 DEF SubmitsOK, Declining
  <2>3. /\ IsFiniteSet(D) /\ Cardinality(D) \in Nat
        /\ IsFiniteSet(free) /\ Cardinality(free) \in Nat
    BY PublicationAssumption, FS_Subset, FS_CardinalityType DEF PublicationAssumption, Declining
  <2>4. Cardinality(D) <= Cardinality(free)
    BY DEF SubmitsOK, KeysSuffice
  <2>5. Cardinality(D') = Cardinality(D) - 1 /\ Cardinality(D) > 0
    <3> HIDE DEF D
    <3>1. Cardinality(D \ {s}) = Cardinality(D) - 1
      BY <2>2, <2>3, FS_RemoveElement
    <3>2. D # {}
      BY <2>2
    <3> QED
      BY <2>2, <2>3, <3>1, <3>2, FS_EmptySet
  <2>6. k \in free
    <3>1. free # {}
      BY <2>3, <2>4, <2>5, FS_EmptySet
    <3> QED
      BY <3>1 DEF NewKey
  <2>7. Cardinality(free') = Cardinality(free) - 1
    <3>1. free' = free \ {k}
      BY <2>1
    <3> HIDE DEF free, k
    <3>2. Cardinality(free \ {k}) = Cardinality(free) - 1
      BY <2>3, <2>6, FS_RemoveElement
    <3> QED
      BY <3>1, <3>2
  <2>8. KeysSuffice'
    BY <2>3, <2>4, <2>5, <2>7 DEF KeysSuffice
  <2>9. keyOf' \in [Slots -> Keys]
    <3> HIDE DEF k
    <3> QED
      BY <2>1, <2>6 DEF SubmitsOK
  <2>10. submit' \in [Reporters -> SubmitRow] /\ \A t \in Reporters : Signed(submit'[t])
    BY <1>1, <1>2 DEF SubmitsOK
  <2> QED
    BY <2>8, <2>9, <2>10 DEF SubmitsOK
<1> QED
  BY <1>3, <1>4

\* The steps of one submit between its reports.
LEMMA OwnSteps ==
  ASSUME PInv, NEW s \in Reporters,
         \/ Click(s) \/ Prompt(s) \/ WalletFails(s) \/ (\E h \in Hashes : Approve(s, h))
         \/ Send(s) \/ Receipt(s) \/ ReceiptTimeout(s)
  PROVE  SubmitsOK'
<1>1. SubmitsOK /\ submit[s] \in SubmitRow /\ Signed(submit[s]) /\ UNCHANGED <<keyOf, minted>>
  BY DEF PInv, SubmitsOK, Click, Prompt, WalletFails, Approve, Send, Receipt, ReceiptTimeout
<1>2. CASE Click(s)
  <2> DEFINE v == [Rest EXCEPT !.step = "network", !.offer = tab[TabOf[s]].offer]
  <2>1. submit' = [submit EXCEPT ![s] = v]
    BY <1>1, <1>2 DEF Click
  <2>2. tab[TabOf[s]].offer \in Offers
    BY PublicationAssumption DEF PInv, TabsOK, TabOK, TabRow, PublicationAssumption
  <2>3. v \in SubmitRow /\ Signed(v) /\ v.step # "decline"
    BY <2>2 DEF SubmitRow, Signed, Rest
  <2> QED
    BY <1>1, <2>1, <2>3, OneSubmit
<1>3. CASE Prompt(s)
  <2> DEFINE v == [submit[s] EXCEPT !.step = "prompt"]
  <2>1. submit' = [submit EXCEPT ![s] = v]
    BY <1>1, <1>3 DEF Prompt
  <2>2. v \in SubmitRow /\ Signed(v) /\ v.step # "decline"
    BY <1>1 DEF SubmitRow, Signed
  <2> QED
    BY <1>1, <2>1, <2>2, OneSubmit
<1>4. ASSUME NEW h \in Hashes, Approve(s, h)
      PROVE  SubmitsOK'
  <2> DEFINE v == [submit[s] EXCEPT !.step = "report", !.hash = h]
  <2>1. submit' = [submit EXCEPT ![s] = v]
    BY <1>1, <1>4 DEF Approve
  <2>2. v \in SubmitRow /\ Signed(v) /\ v.step # "decline"
    BY <1>1 DEF SubmitRow, Signed
  <2> QED
    BY <1>1, <2>1, <2>2, OneSubmit
<1>5. CASE Send(s)
  <2>1. submit' = [submit EXCEPT ![s].asked = TRUE] /\ submit' \in [Reporters -> SubmitRow]
    BY <1>1, <1>5 DEF Send, SubmitsOK, SubmitRow
  <2>2. \A t \in Reporters : submit'[t].step = submit[t].step /\ submit'[t].hash = submit[t].hash
    BY <1>1, <2>1 DEF SubmitsOK, SubmitRow
  <2>3. Declining' = Declining
    BY <2>2 DEF Declining
  <2>4. \A t \in Reporters : Signed(submit'[t])
    BY <1>1, <2>2 DEF Signed, SubmitsOK
  <2> QED
    BY <1>1, <2>1, <2>3, <2>4, FewerDecline DEF SubmitsOK
<1>6. CASE Receipt(s)
  <2> DEFINE v == [submit[s] EXCEPT !.step = "again"]
  <2>1. submit' = [submit EXCEPT ![s] = v] /\ submit[s].step = "wait"
    BY <1>1, <1>6 DEF Receipt
  <2>2. v \in SubmitRow /\ Signed(v) /\ v.step # "decline"
    BY <1>1, <2>1 DEF SubmitRow, Signed
  <2> QED
    BY <1>1, <2>1, <2>2, OneSubmit
<1>7. CASE WalletFails(s) \/ ReceiptTimeout(s)
  <2>1. submit' = [submit EXCEPT ![s] = Rest]
    BY <1>7 DEF WalletFails, ReceiptTimeout
  <2>2. Rest \in SubmitRow /\ Signed(Rest) /\ Rest.step # "decline"
    BY DEF Rest, SubmitRow, Signed
  <2> QED
    BY <1>1, <2>1, <2>2, OneSubmit
<1> QED
  BY <1>2, <1>3, <1>4, <1>5, <1>6, <1>7

LEMMA ReloadSubmits ==
  ASSUME SubmitsOK, NEW t, Reload(t)
  PROVE  SubmitsOK'
<1>1. /\ submit' = [s \in Reporters |-> IF TabOf[s] = t THEN Rest ELSE submit[s]]
      /\ UNCHANGED <<keyOf, minted>>
  BY DEF Reload
<1>2. Rest \in SubmitRow /\ Signed(Rest) /\ Rest.step # "decline"
  BY DEF Rest, SubmitRow, Signed
<1>3. submit' \in [Reporters -> SubmitRow] /\ \A s \in Reporters : Signed(submit'[s])
  BY <1>1, <1>2 DEF SubmitsOK
<1>4. Declining' \subseteq Declining
  BY <1>1, <1>2 DEF Declining
<1> QED
  BY <1>1, <1>3, <1>4, FewerDecline DEF SubmitsOK

\* What a page sends is a report as the schema allows it, about its listing.
LEMMA SendIsReport ==
  ASSUME SubmitsOK, NEW s \in Reporters, Send(s)
  PROVE  \E body \in ReportShape : findListing(s, body) /\ body.listing = TheListing
<1> DEFINE body == [action |-> Slot(s), listing |-> TheListing, key |-> keyOf[Slot(s)],
                    hash |-> IF Slot(s) = "reject" THEN None ELSE submit[s].hash]
<1>1. findListing(s, body) /\ submit[s].step \in {"report", "again", "decline"}
  BY DEF Send
<1>2. keyOf[Slot(s)] \in Keys
  BY DEF SubmitsOK, Slot, Slots
<1>3. body \in ReportShape
  <2>1. CASE submit[s].step = "decline"
    BY <1>2, <2>1, PublicationAssumption DEF Slot, ReportShape, PublicationAssumption
  <2>2. CASE submit[s].step # "decline"
    <3>1. submit[s].hash \in Hashes
      BY <1>1, <2>2 DEF SubmitsOK, Signed
    <3> QED
      BY <1>2, <2>2, <3>1, PublicationAssumption DEF Slot, ReportShape, PublicationAssumption
  <2> QED
    BY <2>1, <2>2
<1>4. body.listing = TheListing
  OBVIOUS
<1> HIDE DEF body
<1> QED
  BY <1>1, <1>3, <1>4

\* A row of the listing may be shown.
LEMMA OwnRow ==
  ASSUME TypeOK, NEW row \in ListingRow, RowOK(TheListing, row, chain)
  PROVE  Seen(row) \in ApiRow /\ OwnId(Seen(row), chain)
<1>1. Seen(row) = [id |-> row.id, status |-> row.status] /\ Seen(row) \in ApiRow
  BY DEF Seen, ApiRow, ListingRow
<1>2. ASSUME Mapped(Seen(row))
      PROVE  /\ row.hash \in Hashes /\ chain[row.hash] = [status |-> "succeeded", id |-> row.id]
             /\ Tx[row.hash].listing = TheListing /\ Tx[row.hash].seller
  <2>1. row.status = "CONFIRMED" /\ row.hash \in Hashes
    BY <1>1, <1>2 DEF Mapped, RowOK, ListingRow
  <2> QED
    BY <2>1 DEF RowOK, TypeOK
<1> QED
  BY <1>1, <1>2 DEF OwnId

\* What a report answers may be shown.
LEMMA AnswerOK ==
  ASSUME PInv, NEW s \in Reporters, Step(s), req'[s] = Idle, Answer(s) # None
  PROVE  Answer(s) \in ApiRow /\ OwnId(Answer(s), chain)
<1> DEFINE q == req[s]
<1>1. TypeOK /\ RequestOK(q, chain) /\ About(q)
  BY DEF PInv, IInv, AllAbout
<1>2. CASE q.pc = "find"
  <2>1. Answer(s) = Seen(q.old)
    BY <1>2 DEF Answer
  <2>2. q.old \in ListingRow /\ RowOK(TheListing, q.old, chain)
    BY <1>1, <1>2 DEF RequestOK, About
  <2> QED
    BY <1>1, <2>1, <2>2, OwnRow
<1>3. CASE q.pc = "write"
  <2>1. Answer(s) = Seen(q.write) \/ Answer(s) = Seen(listing[TheListing])
    BY <1>3 DEF Answer
  <2>2. q.write \in ListingRow /\ RowOK(TheListing, q.write, chain)
    BY <1>1, <1>3 DEF RequestOK, About
  <2>3. listing[TheListing] \in ListingRow /\ RowOK(TheListing, listing[TheListing], chain)
    BY <1>1, PublicationAssumption DEF PInv, IInv, TypeOK, PublicationAssumption
  <2> QED
    BY <1>1, <2>1, <2>2, <2>3, OwnRow
<1>4. ~queryChain(s)
  BY DEF queryChain, Goto, Writing, Idle, PInv, IInv
<1> QED
  BY <1>2, <1>3, <1>4 DEF Step, findOthers, persistOnChain

\* Tabs when nothing is heard: their busyness is all that changes.
LEMMA TabsSame ==
  ASSUME PInv, \A h \in Hashes : chain[h].status = "succeeded" => chain'[h] = chain[h],
         tab' = tab \/ \E s \in Reporters, busy \in BOOLEAN : SetBusy(s, busy)
  PROVE  TabsOK'
<1>1. \A t \in Tabs : tab[t] \in TabRow /\ OwnId(tab[t].api, chain)
  BY DEF PInv, TabsOK, TabOK
<1>2. \A api : OwnId(api, chain) => OwnId(api, chain')
  <2> SUFFICES ASSUME NEW api, OwnId(api, chain), Mapped(api)
               PROVE  \E h \in Hashes : /\ chain'[h] = [status |-> "succeeded", id |-> api.id]
                                        /\ Tx[h].listing = TheListing /\ Tx[h].seller
    BY DEF OwnId
  <2>1. PICK h \in Hashes : /\ chain[h] = [status |-> "succeeded", id |-> api.id]
                            /\ Tx[h].listing = TheListing /\ Tx[h].seller
    BY DEF OwnId
  <2>2. chain'[h] = chain[h]
    BY <2>1
  <2> QED
    BY <2>1, <2>2
<1>3. tab' = [t \in Tabs |-> tab'[t]]
      /\ \A t \in Tabs : tab'[t] \in TabRow /\ tab'[t].api = tab[t].api
  <2>1. CASE tab' = tab
    BY <1>1, <2>1 DEF PInv, TabsOK
  <2>2. ASSUME NEW s \in Reporters, NEW busy \in BOOLEAN, SetBusy(s, busy)
        PROVE  tab' = [t \in Tabs |-> tab'[t]]
               /\ \A t \in Tabs : tab'[t] \in TabRow /\ tab'[t].api = tab[t].api
    <3>1. tab' = [tab EXCEPT ![TabOf[s]].busy = busy] /\ tab = [t \in Tabs |-> tab[t]]
      BY <2>2 DEF SetBusy, PInv, TabsOK
    <3> QED
      BY <1>1, <3>1 DEF TabRow
  <2> QED
    BY <2>1, <2>2
<1> QED
  BY <1>1, <1>2, <1>3 DEF TabsOK, TabOK

\* A page is given the row as it is.
LEMMA PageOK ==
  ASSUME IInv, NEW busy \in BOOLEAN
  PROVE  TabOK(Page(busy), chain)
<1>1. /\ TypeOK /\ TheListing \in Listings /\ listing[TheListing] \in ListingRow
      /\ RowOK(TheListing, listing[TheListing], chain)
      /\ book[TheListing] \in [offer : Offers, open : BOOLEAN]
  BY PublicationAssumption DEF IInv, TypeOK, PublicationAssumption
<1>2. Seen(listing[TheListing]) \in ApiRow /\ OwnId(Seen(listing[TheListing]), chain)
  BY <1>1, OwnRow
<1>3. Page(busy) = [busy |-> busy, api |-> Seen(listing[TheListing]),
                    offer |-> book[TheListing].offer, open |-> book[TheListing].open]
  BY DEF Page
<1>4. Page(busy) \in TabRow
  BY <1>1, <1>2, <1>3 DEF TabRow
<1> QED
  BY <1>2, <1>3, <1>4 DEF TabOK

\* One tab hears of a row, or is given its page anew.
LEMMA OneTab ==
  ASSUME TabsOK, chain' = chain, NEW t \in Tabs, NEW v, TabOK(v, chain),
         tab' = [tab EXCEPT ![t] = v]
  PROVE  TabsOK'
BY DEF TabsOK

LEMMA ContinueTabs ==
  ASSUME TabsOK, chain' = chain, NEW s \in Reporters, NEW answer, Continue(s, answer),
         answer # None => answer \in ApiRow /\ OwnId(answer, chain)
  PROVE  TabsOK'
<1> DEFINE t == TabOf[s]
           api == IF answer = None THEN tab[t].api ELSE answer
           v == [tab[t] EXCEPT !.api = api]
<1>1. t \in Tabs
  BY PublicationAssumption DEF PublicationAssumption
<1>2. tab' = [tab EXCEPT ![t] = v]
  BY <1>1 DEF Continue, TabsOK
<1>3. tab[t] \in TabRow /\ api \in ApiRow /\ OwnId(api, chain)
  BY <1>1 DEF TabsOK, TabOK, TabRow
<1>4. v \in TabRow /\ v.api = api
  <2> HIDE DEF api
  <2> QED
    BY <1>3 DEF TabRow
<1>5. TabOK(v, chain)
  BY <1>3, <1>4 DEF TabOK
<1> HIDE DEF v
<1> QED
  BY <1>1, <1>2, <1>5, OneTab

\* The reports in flight go on being about the listing.
LEMMA StaysAbout ==
  ASSUME PInv, NEW s \in Reporters, Step(s) \/ misled(s) \/ dies(s)
  PROVE  AllAbout' /\ chain' = chain
<1>1. chain' = chain
  BY DEF Step, findOthers, queryChain, persistOnChain, misled, dies
<1>2. About(req[s]) /\ DOMAIN req = Reporters
  BY DEF PInv, IInv, AllAbout
<1>3. \E q : Goto(s, q) /\ About(q)
  <2>0. About(Idle)
    BY DEF About, Idle
  <2>1. CASE Goto(s, Idle)
    BY <2>0, <2>1
  <2>2. ASSUME NEW w, req[s].pc \in {"find", "chain"}, Goto(s, Writing(req[s], w))
        PROVE  \E q : Goto(s, q) /\ About(q)
    <3>1. About(Writing(req[s], w))
      BY <1>2, <2>2 DEF About, Writing
    <3> QED
      BY <2>2, <3>1
  <2>3. CASE req[s].pc = "find" /\ Goto(s, [req[s] EXCEPT !.pc = "chain"])
    <3> DEFINE q == [req[s] EXCEPT !.pc = "chain"]
    <3>1. q.body = req[s].body
      BY <2>3, <1>2 DEF PInv, IInv, RequestOK
    <3>2. About(q)
      BY <1>2, <2>3, <3>1 DEF About
    <3> HIDE DEF q
    <3>3. Goto(s, q)
      BY <2>3 DEF q
    <3> QED
      BY <3>2, <3>3
  <2>4. CASE findOthers(s)
    BY <2>1, <2>2, <2>3, <2>4 DEF findOthers
  <2>5. CASE queryChain(s)
    BY <2>2, <2>5 DEF queryChain
  <2>6. CASE persistOnChain(s) \/ dies(s)
    BY <2>1, <2>6 DEF persistOnChain, dies
  <2>7. CASE misled(s)
    BY <2>2, <2>7 DEF misled
  <2> QED
    BY <2>4, <2>5, <2>6, <2>7 DEF Step
<1>4. AllAbout'
  BY <1>2, <1>3 DEF PInv, AllAbout, Goto
<1> QED
  BY <1>1, <1>4

LEMMA InitPInv == Init /\ PanelInit => PInv
<1> SUFFICES ASSUME Init, PanelInit PROVE PInv
  OBVIOUS
<1>1. IInv
  BY InitIInv
<1>2. AllAbout
  BY DEF Init, AllAbout, About, Idle
<1>3. TabsOK
  <2>1. TabOK(Page(FALSE), chain)
    BY <1>1, PageOK
  <2> QED
    BY <2>1 DEF PanelInit, TabsOK
<1>4. SubmitsOK
  <2>1. Rest \in SubmitRow /\ Signed(Rest) /\ Rest.step # "decline"
    BY DEF Rest, SubmitRow, Signed
  <2>2. submit = [s \in Reporters |-> Rest] /\ keyOf = FirstKeys
    BY DEF PanelInit
  <2>3. Declining = {}
    BY <2>1, <2>2 DEF Declining
  <2>4. Cardinality(Keys \ minted) \in Nat
    BY PublicationAssumption, FS_Subset, FS_CardinalityType DEF PublicationAssumption
  <2>5. KeysSuffice
    BY <2>3, <2>4, FS_EmptySet DEF KeysSuffice
  <2> QED
    BY <2>1, <2>2, <2>5, PublicationAssumption DEF SubmitsOK, PublicationAssumption
<1> QED
  BY <1>1, <1>2, <1>3, <1>4 DEF PInv

\* A step of a report, with its answer or without.
LEMMA ReportsPreserve ==
  ASSUME PInv, NEW s \in Reporters, Api(s) \/ ApiFails(s)
  PROVE  PInv'
<1>1. IInv /\ SubmitsOK /\ TabsOK /\ (Step(s) \/ misled(s) \/ dies(s))
  BY DEF PInv, Api, ApiFails
<1>2. IInv'
  BY <1>1, FindOthersPreserves, QueryChainPreserves, PersistPreserves, OthersPreserve DEF Step
<1>3. AllAbout' /\ chain' = chain
  BY <1>1, StaysAbout
<1>4. CASE UNCHANGED <<tab, submit, keyOf, minted>>
  BY <1>1, <1>2, <1>3, <1>4 DEF PInv, SubmitsOK, TabsOK, KeysSuffice, Declining
<1>5. ASSUME NEW answer, Continue(s, answer),
             answer # None => answer \in ApiRow /\ OwnId(answer, chain)
      PROVE  PInv'
  BY <1>1, <1>2, <1>3, <1>5, ContinueSubmits, ContinueTabs DEF PInv
<1>6. CASE Api(s)
  <2>1. CASE req'[s] = Idle /\ submit[s].asked
    <3>1. Step(s) /\ \E answer \in {Answer(s), None} : Continue(s, answer)
      BY <1>6, <2>1 DEF Api
    <3>2. Answer(s) # None => Answer(s) \in ApiRow /\ OwnId(Answer(s), chain)
      BY <2>1, <3>1, AnswerOK
    <3> QED
      BY <1>5, <3>1, <3>2
  <2> QED
    BY <1>4, <1>6, <2>1 DEF Api
<1>7. CASE ApiFails(s)
  BY <1>4, <1>5, <1>7 DEF ApiFails
<1> QED
  BY <1>6, <1>7

\* The wallet sends transactions.
LEMMA SignedStay == HashesSigned /\ [PublicationNext]_publicationVars => HashesSigned'
BY DEF HashesSigned, PublicationNext, Click, Prompt, Decline, WalletFails, Approve, Send, Api, ApiFails, Receipt,
       ReceiptTimeout, Refetch, Reload, Outside, publicationVars, panelVars

LEMMA PublicationMovesChain == HashesSigned /\ [PublicationNext]_publicationVars => ChainMoves
<1> SUFFICES ASSUME HashesSigned, [PublicationNext]_publicationVars PROVE ChainMoves
  OBVIOUS
<1>1. ASSUME NEW s \in Reporters, Send(s) \/ Api(s) \/ ApiFails(s)
      PROVE  chain' = chain
  BY <1>1 DEF Send, Api, ApiFails, Step, findListing, findOthers, queryChain,
              persistOnChain, misled, dies
<1>2. ASSUME NEW s \in Reporters,
             \/ Click(s) \/ Prompt(s) \/ WalletFails(s) \/ (\E h \in Hashes : Approve(s, h))
             \/ Decline(s) \/ Receipt(s) \/ ReceiptTimeout(s)
      PROVE  chain' = chain
  BY <1>2 DEF Click, Prompt, WalletFails, Approve, Decline, Receipt, ReceiptTimeout, vars
<1>3. ASSUME NEW t \in Tabs, Refetch(t) \/ Reload(t)
      PROVE  chain' = chain
  BY <1>3 DEF Refetch, Reload, vars
<1>4. CASE Outside
  BY <1>4 DEF Outside, HashesSigned, ChainMoves, close, changeOffer
<1>5. CASE UNCHANGED publicationVars
  BY <1>5 DEF publicationVars, vars, ChainMoves
<1> QED
  BY <1>1, <1>2, <1>3, <1>4, <1>5 DEF PublicationNext, ChainMoves

LEMMA PublicationPreserves ==
  ASSUME PInv, HashesSigned, [PublicationNext]_publicationVars
  PROVE  PInv'
<1>1. IInv /\ SubmitsOK /\ TabsOK /\ AllAbout
  BY DEF PInv
<1>2. ASSUME NEW s \in Reporters, Api(s) \/ ApiFails(s)
      PROVE  PInv'
  BY <1>2, ReportsPreserve
<1>3. ASSUME NEW s \in Reporters, Send(s)
      PROVE  PInv'
  <2>1. PICK body \in ReportShape : findListing(s, body) /\ body.listing = TheListing
    BY <1>1, <1>3, SendIsReport
  <2>2. IInv'
    BY <1>1, <2>1, FindListingPreserves
  <2>3. SubmitsOK'
    BY <1>3, OwnSteps
  <2>4. AllAbout'
    <3> DEFINE q == [pc |-> "find", body |-> body, old |-> listing[body.listing],
                     offer |-> book[body.listing].offer, open |-> book[body.listing].open]
    <3>1. About(q)
      BY <2>1 DEF About
    <3> HIDE DEF q
    <3>2. req' = [req EXCEPT ![s] = q]
      BY <2>1 DEF findListing, Goto, q
    <3> QED
      BY <1>1, <3>1, <3>2 DEF IInv, AllAbout
  <2>5. TabsOK'
    BY <1>1, <1>3, <2>1 DEF Send, findListing, TabsOK
  <2> QED
    BY <2>2, <2>3, <2>4, <2>5 DEF PInv
<1>4. ASSUME NEW s \in Reporters,
             \/ Click(s) \/ Prompt(s) \/ WalletFails(s) \/ (\E h \in Hashes : Approve(s, h))
             \/ Decline(s) \/ Receipt(s) \/ ReceiptTimeout(s)
      PROVE  PInv'
  <2>1. UNCHANGED vars
    BY <1>4 DEF Click, Prompt, WalletFails, Approve, Decline, Receipt, ReceiptTimeout
  <2>2. IInv' /\ AllAbout' /\ chain' = chain
    BY <1>1, <2>1, OthersPreserve DEF vars, AllAbout
  <2>3. SubmitsOK'
    BY <1>1, <1>4, OwnSteps, DeclineSubmits
  <2>4. tab' = tab \/ \E t \in Reporters, busy \in BOOLEAN : SetBusy(t, busy)
    BY <1>4 DEF Click, Prompt, WalletFails, Approve, Decline, Receipt, ReceiptTimeout
  <2>5. TabsOK'
    BY <2>2, <2>4, TabsSame
  <2> QED
    BY <2>2, <2>3, <2>5 DEF PInv
<1>5. ASSUME NEW t \in Tabs, Refetch(t) \/ Reload(t)
      PROVE  PInv'
  <2>1. UNCHANGED vars
    BY <1>5 DEF Refetch, Reload
  <2>2. IInv' /\ AllAbout' /\ chain' = chain
    BY <1>1, <2>1, OthersPreserve DEF vars, AllAbout
  <2>3. SubmitsOK'
    <3>1. CASE Refetch(t)
      BY <1>1, <3>1 DEF Refetch, SubmitsOK, KeysSuffice, Declining
    <3>2. CASE Reload(t)
      BY <1>1, <3>2, ReloadSubmits
    <3> QED
      BY <1>5, <3>1, <3>2
  <2>4. PICK busy \in BOOLEAN : tab' = [tab EXCEPT ![t] = Page(busy)]
    <3>1. tab[t].busy \in BOOLEAN
      BY <1>1 DEF TabsOK, TabOK, TabRow
    <3> QED
      BY <1>1, <1>5, <3>1 DEF Refetch, Reload, TabsOK
  <2>5. TabsOK'
    BY <1>1, <2>2, <2>4, PageOK, OneTab
  <2> QED
    BY <2>2, <2>3, <2>5 DEF PInv
<1>6. CASE Outside
  <2>1. IInv'
    BY <1>1, <1>6, CreatePreserves, OthersPreserve, PublicationAssumption
       DEF Outside, PublicationAssumption, HashesSigned, HashesSigned
  <2>2. UNCHANGED panelVars /\ req' = req
    BY <1>6 DEF Outside, createListing, close, changeOffer
  <2>3. SubmitsOK' /\ AllAbout' /\ tab' = tab
    BY <1>1, <2>2 DEF panelVars, SubmitsOK, AllAbout, KeysSuffice, Declining
  <2>4. \A h \in Hashes : chain[h].status = "succeeded" => chain'[h] = chain[h]
    BY <1>1, <1>6 DEF Outside, createListing, close, changeOffer, IInv, TypeOK
  <2>5. TabsOK'
    BY <2>3, <2>4, TabsSame
  <2> QED
    BY <2>1, <2>3, <2>5 DEF PInv
<1>7. CASE UNCHANGED publicationVars
  <2>1. UNCHANGED vars /\ UNCHANGED panelVars
    BY <1>7 DEF publicationVars
  <2>2. IInv'
    BY <1>1, <2>1, OthersPreserve
  <2> QED
    BY <1>1, <2>1, <2>2
       DEF vars, panelVars, PInv, SubmitsOK, AllAbout, TabsOK, KeysSuffice, Declining
<1> QED
  BY <1>2, <1>3, <1>4, <1>5, <1>6, <1>7 DEF PublicationNext

-----------------------------------------------------------------------------
(* Results *)

\* The on-chain columns and the chain always have their types.
THEOREM TypesHold == Spec => []TypeOK
<1>1. IInv => TypeOK
  BY DEF IInv
<1> QED
  BY <1>1, InitIInv, StepPreserves, PTL DEF Spec

\* An id is only ever stored with CONFIRMED, and was given by the contract to
\* this listing of this seller, whatever reports raced or failed.
THEOREM MappingIsVerifiedHolds == Spec => []MappingIsVerified
<1>1. IInv => MappingIsVerified
  BY DEF IInv, RowOK, MappingIsVerified
<1> QED
  BY <1>1, InitIInv, StepPreserves, PTL DEF Spec

\* No step takes a mapped listing from one on-chain id to another.
THEOREM MappingNeverMovesHolds == Spec => MappingNeverMoves
<1>1. IInv /\ [Next]_vars /\ IInv' =>
        \A l \in Listings :
          listing[l].id # None /\ listing'[l].id # None => listing'[l].id = listing[l].id
  BY IdsStay, NextMovesChain
<1> QED
  BY <1>1, InitIInv, StepPreserves, PTL DEF Spec, MappingNeverMoves

\* What holds of the seller's pages together with the API and the chain.
LEMMA PublicationInvariant == PublicationSpec => [](PInv /\ HashesSigned)
<1>1. PInv /\ HashesSigned /\ [PublicationNext]_publicationVars => PInv' /\ HashesSigned'
  BY PublicationPreserves, SignedStay
<1>2. Init /\ PanelInit => PInv /\ HashesSigned
  BY InitPInv DEF PanelInit, HashesSigned
<1> QED
  BY <1>1, <1>2, PTL DEF PublicationSpec

\* A page names an on-chain id only if the contract gave it to this listing in a
\* transaction of the seller, whatever answers, errors and pages came when.
THEOREM ShownIdIsOwnHolds == PublicationSpec => []ShownIdIsOwn
<1>1. PInv => ShownIdIsOwn
  BY DEF PInv, TabsOK, TabOK, OwnId, ShownIdIsOwn
<1> QED
  BY <1>1, PublicationInvariant, PTL

\* The reports that the pages make up themselves, with their own keys and whatever
\* transactions the wallet signed, store no id that the contract did not give.
THEOREM PublicationMapping == PublicationSpec => []MappingIsVerified
<1>1. PInv => MappingIsVerified
  BY DEF PInv, IInv, RowOK, MappingIsVerified
<1> QED
  BY <1>1, PublicationInvariant, PTL

\* Nor does anything the pages do take a mapped listing to another on-chain id,
\* even when the seller signed createListing twice.
THEOREM PublicationNeverMoves == PublicationSpec => MappingNeverMoves
<1>1. PInv /\ HashesSigned /\ PInv' /\ [PublicationNext]_publicationVars =>
        \A l \in Listings :
          listing[l].id # None /\ listing'[l].id # None => listing'[l].id = listing[l].id
  BY IdsStay, PublicationMovesChain DEF PInv
<1> QED
  BY <1>1, PublicationInvariant, PTL DEF PublicationSpec, MappingNeverMoves
=============================================================================
