------------------------------ MODULE BookProofs ------------------------------
(***************************************************************************)
(* The order book keeps its promises whatever the users, offers, bids,     *)
(* edits, requests in flight and bounds.                                   *)
(*                                                                         *)
(* First come the rows: what each handler may write.  Then the planner,    *)
(* apart from any state: PlanMade says what one pass over the sorted       *)
(* listings returns, by induction on the listings looked at (SetInduction  *)
(* of SumsProofs).  Then the inductive invariant of the tables, the        *)
(* accounts of the match rows, the two properties of a fill, and the       *)
(* refinement of the ledger.                                               *)
(***************************************************************************)
EXTENDS Book, SumsProofs

\* Rows stay rows: the three ways a listing row is rewritten.

LEMMA NewListingRow ==
  ASSUME NEW seller \in Users, NEW o \in Offers, now \in 0..MaxTime
  PROVE  [seller |-> seller, market |-> o.market, price |-> o.price,
          from |-> o.from, until |-> o.until, createdAt |-> now,
          orig |-> o.kwh, avail |-> o.kwh, sold |-> 0,
          min |-> o.min, max |-> o.max, status |-> "ACTIVE"] \in ListingRow
BY BookAssumption DEF BookAssumption, OfferShape, ListingRow, ListingStatus, Markets

Intact(row) == checkQuantityIntegrity(row.orig, row.avail, row.sold)

\* StatusTellsQuantity of one listing row.
WordFits(row) ==
  /\ row.status = "ACTIVE" => row.sold = 0 /\ row.avail > 0
  /\ row.status = "PARTIALLY_FILLED" => row.sold > 0 /\ row.avail > 0
  /\ row.status = "SOLD_OUT" => row.avail = 0

Sound(row) == Intact(row) /\ WordFits(row)

LEMMA StatusOnly ==
  ASSUME NEW row \in ListingRow, NEW s \in ListingStatus
  PROVE  /\ [row EXCEPT !.status = s] \in ListingRow
         /\ Intact(row) => Intact([row EXCEPT !.status = s])
BY DEF ListingRow, Intact

LEMMA ClosedRow ==
  ASSUME NEW row \in ListingRow, NEW s \in {"EXPIRED", "CANCELLED"}, Sound(row)
  PROVE  [row EXCEPT !.status = s] \in ListingRow /\ Sound([row EXCEPT !.status = s])
<1>1. s \in ListingStatus
  BY DEF ListingStatus
<1>2. WordFits([row EXCEPT !.status = s])
  BY DEF WordFits, ListingRow
<1> QED
  BY <1>1, <1>2, StatusOnly DEF Sound

LEMMA FilledRow ==
  ASSUME NEW row \in ListingRow, NEW kwh, Intact(applyFill(row, kwh))
  PROVE  Filled(row, kwh) \in ListingRow /\ Sound(Filled(row, kwh))
<1> DEFINE next == applyFill(row, kwh)
           s == listingStatusAfterFill(next.avail, next.sold)
<1>1. next = [row EXCEPT !.avail = next.avail, !.sold = next.sold]
  BY DEF applyFill, ListingRow
<1>2. next.orig = row.orig /\ next.avail \in Nat /\ next.sold \in Nat
  BY DEF Intact, checkQuantityIntegrity, applyFill, ListingRow
<1>3. next \in ListingRow
  BY <1>1, <1>2 DEF ListingRow
<1>4. s \in ListingStatus
  BY DEF listingStatusAfterFill, ListingStatus
<1>5. Filled(row, kwh) = [next EXCEPT !.status = s]
  BY DEF Filled
<1>6. Filled(row, kwh) \in ListingRow /\ Intact(Filled(row, kwh))
  BY <1>3, <1>4, <1>5, StatusOnly
<1>7. WordFits(Filled(row, kwh))
  <2>1. /\ Filled(row, kwh).avail = next.avail /\ Filled(row, kwh).sold = next.sold
        /\ Filled(row, kwh).status = s
    BY <1>3, <1>5 DEF ListingRow
  <2> HIDE DEF next
  <2> QED
    BY <1>2, <2>1 DEF WordFits, listingStatusAfterFill
<1> QED
  BY <1>6, <1>7 DEF Sound

PatchRequest == [pc : {"patch"}, id : ListingIds, body : Patches, from : Nat, until : Nat]

\* Status is left alone by an edit: the row stays sound because an edit asks
\* for a positive quantity and an editable row had one.
LEMMA PatchedRow ==
  ASSUME NEW row \in ListingRow, NEW q \in PatchRequest, Sound(row),
         row.status \in EDITABLE_STATUSES, Intact(Patched(row, q))
  PROVE  Patched(row, q) \in ListingRow /\ Sound(Patched(row, q))
<1> DEFINE kwh == Given(q.body.kwh, row.avail)
           p == Patched(row, q)
<1>1. q.body \in Patches /\ q.from \in Nat /\ q.until \in Nat
  BY DEF PatchRequest
<1>2. /\ q.body.kwh \in Nat \cup {None} /\ q.body.min \in Nat \cup {None}
      /\ q.body.max \in Nat \cup {None} /\ q.body.price \in Nat \cup {None}
  BY <1>1, BookAssumption DEF BookAssumption, PatchShape
<1>3. row.sold \in Nat /\ row.avail \in Nat
  BY DEF ListingRow
<1>4. /\ kwh \in Nat /\ Given(q.body.min, row.min) \in Nat
      /\ Given(q.body.max, row.max) \in Nat /\ Given(q.body.price, row.price) \in Nat
  BY <1>2 DEF Given, ListingRow
<1>5. resizeRemaining(row, kwh) \in ListingRow
  <2> HIDE DEF kwh
  <2>1. kwh \in Nat /\ kwh + row.sold \in Nat
    BY <1>3, <1>4
  <2>2. \A m, n \in Nat : [row EXCEPT !.orig = m, !.avail = n] \in ListingRow
    BY DEF ListingRow
  <2> QED
    BY <2>1, <2>2 DEF resizeRemaining
<1>6. Patched(row, q) \in ListingRow
  <2>1. \A r \in ListingRow, mn, mx, pr, f, u \in Nat :
          [r EXCEPT !.min = mn, !.max = mx, !.price = pr, !.from = f, !.until = u]
            \in ListingRow
    BY ZenonT(30) DEF ListingRow
  <2>2. \A r \in ListingRow, mk \in Markets : [r EXCEPT !.market = mk] \in ListingRow
    BY DEF ListingRow
  <2>3. Given(q.body.market, row.market) \in Markets
    BY <1>1 DEF Given, Markets, ListingRow
  <2> QED
    BY ZenonT(30), <1>1, <1>4, <1>5, <2>1, <2>2, <2>3 DEF Patched
<1>7. kwh > 0
  BY <1>1, <1>2, <1>3, BookAssumption
     DEF BookAssumption, Given, Sound, WordFits, EDITABLE_STATUSES
<1>8. p.status = row.status /\ p.sold = row.sold /\ p.avail = kwh
  BY DEF Patched, resizeRemaining, ListingRow
<1>9. WordFits(p)
  <2> HIDE DEF p, kwh
  <2> QED
    BY <1>7, <1>8 DEF WordFits, Sound, EDITABLE_STATUSES
<1> QED
  BY <1>6, <1>9 DEF Sound

\* StatusTellsQuantity of one bid row.
BidWordFits(row) ==
  /\ row.status = "OPEN" => row.mat = 0 /\ row.unm > 0
  /\ row.status = "PARTIALLY_MATCHED" => row.mat > 0 /\ row.unm > 0
  /\ row.status = "MATCHED" => row.unm = 0

BidSound(row) == checkBidQuantity(row.req, row.unm, row.mat) /\ BidWordFits(row)

LEMMA BidRowAfterFills ==
  ASSUME NEW row \in BidRow, NEW unm, NEW mat, checkBidQuantity(row.req, unm, mat)
  PROVE  LET new == [row EXCEPT !.unm = unm, !.mat = mat,
                                !.status = bidStatusAfterFill(unm, mat)]
         IN  new \in BidRow /\ BidSound(new)
<1>1. unm \in Nat /\ mat \in Nat
  BY DEF checkBidQuantity
<1>2. bidStatusAfterFill(unm, mat) \in BidStatus
  BY DEF bidStatusAfterFill, BidStatus
<1> DEFINE new == [row EXCEPT !.unm = unm, !.mat = mat,
                              !.status = bidStatusAfterFill(unm, mat)]
<1>3. new \in BidRow
  BY <1>1, <1>2 DEF BidRow
<1>4. /\ new.req = row.req /\ new.unm = unm /\ new.mat = mat
      /\ new.status = bidStatusAfterFill(unm, mat)
  BY DEF BidRow
<1>5. BidSound(new)
  <2> HIDE DEF new
  <2> QED
    BY <1>1, <1>4 DEF BidSound, BidWordFits, bidStatusAfterFill
<1> QED
  BY <1>3, <1>5

LEMMA ClosedBidRow ==
  ASSUME NEW row \in BidRow, NEW s \in {"EXPIRED", "CANCELLED"}, BidSound(row)
  PROVE  [row EXCEPT !.status = s] \in BidRow /\ BidSound([row EXCEPT !.status = s])
BY DEF BidRow, BidSound, BidWordFits, BidStatus

LEMMA NewBidRow ==
  ASSUME NEW buyer \in Users, NEW o \in Orders
  PROVE  NewBid(buyer, o) \in BidRow
BY BookAssumption DEF BookAssumption, OrderShape, NewBid, BidRow, BidStatus

-----------------------------------------------------------------------------
(* The planner: the order of the listings *)

\* The rows that a pass looks at: the ids may be ordered by price, age and id.
Priced(rows, ids) ==
  /\ IsFiniteSet(ids) /\ ids \subseteq Int
  /\ \A l \in ids : rows[l].price \in Nat /\ rows[l].createdAt \in Nat

LEMMA BeforeIsOrder ==
  ASSUME NEW rows, NEW ids, Priced(rows, ids)
  PROVE  /\ \A a \in ids : ~Before(rows, a, a)
         /\ \A a, b \in ids : a # b => Before(rows, a, b) \/ Before(rows, b, a)
         /\ \A a, b, c \in ids : Before(rows, a, b) /\ Before(rows, b, c) => Before(rows, a, c)
<1>1. \A a \in ids : a \in Int /\ rows[a].price \in Nat /\ rows[a].createdAt \in Nat
  BY DEF Priced
<1> QED
  BY <1>1 DEF Before

\* Every non-empty set of rows has one that comes last.
LEMMA LastExists ==
  ASSUME NEW rows, NEW ids, Priced(rows, ids), ids # {}
  PROVE  \E x \in ids : \A y \in ids \ {x} : Before(rows, y, x)
<1> DEFINE HasLast(T) == \E x \in T : \A y \in T \ {x} : Before(rows, y, x)
           S == {n \in Nat : \A T \in SUBSET ids : Cardinality(T) = n + 1 => HasLast(T)}
<1>1. \A T \in SUBSET ids : IsFiniteSet(T) /\ Cardinality(T) \in Nat
  BY FS_Subset, FS_CardinalityType DEF Priced
<1>2. 0 \in S
  <2>1. ASSUME NEW T \in SUBSET ids, Cardinality(T) = 1
        PROVE  HasLast(T)
    <3>1. PICK x : T = {x}
      BY <1>1, <2>1, FS_Singleton
    <3> QED
      BY <3>1
  <2> HIDE DEF HasLast
  <2> QED
    BY <2>1
<1>3. ASSUME NEW n \in Nat, n \in S
      PROVE  n + 1 \in S
  <2> SUFFICES ASSUME NEW T \in SUBSET ids, Cardinality(T) = (n + 1) + 1
               PROVE  HasLast(T)
    OBVIOUS
  <2>1. PICK z : z \in T
    <3>1. T # {}
      BY <1>1, FS_EmptySet
    <3> QED
      BY <3>1
  <2> DEFINE U == T \ {z}
  <2>2. Cardinality(U) = n + 1 /\ U \in SUBSET ids
    BY <1>1, <2>1, FS_RemoveElement
  <2>3. PICK x \in U : \A y \in U \ {x} : Before(rows, y, x)
    BY <1>3, <2>2
  <2>4. x \in ids /\ z \in ids /\ x # z /\ x \in T /\ \A y \in U : y \in ids
    BY <2>1, <2>2, <2>3
  <2>5. CASE Before(rows, z, x)
    <3>1. \A y \in T \ {x} : Before(rows, y, x)
      BY <2>3, <2>5
    <3> QED
      BY <2>4, <3>1
  <2>6. CASE Before(rows, x, z)
    <3>1. \A y \in T \ {z} : Before(rows, y, z)
      BY <2>3, <2>4, <2>6, BeforeIsOrder
    <3> QED
      BY <2>1, <3>1
  <2> QED
    BY <2>4, <2>5, <2>6, BeforeIsOrder
<1> HIDE DEF S
<1>4. Nat \subseteq S
  BY <1>2, <1>3, SetInduction
<1>5. PICK m \in Nat : Cardinality(ids) = m + 1
  <2>1. IsFiniteSet(ids) /\ Cardinality(ids) \in Nat /\ Cardinality(ids) # 0
    BY <1>1, FS_EmptySet
  <2>2. Cardinality(ids) - 1 \in Nat /\ Cardinality(ids) = (Cardinality(ids) - 1) + 1
    BY <2>1
  <2> QED
    BY <2>2
<1> QED
  BY <1>4, <1>5 DEF S

Ordered(rows, s) == \A i, j \in DOMAIN s : i < j => Before(rows, s[i], s[j])

LEMMA SortedExists ==
  ASSUME NEW rows, NEW ids, Priced(rows, ids)
  PROVE  \E s \in [1..Cardinality(ids) -> ids] : Ordered(rows, s)
<1> DEFINE CanSort(T, n) == \E s \in [1..n -> T] : Ordered(rows, s)
           S == {n \in Nat : \A T \in SUBSET ids : Cardinality(T) = n => CanSort(T, n)}
<1>1. \A T \in SUBSET ids : IsFiniteSet(T) /\ Cardinality(T) \in Nat
  BY FS_Subset, FS_CardinalityType DEF Priced
<1>2. 0 \in S
  <2>1. ASSUME NEW T
        PROVE  CanSort(T, 0)
    <3>1. [i \in 1..0 |-> i] \in [1..0 -> T] /\ Ordered(rows, [i \in 1..0 |-> i])
      BY DEF Ordered
    <3> QED
      BY <3>1
  <2> HIDE DEF CanSort
  <2> QED
    BY <2>1
<1>3. ASSUME NEW n \in Nat, n \in S
      PROVE  n + 1 \in S
  <2> SUFFICES ASSUME NEW T \in SUBSET ids, Cardinality(T) = n + 1
               PROVE  CanSort(T, n + 1)
    OBVIOUS
  <2>1. T # {} /\ Priced(rows, T)
    BY <1>1, FS_EmptySet DEF Priced
  <2>2. PICK x \in T : \A y \in T \ {x} : Before(rows, y, x)
    BY <2>1, LastExists
  <2> DEFINE U == T \ {x}
  <2>3. Cardinality(U) = n /\ U \in SUBSET ids
    <3>1. Cardinality(U) = Cardinality(T) - 1
      BY <1>1, <2>2, FS_RemoveElement
    <3> QED
      BY <3>1
  <2>4. PICK s \in [1..n -> U] : Ordered(rows, s)
    BY <1>3, <2>3
  <2> DEFINE t == [i \in 1..(n + 1) |-> IF i = n + 1 THEN x ELSE s[i]]
  <2>5. \A i \in 1..(n + 1) : i = n + 1 \/ i \in 1..n
    OBVIOUS
  <2>6. t \in [1..(n + 1) -> T]
    BY <2>5
  <2>7. ASSUME NEW i \in 1..(n + 1), NEW j \in 1..(n + 1), i < j
        PROVE  Before(rows, t[i], t[j])
    <3>1. i \in 1..n /\ i # n + 1 /\ t[i] = s[i] /\ s[i] \in U
      BY <2>7
    <3>2. CASE j = n + 1
      BY <2>2, <3>1, <3>2
    <3>3. CASE j \in 1..n
      <4>1. t[j] = s[j]
        BY <3>3
      <4> QED
        BY <2>4, <2>7, <3>1, <3>3, <4>1 DEF Ordered
    <3> QED
      BY <2>5, <3>2, <3>3
  <2>8. Ordered(rows, t)
    BY <2>7 DEF Ordered
  <2> QED
    BY <2>6, <2>8
<1> HIDE DEF S
<1>4. Nat \subseteq S
  BY <1>2, <1>3, SetInduction
<1> QED
  BY <1>1, <1>4 DEF S

\* What sortListingsForMatching returns: every id, once, in order.
LEMMA SortedFacts ==
  ASSUME NEW rows, NEW ids, Priced(rows, ids)
  PROVE  LET n == Cardinality(ids)
             s == sortListingsForMatching(rows, ids)
         IN  /\ n \in Nat /\ s \in [1..n -> ids]
             /\ \A i, j \in 1..n : i < j => Before(rows, s[i], s[j])
             /\ \A i, j \in 1..n : s[i] = s[j] => i = j
             /\ \A x \in ids : \E i \in 1..n : s[i] = x
<1> DEFINE n == Cardinality(ids)
           s == sortListingsForMatching(rows, ids)
<1>1. n \in Nat /\ IsFiniteSet(ids)
  BY FS_CardinalityType DEF Priced
<1>2. s \in [1..n -> ids] /\ Ordered(rows, s)
  BY SortedExists DEF sortListingsForMatching, Ordered
<1> HIDE DEF s, n
<1>3. \A i, j \in 1..n : i < j => Before(rows, s[i], s[j])
  BY <1>2 DEF Ordered
<1>4. \A i, j \in 1..n : s[i] = s[j] => i = j
  <2> SUFFICES ASSUME NEW i \in 1..n, NEW j \in 1..n, s[i] = s[j], i < j PROVE FALSE
    BY <1>1
  <2> QED
    BY <1>2, <1>3, BeforeIsOrder
<1>5. s \in Surjection(1..n, ids)
  <2>1. s \in Injection(1..n, ids)
    BY <1>2, <1>4 DEF Injection, IsInjective
  <2>2. Cardinality(1..n) = n
    BY <1>1, FS_Interval
  <2> QED
    BY <1>1, <2>1, <2>2, FS_Injection DEF n
<1> QED
  BY <1>1, <1>2, <1>3, <1>4, <1>5 DEF Surjection, n, s

-----------------------------------------------------------------------------
(* One lot *)

LEMMA MinOfThree ==
  ASSUME NEW a \in Nat, NEW b \in Nat, NEW c \in Nat
  PROVE  LET m == Min({a, b, c})
         IN  m \in {a, b, c} /\ m <= a /\ m <= b /\ m <= c
<1>1. \E x \in {a, b, c} : \A y \in {a, b, c} : x <= y
  <2>1. CASE a <= b /\ a <= c
    BY <2>1
  <2>2. CASE b <= a /\ b <= c
    BY <2>2
  <2>3. CASE c <= a /\ c <= b
    BY <2>3
  <2> QED
    BY <2>1, <2>2, <2>3
<1> QED
  BY <1>1 DEF Min

\* What a lot is, given how much of the bid is open: compatible rows, a quantity
\* within the listing's stock, bounds and the open quantity.
LEMMA LotFacts ==
  ASSUME NEW row \in ListingRow, NEW buy \in BidRow, NEW open \in Nat
  PROVE  LET kwh == computePartialMatch(row, buy, open)
         IN  /\ kwh \in Nat /\ kwh <= open /\ kwh <= row.avail
             /\ kwh > 0 => /\ isCompatible(row, buy, open) /\ kwh <= row.max
                           /\ kwh >= row.min \/ kwh = row.avail
<1>1. row.avail \in Nat /\ row.max \in Nat /\ row.min \in Nat
  BY DEF ListingRow
<1> DEFINE lot == Min({row.avail, open, row.max})
<1>2. lot \in Nat /\ lot <= row.avail /\ lot <= open /\ lot <= row.max
  BY <1>1, MinOfThree
<1>3. computePartialMatch(row, buy, open) =
        IF isCompatible(row, buy, open) /\ (lot >= row.min \/ lot = row.avail) THEN lot ELSE 0
  BY DEF computePartialMatch
<1> HIDE DEF lot
<1> QED
  BY <1>1, <1>2, <1>3

\* A listing that cannot serve a quantity cannot serve less.
LEMMA LotMonotone ==
  ASSUME NEW row \in ListingRow, NEW buy \in BidRow, NEW more \in Nat, NEW less \in Nat,
         less <= more, computePartialMatch(row, buy, more) = 0
  PROVE  computePartialMatch(row, buy, less) = 0
<1>1. row.avail \in Nat /\ row.max \in Nat /\ row.min \in Nat
  BY DEF ListingRow
<1> DEFINE big == Min({row.avail, more, row.max})
           small == Min({row.avail, less, row.max})
<1>2. /\ big \in {row.avail, more, row.max} /\ big <= row.avail /\ big <= more /\ big <= row.max
      /\ small \in {row.avail, less, row.max} /\ small <= row.avail /\ small <= less
      /\ small <= row.max
  BY <1>1, MinOfThree
<1>3. computePartialMatch(row, buy, more) =
        IF isCompatible(row, buy, more) /\ (big >= row.min \/ big = row.avail) THEN big ELSE 0
  BY DEF computePartialMatch
<1>4. computePartialMatch(row, buy, less) =
        IF isCompatible(row, buy, less) /\ (small >= row.min \/ small = row.avail) THEN small ELSE 0
  BY DEF computePartialMatch
<1>5. isCompatible(row, buy, less) => isCompatible(row, buy, more)
  BY DEF isCompatible
<1> HIDE DEF big, small
<1>6. small <= big
  BY <1>1, <1>2
<1>7. big \in Nat /\ small \in Nat
  BY <1>1, <1>2
<1>8. CASE isCompatible(row, buy, more) /\ big = 0 
  BY <1>4, <1>6, <1>7, <1>8
<1>9. CASE isCompatible(row, buy, more) /\ ~(big >= row.min \/ big = row.avail)
  BY <1>1, <1>2, <1>4, <1>6, <1>7, <1>9
<1>10. CASE ~isCompatible(row, buy, more)
  BY <1>4, <1>5, <1>10
<1> QED
  BY <1>3, <1>8, <1>9, <1>10

-----------------------------------------------------------------------------
(* The pass *)

Kwhs(plan) == [i \in DOMAIN plan |-> plan[i].kwh]
FillsOf(ids) == [listing : ids, kwh : Nat, price : Nat]

LEMMA KwhsType ==
  ASSUME NEW ids, NEW plan \in Seq(FillsOf(ids))
  PROVE  /\ Kwhs(plan) \in Seq(Nat) /\ Len(Kwhs(plan)) = Len(plan)
         /\ \A i \in 1..Len(plan) : Kwhs(plan)[i] = plan[i].kwh /\ plan[i].kwh \in Nat
         /\ DOMAIN plan = 1..Len(plan) /\ Len(plan) \in Nat
<1>1. DOMAIN plan = 1..Len(plan) /\ Len(plan) \in Nat
  BY LenProperties
<1>2. \A i \in 1..Len(plan) : plan[i] \in FillsOf(ids)
  BY ElementOfSeq
<1>3. \A i \in 1..Len(plan) : plan[i].kwh \in Nat
  BY <1>2 DEF FillsOf
<1>4. Kwhs(plan) = [i \in 1..Len(plan) |-> plan[i].kwh]
  BY <1>1 DEF Kwhs
<1> QED
  BY <1>1, <1>3, <1>4, IsASeq

\* l was passed over when `open` or more of the bid was open.
PassedOver(rows, buy, l, open) ==
  \E more \in Nat : more >= open /\ computePartialMatch(rows[l], buy, more) = 0

\* A plan is what a pass over the listings `done` makes, with `left` still open:
\* every listing is drawn on once, by a lot; what is drawn and what is left is
\* what was open; and a listing that was not drawn on had nothing to give when
\* its turn came.
PlanOK(buy, rows, left, plan, done) ==
  /\ plan \in Seq(FillsOf(done))
  /\ left \in Nat /\ Total(Kwhs(plan)) + left = buy.unm
  /\ \A i, j \in 1..Len(plan) : plan[i].listing = plan[j].listing => i = j
  /\ \A i \in 1..Len(plan) :
       /\ plan[i].kwh > 0 /\ plan[i].price = rows[plan[i].listing].price
       /\ \E open \in Nat : plan[i].kwh = computePartialMatch(rows[plan[i].listing], buy, open)
  /\ \A l \in done \ Named(plan) :
       /\ PassedOver(rows, buy, l, left)
       /\ \A i \in 1..Len(plan) : Before(rows, l, plan[i].listing)
                                    => PassedOver(rows, buy, l, plan[i].kwh + left)

LEMMA PassBegins ==
  ASSUME NEW buy \in BidRow, NEW rows
  PROVE  PlanOK(buy, rows, buy.unm, <<>>, {})
<1>1. <<>> \in Seq(FillsOf({})) /\ Len(<<>>) = 0
  BY EmptySeq
<1>2. Total(Kwhs(<<>>)) = 0
  BY <1>1, KwhsType, EmptyTotal
<1>3. buy.unm \in Nat
  BY DEF BidRow
<1>4. 1..0 = {}
  OBVIOUS
<1> HIDE DEF Kwhs
<1> QED
  BY <1>1, <1>2, <1>3, <1>4 DEF PlanOK

\* What the accumulator of the pass holds once it has been over `done`.
Passed(buy, rows, done, acc) ==
  /\ acc = [unmatched |-> acc.unmatched, fills |-> acc.fills]
  /\ PlanOK(buy, rows, acc.unmatched, acc.fills, done)

\* The next listing comes after those that were looked at.
LEMMA PassGoesOn ==
  ASSUME NEW buy \in BidRow, NEW rows, NEW done, NEW x, x \notin done,
         \A l \in done \cup {x} : rows[l] \in ListingRow,
         \A l \in done : ~Before(rows, x, l),
         NEW left, NEW plan, PlanOK(buy, rows, left, plan, done)
  PROVE  Passed(buy, rows, done \cup {x},
                Take(buy, rows, [unmatched |-> left, fills |-> plan], x))
<1> DEFINE kwh == computePartialMatch(rows[x], buy, left)
           fill == [listing |-> x, kwh |-> kwh, price |-> rows[x].price]
           acc == Take(buy, rows, [unmatched |-> left, fills |-> plan], x)
           all == done \cup {x}
<1>1. kwh \in Nat /\ kwh <= left /\ left \in Nat
  BY LotFacts DEF PlanOK
<1>2. /\ plan \in Seq(FillsOf(done)) /\ plan \in Seq(FillsOf(all)) /\ DOMAIN plan = 1..Len(plan)
      /\ Len(plan) \in Nat /\ \A i \in 1..Len(plan) : plan[i].listing \in done
      /\ \A i \in 1..Len(plan) : plan[i].kwh \in Nat
  <2>1. plan \in Seq(FillsOf(done)) /\ \A i \in 1..Len(plan) : plan[i] \in FillsOf(done)
    BY ElementOfSeq DEF PlanOK
  <2>2. FillsOf(done) \subseteq FillsOf(all)
    BY DEF FillsOf
  <2>3. plan \in Seq(FillsOf(all))
    <3>1. \A i \in 1..Len(plan) : plan[i] \in FillsOf(all)
      BY <2>1, <2>2
    <3>2. plan = [i \in 1..Len(plan) |-> plan[i]] /\ Len(plan) \in Nat
      BY <2>1, LenProperties, SeqDef
    <3> HIDE DEF all
    <3>3. [i \in 1..Len(plan) |-> plan[i]] \in Seq(FillsOf(all))
      BY <3>1, <3>2, IsASeq
    <3> QED
      BY <3>2, <3>3
  <2>4. \A i \in 1..Len(plan) : plan[i].listing \in done /\ plan[i].kwh \in Nat
    BY <2>1 DEF FillsOf
  <2> QED
    BY <2>1, <2>3, <2>4, LenProperties
<1>3. Named(plan) \subseteq done
  BY <1>2 DEF Named
<1>4. CASE kwh = 0
  <2>1. acc = [unmatched |-> left, fills |-> plan]
    BY <1>4 DEF Take
  <2>2. PassedOver(rows, buy, x, left)
    BY <1>1, <1>4 DEF PassedOver
  <2>3. \A i \in 1..Len(plan) : ~Before(rows, x, plan[i].listing)
    BY <1>2
  <2>4. \A l \in all \ Named(plan) : l = x \/ l \in done \ Named(plan)
    OBVIOUS
  <2> HIDE DEF acc, kwh, all
  <2>5. PlanOK(buy, rows, left, plan, all)
    BY <1>2, <2>2, <2>3, <2>4 DEF PlanOK
  <2> QED
    BY <2>1, <2>5 DEF acc, all, Passed
<1>5. CASE kwh > 0
  <2> DEFINE rest == left - kwh
             grown == Append(plan, fill)
  <2>1. acc = [unmatched |-> rest, fills |-> grown]
    BY <1>1, <1>5 DEF Take
  <2>2. rest \in Nat
    BY <1>1
  <2>3. fill \in FillsOf(all) /\ fill.listing = x /\ fill.kwh = kwh /\ fill.price = rows[x].price
    BY <1>1 DEF FillsOf, ListingRow
  <2> HIDE DEF acc, fill, all, kwh
  <2>4. /\ grown \in Seq(FillsOf(all)) /\ Len(grown) = Len(plan) + 1 /\ DOMAIN grown = 1..Len(grown)
        /\ \A i \in 1..Len(plan) : grown[i] = plan[i]
        /\ grown[Len(plan) + 1] = fill
    BY <1>2, <2>3, AppendProperties, LenProperties
  <2> HIDE DEF grown
  <2>5. \A i \in 1..Len(grown) : i \in 1..Len(plan) \/ i = Len(plan) + 1
    BY <1>2, <2>4
  <2>6. Total(Kwhs(grown)) = Total(Kwhs(plan)) + kwh /\ Total(Kwhs(plan)) \in Nat
    <3>1. Kwhs(plan) \in Seq(Nat) /\ Kwhs(grown) \in Seq(Nat) /\ Append(Kwhs(plan), kwh) \in Seq(Nat)
      BY <1>1, <1>2, <2>4, KwhsType, AppendProperties
    <3>2. /\ Len(Kwhs(grown)) = Len(plan) + 1 /\ Len(Append(Kwhs(plan), kwh)) = Len(plan) + 1
          /\ \A i \in 1..Len(grown) : Kwhs(grown)[i] = grown[i].kwh
          /\ \A i \in 1..Len(plan) : Append(Kwhs(plan), kwh)[i] = plan[i].kwh
          /\ Append(Kwhs(plan), kwh)[Len(plan) + 1] = kwh
      BY <1>1, <1>2, <2>4, KwhsType, AppendProperties
    <3>3. \A i \in 1..Len(grown) : Kwhs(grown)[i] = Append(Kwhs(plan), kwh)[i]
      BY <2>3, <2>4, <2>5, <3>2
    <3>4. Kwhs(grown) = Append(Kwhs(plan), kwh)
      BY <2>4, <3>1, <3>2, <3>3, SeqEqual
    <3> QED
      BY <1>1, <3>1, <3>4, AppendTotal, NatTotal
  <2>7. Total(Kwhs(grown)) + rest = buy.unm
    <3>1. Total(Kwhs(plan)) + left = buy.unm
      BY DEF PlanOK
    <3> QED
      BY <1>1, <2>6, <3>1
  <2>8. \A i, j \in 1..Len(grown) : grown[i].listing = grown[j].listing => i = j
    <3>1. \A i, j \in 1..Len(plan) : plan[i].listing = plan[j].listing => i = j
      BY DEF PlanOK
    <3>2. \A i \in 1..Len(plan) : plan[i].listing # x
      BY <1>2
    <3> QED
      BY <2>3, <2>4, <2>5, <3>1, <3>2
  <2>9. ASSUME NEW i \in 1..Len(grown)
        PROVE  /\ grown[i].kwh > 0 /\ grown[i].price = rows[grown[i].listing].price
               /\ \E open \in Nat :
                    grown[i].kwh = computePartialMatch(rows[grown[i].listing], buy, open)
    <3>1. CASE i \in 1..Len(plan)
      BY <2>4, <3>1 DEF PlanOK
    <3>2. CASE i = Len(plan) + 1
      BY <1>1, <1>5, <2>3, <2>4, <3>2 DEF kwh
    <3> QED
      BY <2>5, <3>1, <3>2
  <2>10. Named(grown) = Named(plan) \cup {x}
    BY <1>2, <2>3, <2>4, <2>5 DEF Named
  <2>11. ASSUME NEW l \in all \ Named(grown)
         PROVE  /\ PassedOver(rows, buy, l, rest)
                /\ \A i \in 1..Len(grown) : Before(rows, l, grown[i].listing)
                                              => PassedOver(rows, buy, l, grown[i].kwh + rest)
    <3>1. l \in done \ Named(plan)
      BY <2>10 DEF all
    <3>2. PICK more \in Nat : more >= left /\ computePartialMatch(rows[l], buy, more) = 0
      BY <3>1 DEF PlanOK, PassedOver
    <3>3. PassedOver(rows, buy, l, rest)
      BY <1>1, <3>2 DEF PassedOver
    <3>4. ASSUME NEW i \in 1..Len(plan), Before(rows, l, grown[i].listing)
          PROVE  PassedOver(rows, buy, l, grown[i].kwh + rest)
      <4>1. PICK m \in Nat : m >= plan[i].kwh + left /\ computePartialMatch(rows[l], buy, m) = 0
        BY <2>4, <3>1, <3>4 DEF PlanOK, PassedOver
      <4>2. m >= grown[i].kwh + rest
        BY <1>1, <1>2, <2>4, <4>1
      <4> QED
        BY <4>1, <4>2 DEF PassedOver
    <3>5. PassedOver(rows, buy, l, grown[Len(plan) + 1].kwh + rest)
      <4>1. grown[Len(plan) + 1].kwh + rest = left
        BY <1>1, <2>3, <2>4
      <4> QED
        BY <3>2, <4>1 DEF PassedOver
    <3> QED
      BY <2>5, <3>3, <3>4, <3>5
  <2>12. PlanOK(buy, rows, rest, grown, all)
    <3> HIDE DEF rest
    <3> QED
      BY <2>2, <2>4, <2>7, <2>8, <2>9, <2>11 DEF PlanOK
  <2> QED
    BY <2>1, <2>12 DEF acc, all, Passed
<1> QED
  BY <1>1, <1>4, <1>5

\* One listing of the pass leaves an accumulator of the same shape.
Accumulators(ids) == [unmatched : Nat, fills : Seq(FillsOf(ids))]

LEMMA TakeType ==
  ASSUME NEW buy \in BidRow, NEW rows, NEW ids, NEW x \in ids, rows[x] \in ListingRow,
         NEW acc \in Accumulators(ids)
  PROVE  Take(buy, rows, acc, x) \in Accumulators(ids)
<1> DEFINE kwh == computePartialMatch(rows[x], buy, acc.unmatched)
           fill == [listing |-> x, kwh |-> kwh, price |-> rows[x].price]
<1>1. acc.unmatched \in Nat /\ acc.fills \in Seq(FillsOf(ids))
  BY DEF Accumulators
<1>2. kwh \in Nat /\ kwh <= acc.unmatched
  BY <1>1, LotFacts
<1>3. fill \in FillsOf(ids)
  BY <1>2 DEF FillsOf, ListingRow
<1>4. Take(buy, rows, acc, x) =
        IF kwh <= 0 THEN acc ELSE [unmatched |-> acc.unmatched - kwh, fills |-> Append(acc.fills, fill)]
  BY DEF Take
<1> HIDE DEF kwh, fill
<1>5. Append(acc.fills, fill) \in Seq(FillsOf(ids)) /\ acc.unmatched - kwh \in Nat
  BY <1>1, <1>2, <1>3, AppendProperties
<1> QED
  BY <1>4, <1>5 DEF Accumulators

\* What the planner returns, whatever the rows: a plan over all the listings.
LEMMA PlanMade ==
  ASSUME NEW buy \in BidRow, NEW rows, NEW ids, IsFiniteSet(ids), ids \subseteq Int,
         \A l \in ids : rows[l] \in ListingRow
  PROVE  \E left : PlanOK(buy, rows, left, matchBidAgainstListings(buy, rows, ids), ids)
<1> DEFINE m == Cardinality(ids)
           sorted == sortListingsForMatching(rows, ids)
           first == [unmatched |-> buy.unm, fills |-> <<>>]
           Passes(f) == f = [n \in 0..m |-> IF n = 0 THEN first
                                            ELSE Take(buy, rows, f[n - 1], sorted[n])]
           V == Accumulators(ids)
<1>1. Priced(rows, ids)
  BY DEF Priced, ListingRow
<1>2. /\ m \in Nat /\ sorted \in [1..m -> ids]
      /\ \A i, j \in 1..m : i < j => Before(rows, sorted[i], sorted[j])
      /\ \A i, j \in 1..m : sorted[i] = sorted[j] => i = j
      /\ \A x \in ids : \E i \in 1..m : sorted[i] = x
  BY <1>1, SortedFacts
<1>3. matchBidAgainstListings(buy, rows, ids) = (CHOOSE f : Passes(f))[m].fills
  BY DEF matchBidAgainstListings
<1>4. first \in V
  BY EmptySeq DEF Accumulators, BidRow
<1> HIDE DEF sorted, first, m
<1>5. \E f : Passes(f) /\ f \in [0..m -> V]
  <2> DEFINE step == [p \in (1..m) \X V |-> Take(buy, rows, p[2], sorted[p[1]])]
  <2>1. step \in [(1..m) \X V -> V]
    <3>1. ASSUME NEW p \in (1..m) \X V
          PROVE  Take(buy, rows, p[2], sorted[p[1]]) \in V
      <4>1. p[1] \in 1..m /\ p[2] \in V
        OBVIOUS
      <4>2. sorted[p[1]] \in ids /\ rows[sorted[p[1]]] \in ListingRow
        BY <1>2, <4>1
      <4> QED
        BY <4>1, <4>2, TakeType
    <3> HIDE DEF V
    <3> QED
      BY <3>1
  <2> HIDE DEF V
  <2>2. \A n \in 1..m, v \in V : step[<<n, v>>] = Take(buy, rows, v, sorted[n])
    OBVIOUS
  <2> HIDE DEF step
  <2>3. PICK f : f \in [0..m -> V] /\ Iterates(f, m, first, step)
    <3>1. m \in Nat
      BY <1>2
    <3>2. first \in V
      BY <1>4
    <3> HIDE DEF step
    <3> QED
      BY <2>1, <3>1, <3>2, RecursionExists
  <2>4. ASSUME NEW n \in 0..m
        PROVE  f[n] = IF n = 0 THEN first ELSE Take(buy, rows, f[n - 1], sorted[n])
    <3>1. n = 0 \/ (n \in 1..m /\ n - 1 \in 0..m)
      BY <1>2
    <3> QED
      BY <2>2, <2>3, <3>1 DEF Iterates
  <2>5. f = [n \in 0..m |-> IF n = 0 THEN first ELSE Take(buy, rows, f[n - 1], sorted[n])]
    BY <2>3, <2>4
  <2> QED
    BY <2>3, <2>5
<1>6. PICK f : Passes(f) /\ f = CHOOSE g : Passes(g)
  BY <1>5
<1>7. /\ f[0] = first
      /\ \A n \in 1..m : f[n] = Take(buy, rows, f[n - 1], sorted[n])
  BY <1>2, <1>6
<1> HIDE DEF Passes, V
<1> DEFINE Done(n) == {sorted[k] : k \in 1..n}
           Good(n) == /\ f[n] = [unmatched |-> f[n].unmatched, fills |-> f[n].fills]
                      /\ PlanOK(buy, rows, f[n].unmatched, f[n].fills, Done(n))
           S == {n \in Nat : n <= m => Good(n)}
<1>8. 0 \in S
  <2>1. f[0].unmatched = buy.unm /\ f[0].fills = <<>>
    BY <1>7 DEF first
  <2>2. Done(0) = {}
    OBVIOUS
  <2> HIDE DEF Done
  <2>3. f[0] = [unmatched |-> f[0].unmatched, fills |-> f[0].fills]
    BY <1>7, <2>1 DEF first
  <2> QED
    BY <2>1, <2>2, <2>3, PassBegins
<1>9. ASSUME NEW n \in Nat, n \in S
      PROVE  n + 1 \in S
  <2> SUFFICES ASSUME n + 1 <= m PROVE Good(n + 1)
    OBVIOUS
  <2> DEFINE x == sorted[n + 1]
             left == f[n].unmatched
             plan == f[n].fills
  <2>1. n + 1 \in 1..m /\ n <= m /\ \A k \in 1..n : k \in 1..m /\ k < n + 1
    BY <1>2
  <2>2. Good(n)
    BY <1>9, <2>1
  <2>3. f[n] = [unmatched |-> left, fills |-> plan] /\ PlanOK(buy, rows, left, plan, Done(n))
    BY <2>2
  <2>4. f[n + 1] = Take(buy, rows, [unmatched |-> left, fills |-> plan], x)
    BY <1>7, <2>1, <2>3
  <2>5. x \in ids /\ Done(n) \subseteq ids
    BY <1>2, <2>1
  <2>6. x \notin Done(n)
    BY <1>2, <2>1
  <2>7. \A l \in Done(n) : ~Before(rows, x, l)
    <3> SUFFICES ASSUME NEW k \in 1..n PROVE ~Before(rows, x, sorted[k])
      OBVIOUS
    <3>1. Before(rows, sorted[k], x) /\ sorted[k] \in ids
      BY <1>2, <2>1
    <3> HIDE DEF x
    <3> QED
      BY <1>1, <2>5, <3>1, BeforeIsOrder
  <2>8. Done(n + 1) = Done(n) \cup {x}
    <3>1. \A k : k \in 1..(n + 1) <=> k \in 1..n \/ k = n + 1
      OBVIOUS
    <3> QED
      BY <3>1
  <2> HIDE DEF Done, x, left, plan
  <2>9. \A l \in Done(n) \cup {x} : rows[l] \in ListingRow
    BY <2>5
  <2>10. Passed(buy, rows, Done(n) \cup {x},
                Take(buy, rows, [unmatched |-> left, fills |-> plan], x))
    BY <2>3, <2>6, <2>7, <2>9, PassGoesOn
  <2> QED
    BY <2>4, <2>8, <2>10 DEF Passed
<1> HIDE DEF S
<1>10. m \in S
  BY <1>2, <1>8, <1>9, SetInduction
<1>11. PlanOK(buy, rows, f[m].unmatched, f[m].fills, Done(m))
  BY <1>2, <1>10 DEF S
<1>12. Done(m) = ids
  <2>1. \A y \in Done(m) : y \in ids
    BY <1>2
  <2>2. \A y \in ids : y \in Done(m)
    BY <1>2
  <2> HIDE DEF Done
  <2> QED
    BY <2>1, <2>2
<1> HIDE DEF Done
<1> QED
  BY <1>3, <1>6, <1>11, <1>12

-----------------------------------------------------------------------------
(* The bid while its plan is written *)

Advanced(row, s) == [row EXCEPT !.unm = row.unm - s, !.mat = row.mat + s]

LEMMA WorkingBids ==
  ASSUME NEW row \in BidRow, NEW ids, NEW plan \in Seq(FillsOf(ids)), NEW n \in 0..Len(plan)
  PROVE  \E s \in Nat :
           /\ s <= Total(Kwhs(plan)) /\ (n = Len(plan) => s = Total(Kwhs(plan)))
           /\ WorkingBid(row, plan, n) = Advanced(row, s)
<1>1. /\ Kwhs(plan) \in Seq(Nat) /\ Len(Kwhs(plan)) = Len(plan) /\ Len(plan) \in Nat
      /\ \A i \in 1..Len(plan) : Kwhs(plan)[i] = plan[i].kwh /\ plan[i].kwh \in Nat
  BY KwhsType
<1>2. PICK f : PartialSums(f, Kwhs(plan), Len(plan))
  BY <1>1, SumsExist
<1>3. /\ \A k \in 0..Len(plan) : f[k] \in Nat /\ f[k] <= f[Len(plan)]
      /\ f[Len(plan)] = Total(Kwhs(plan))
  BY <1>1, <1>2, SumsGrow, TotalIs
<1>4. f[0] = 0 /\ \A k \in 1..Len(plan) : f[k] = f[k - 1] + plan[k].kwh
  <2>1. f[0] = 0
    BY <1>1, <1>2 DEF PartialSums
  <2>2. \A k \in 1..Len(plan) : k \in 0..Len(plan) /\ k # 0
    BY <1>1
  <2> QED
    BY <1>1, <1>2, <2>1, <2>2 DEF PartialSums
<1>5. row.unm \in Nat /\ row.mat \in Nat
  BY DEF BidRow
<1> DEFINE At(k) == [row EXCEPT !.unm = row.unm - f[k], !.mat = row.mat + f[k]]
           IsAfter(g) == g = [k \in 0..n |-> IF k = 0 THEN row
                                             ELSE applyBidFill(g[k - 1], plan[k].kwh)]
           after == [k \in 0..n |-> At(k)]
<1>6. WorkingBid(row, plan, n) = (CHOOSE g : IsAfter(g))[n]
  BY DEF WorkingBid
<1>7. \A k \in 1..n : k \in 1..Len(plan) /\ k - 1 \in 0..n /\ k \in 0..n
  BY <1>1
<1>8. At(0) = row
  <2>1. row.unm - f[0] = row.unm /\ row.mat + f[0] = row.mat
    BY <1>4, <1>5
  <2>2. [row EXCEPT !.unm = row.unm, !.mat = row.mat] = row
    BY DEF BidRow
  <2> QED
    BY <2>1, <2>2
<1>9. ASSUME NEW k \in 1..n
      PROVE  At(k) = applyBidFill(At(k - 1), plan[k].kwh)
  <2>1. f[k] = f[k - 1] + plan[k].kwh /\ f[k] \in Nat /\ f[k - 1] \in Nat /\ plan[k].kwh \in Nat
    BY <1>1, <1>3, <1>4, <1>7
  <2>2. \A u, m : [row EXCEPT !.unm = u, !.mat = m].unm = u /\ [row EXCEPT !.unm = u, !.mat = m].mat = m
    BY DEF BidRow
  <2>3. row.unm - f[k] = (row.unm - f[k - 1]) - plan[k].kwh
    BY <1>5, <2>1
  <2>4. row.mat + f[k] = (row.mat + f[k - 1]) + plan[k].kwh
    BY <1>5, <2>1
  <2>5. \A u, m, v, w : [[row EXCEPT !.unm = u, !.mat = m] EXCEPT !.unm = v, !.mat = w]
                          = [row EXCEPT !.unm = v, !.mat = w]
    BY DEF BidRow
  <2>6. applyBidFill(At(k - 1), plan[k].kwh)
          = [At(k - 1) EXCEPT !.unm = (row.unm - f[k - 1]) - plan[k].kwh,
                              !.mat = (row.mat + f[k - 1]) + plan[k].kwh]
    BY <2>2 DEF applyBidFill
  <2> QED
    BY <2>3, <2>4, <2>5, <2>6
<1> HIDE DEF At
<1>10. IsAfter(after)
  <2>1. ASSUME NEW k \in 0..n
        PROVE  At(k) = IF k = 0 THEN row ELSE applyBidFill(after[k - 1], plan[k].kwh)
    <3>1. k = 0 \/ k \in 1..n
      BY <1>1
    <3>2. k \in 1..n => after[k - 1] = At(k - 1)
      BY <1>7
    <3> HIDE DEF after
    <3> QED
      BY <1>8, <1>9, <3>1, <3>2
  <2> QED
    BY <2>1
<1>11. ASSUME NEW g, IsAfter(g)
       PROVE  g[n] = At(n)
  <2> DEFINE S == {k \in Nat : k <= n => g[k] = At(k)}
  <2>1. g[0] = row /\ \A k \in 1..n : g[k] = applyBidFill(g[k - 1], plan[k].kwh)
    <3>1. 0 \in 0..n /\ \A k \in 1..n : k # 0 /\ k \in 0..n
      BY <1>1
    <3>2. ASSUME NEW k \in 0..n
          PROVE  g[k] = IF k = 0 THEN row ELSE applyBidFill(g[k - 1], plan[k].kwh)
      BY <1>11
    <3> HIDE DEF IsAfter
    <3> QED
      BY <3>1, <3>2
  <2>2. 0 \in S
    BY <1>8, <2>1
  <2>3. ASSUME NEW k \in Nat, k \in S
        PROVE  k + 1 \in S
    <3> SUFFICES ASSUME k + 1 <= n PROVE g[k + 1] = At(k + 1)
      OBVIOUS
    <3>1. k + 1 \in 1..n /\ (k + 1) - 1 = k /\ g[k] = At(k)
      BY <1>1, <2>3
    <3> QED
      BY <1>9, <2>1, <3>1
  <2> HIDE DEF S
  <2>4. n \in S
    BY <1>1, <2>2, <2>3, SetInduction
  <2> QED
    BY <1>1, <2>4 DEF S
<1> HIDE DEF IsAfter, after
<1>12. WorkingBid(row, plan, n) = At(n)
  BY <1>6, <1>10, <1>11
<1> QED
  BY <1>3, <1>12 DEF At, Advanced

-----------------------------------------------------------------------------
(* The tables, with the two facts that are invariant of each row *)

ListingsOK == \A l \in ListingIds : listing[l] # None =>
                listing[l] \in ListingRow /\ Sound(listing[l])
BidsOK == \A b \in BidIds : bid[b] # None => bid[b] \in BidRow /\ BidSound(bid[b])

\* What the three properties say, row by row.
BookOK ==
  /\ now \in 0..MaxTime
  /\ req \in [Requests -> Request]
  /\ DOMAIN listing = ListingIds /\ listing = [l \in ListingIds |-> listing[l]]
  /\ DOMAIN bid = BidIds /\ bid = [b \in BidIds |-> bid[b]]
  /\ ListingsOK
  /\ BidsOK

\* What a request is about to write names a row that exists.  Without it the
\* invariant is not inductive: expireIfNeeded, expireBidIfNeeded and cancelBid
\* write by id alone, long after they looked.
ReqOK == \A r \in Requests :
  /\ req[r].pc \in {"expireListing", "cancelListing", "patch"} => listing[req[r].id] # None
  /\ req[r].pc \in {"expireBid", "cancelBid"} => bid[req[r].id] # None

IInv == BookOK /\ ReqOK

LEMMA IInvImplies == IInv => QuantityIdentity /\ StatusTellsQuantity
<1>1. IInv => QuantityIdentity
  BY DEF IInv, BookOK, QuantityIdentity, ListingsOK, BidsOK, Sound, Intact, BidSound
<1>2. IInv => StatusTellsQuantity
  BY DEF IInv, BookOK, StatusTellsQuantity, ListingsOK, BidsOK, Sound, WordFits,
         BidSound, BidWordFits
<1> QED
  BY <1>1, <1>2

LEMMA InitIInv == Init => IInv
BY BookAssumption DEF Init, IInv, BookOK, ReqOK, ListingsOK, BidsOK, Idle, Request,
                      BookAssumption

-----------------------------------------------------------------------------
(* The parts of a step: what may be written without losing the invariant *)

\* A step leaves good rows, and none disappears.
ListingsGo ==
  /\ DOMAIN listing' = ListingIds
  /\ listing' = [l \in ListingIds |-> listing'[l]]
  /\ ListingsOK'
  /\ \A l \in ListingIds : listing[l] # None => listing'[l] # None

BidsGo ==
  /\ DOMAIN bid' = BidIds
  /\ bid' = [b \in BidIds |-> bid'[b]]
  /\ BidsOK'
  /\ \A b \in BidIds : bid[b] # None => bid'[b] # None

\* Replacing one listing row by a sound one, or by itself.
LEMMA ListingWrite ==
  ASSUME BookOK, NEW l \in ListingIds, NEW row \in ListingRow, Sound(row),
         listing' = [listing EXCEPT ![l] = row]
  PROVE  ListingsGo
BY NoneAssumption DEF BookOK, ListingsOK, ListingsGo

LEMMA ListingsSame ==
  ASSUME BookOK, UNCHANGED listing
  PROVE  ListingsGo
BY DEF BookOK, ListingsOK, ListingsGo

LEMMA BidWrite ==
  ASSUME BookOK, NEW b \in BidIds, NEW row \in BidRow, BidSound(row),
         bid' = [bid EXCEPT ![b] = row]
  PROVE  BidsGo
BY NoneAssumption DEF BookOK, BidsOK, BidsGo

LEMMA BidsSame ==
  ASSUME BookOK, UNCHANGED bid
  PROVE  BidsGo
BY DEF BookOK, BidsOK, BidsGo

\* A status write made by id alone, long after the read that justified it: the
\* row may have changed, but rows never disappear.
LEMMA ListingStatusWrite ==
  ASSUME BookOK, NEW l \in ListingIds, NEW s \in {"EXPIRED", "CANCELLED"}, listing[l] # None,
         listing' = [listing EXCEPT ![l].status = s]
  PROVE  ListingsGo
<1> DEFINE row == [listing[l] EXCEPT !.status = s]
<1>1. row \in ListingRow /\ Sound(row)
  BY ClosedRow DEF BookOK, ListingsOK
<1>2. listing' = [listing EXCEPT ![l] = row]
  OBVIOUS
<1> HIDE DEF row
<1> QED
  BY <1>1, <1>2, ListingWrite

LEMMA BidStatusWrite ==
  ASSUME BookOK, NEW b \in BidIds, NEW s \in {"EXPIRED", "CANCELLED"}, bid[b] # None,
         bid' = [bid EXCEPT ![b].status = s]
  PROVE  BidsGo
<1> DEFINE row == [bid[b] EXCEPT !.status = s]
<1>1. row \in BidRow /\ BidSound(row)
  BY ClosedBidRow DEF BookOK, BidsOK
<1>2. bid' = [bid EXCEPT ![b] = row]
  OBVIOUS
<1> HIDE DEF row
<1> QED
  BY <1>1, <1>2, BidWrite

\* The whole fill loop: each named listing is rewritten by Filled, the bid by
\* its last fill, and the checks of the loop vouch for every row written.
LEMMA FillsPreserve ==
  ASSUME BookOK, NEW b \in BidIds, NEW row \in BidRow, NEW plan,
         persistFills(b, row, plan)
  PROVE  ListingsGo /\ BidsGo
<1> DEFINE last == WorkingBid(row, plan, Len(plan))
           new == [row EXCEPT !.unm = last.unm, !.mat = last.mat,
                              !.status = bidStatusAfterFill(last.unm, last.mat)]
<1>1. FillsAccepted(row, plan)
  BY DEF persistFills
<1>2. ASSUME NEW l \in ListingIds, l \in Named(plan)
      PROVE  /\ Filled(listing[l], FillOf(plan, l)) \in ListingRow
             /\ Sound(Filled(listing[l], FillOf(plan, l)))
  <2>1. listing[l] \in ListingRow
    BY <1>1, <1>2 DEF FillsAccepted, loadMatchableListings, BookOK, ListingsOK
  <2>2. Intact(applyFill(listing[l], FillOf(plan, l)))
    BY <1>1, <1>2 DEF FillsAccepted, Intact
  <2> QED
    BY <2>1, <2>2, FilledRow
<1>3. listing' = [l \in ListingIds |-> IF l \in Named(plan)
                                      THEN Filled(listing[l], FillOf(plan, l))
                                      ELSE listing[l]]
  BY DEF persistFills
<1>4. ListingsGo
  BY <1>2, <1>3, NoneAssumption DEF BookOK, ListingsOK, ListingsGo
<1>5. checkBidQuantity(row.req, last.unm, last.mat)
  BY <1>1 DEF FillsAccepted
<1>6. new \in BidRow /\ BidSound(new)
  BY <1>5, BidRowAfterFills
<1>7. bid' = [bid EXCEPT ![b] = new]
  BY DEF persistFills
<1> HIDE DEF new
<1> QED
  BY <1>4, <1>6, <1>7, BidWrite

\* Rows never disappear, so what a request is about to write stays there.
LEMMA ReqKeeps ==
  ASSUME IInv, UNCHANGED req, ListingsGo, BidsGo
  PROVE  req' \in [Requests -> Request] /\ ReqOK'
<1>1. req' \in [Requests -> Request]
  BY DEF IInv, BookOK
<1>2. ASSUME NEW q \in Requests
      PROVE  /\ req'[q].pc \in {"expireListing", "cancelListing", "patch"} =>
                  listing'[req'[q].id] # None
             /\ req'[q].pc \in {"expireBid", "cancelBid"} => bid'[req'[q].id] # None
  BY DEF IInv, BookOK, ReqOK, Request, Idle, ListingsGo, BidsGo
<1> QED
  BY <1>1, <1>2 DEF ReqOK

\* A request that begins remembers a row that is there.
LEMMA ReqBegins ==
  ASSUME IInv, UNCHANGED <<listing, bid>>, NEW r \in Requests, NEW q \in Request,
         q.pc \in {"expireListing", "cancelListing", "patch"} => listing[q.id] # None,
         q.pc \in {"expireBid", "cancelBid"} => bid[q.id] # None,
         req' = [req EXCEPT ![r] = q]
  PROVE  req' \in [Requests -> Request] /\ ReqOK'
BY DEF IInv, BookOK, ReqOK

\* A request that ends leaves the others with their rows.
LEMMA ReqEnds ==
  ASSUME IInv, NEW r \in Requests, req' = [req EXCEPT ![r] = Idle],
         ListingsGo, BidsGo
  PROVE  req' \in [Requests -> Request] /\ ReqOK'
<1>1. req' \in [Requests -> Request]
  BY DEF IInv, BookOK, Request
<1>2. ASSUME NEW q \in Requests
      PROVE  /\ req'[q].pc \in {"expireListing", "cancelListing", "patch"} =>
                  listing'[req'[q].id] # None
             /\ req'[q].pc \in {"expireBid", "cancelBid"} => bid'[req'[q].id] # None
  BY DEF IInv, BookOK, ReqOK, Request, Idle, ListingsGo, BidsGo
<1> QED
  BY <1>1, <1>2 DEF ReqOK

-----------------------------------------------------------------------------
(* One lemma per handler *)

\* A handler that only looks: it ends with a request that holds what it saw.
LEMMA ReadersPreserve ==
  ASSUME IInv, NEW r \in Requests,
         \/ \E l \in ListingIds : readLapsedListing(r, l)
         \/ \E l \in ListingIds, p \in Patches : readForUpdate(r, l, p)
         \/ \E l \in ListingIds : readForCancel(r, l)
         \/ \E b \in BidIds : readLapsedBid(r, b)
         \/ \E b \in BidIds : readBidForCancel(r, b)
  PROVE  IInv'
<1>1. UNCHANGED <<listing, bid, now>>
  BY DEF readLapsedListing, readForUpdate, readForCancel, readLapsedBid, readBidForCancel
<1>2. req' \in [Requests -> Request] /\ ReqOK'
  <2>1. CASE \E l \in ListingIds : readLapsedListing(r, l)
    <3>1. PICK l \in ListingIds : readLapsedListing(r, l)
      BY <2>1
    <3> DEFINE q == [pc |-> "expireListing", id |-> l]
    <3>2. q \in Request
      BY DEF Request
    <3>3. listing[l] # None /\ req' = [req EXCEPT ![r] = q]
      BY <3>1 DEF readLapsedListing, ListingLapsed
    <3> QED
      BY <1>1, <3>2, <3>3, ReqBegins
  <2>2. CASE \E l \in ListingIds, p \in Patches : readForUpdate(r, l, p)
    <3>1. PICK l \in ListingIds, p \in Patches : readForUpdate(r, l, p)
      BY <2>2
    <3> DEFINE from == Given(p.from, listing[l].from)
               until == Given(p.until, listing[l].until)
               q == [pc |-> "patch", id |-> l, body |-> p, from |-> from, until |-> until]
    <3>2. listing[l] # None /\ req' = [req EXCEPT ![r] = q]
      BY <3>1 DEF readForUpdate
    <3>3. listing[l].from \in Nat /\ listing[l].until \in Nat
      BY <3>2 DEF IInv, BookOK, ListingsOK, ListingRow
    <3>4. from \in Nat /\ until \in Nat
      BY <3>3, BookAssumption DEF BookAssumption, PatchShape, Given
    <3> HIDE DEF from, until
    <3>5. q \in Request
      BY <3>4 DEF Request
    <3> QED
      BY <1>1, <3>2, <3>5, ReqBegins
  <2>3. CASE \E l \in ListingIds : readForCancel(r, l)
    <3>1. PICK l \in ListingIds : readForCancel(r, l)
      BY <2>3
    <3> DEFINE q == [pc |-> "cancelListing", id |-> l]
    <3>2. q \in Request
      BY DEF Request
    <3>3. listing[l] # None /\ req' = [req EXCEPT ![r] = q]
      BY <3>1 DEF readForCancel
    <3> QED
      BY <1>1, <3>2, <3>3, ReqBegins
  <2>4. CASE \E b \in BidIds : readLapsedBid(r, b)
    <3>1. PICK b \in BidIds : readLapsedBid(r, b)
      BY <2>4
    <3> DEFINE q == [pc |-> "expireBid", id |-> b]
    <3>2. q \in Request
      BY DEF Request
    <3>3. bid[b] # None /\ req' = [req EXCEPT ![r] = q]
      BY <3>1 DEF readLapsedBid
    <3> QED
      BY <1>1, <3>2, <3>3, ReqBegins
  <2>5. CASE \E b \in BidIds : readBidForCancel(r, b)
    <3>1. PICK b \in BidIds : readBidForCancel(r, b)
      BY <2>5
    <3> DEFINE q == [pc |-> "cancelBid", id |-> b]
    <3>2. q \in Request
      BY DEF Request
    <3>3. bid[b] # None /\ req' = [req EXCEPT ![r] = q]
      BY <3>1 DEF readBidForCancel
    <3> QED
      BY <1>1, <3>2, <3>3, ReqBegins
  <2> QED
    BY <2>1, <2>2, <2>3, <2>4, <2>5
<1>3. ListingsGo /\ BidsGo
  BY <1>1, ListingsSame, BidsSame DEF IInv
<1> QED
  BY <1>1, <1>2, <1>3 DEF IInv, BookOK, ListingsGo, BidsGo

LEMMA RequestIs ==
  ASSUME NEW q \in Request
  PROVE  /\ q.pc \in {"expireListing", "cancelListing", "patch"} => q.id \in ListingIds
         /\ q.pc \in {"expireBid", "cancelBid"} => q.id \in BidIds
         /\ q.pc = "patch" => q \in PatchRequest
<1>1. CASE q = Idle
  BY <1>1 DEF Idle
<1>2. CASE q \in [pc : {"expireListing", "cancelListing"}, id : ListingIds]
  BY <1>2
<1>3. CASE q \in [pc : {"expireBid", "cancelBid"}, id : BidIds]
  BY <1>3
<1>4. CASE q \in [pc : {"patch"}, id : ListingIds, body : Patches, from : Nat, until : Nat]
  <2>1. q.pc = "patch" /\ q.id \in ListingIds
    BY <1>4
  <2>2. q \in PatchRequest
    BY <1>4 DEF PatchRequest
  <2> QED
    BY <2>1, <2>2
<1> QED
  BY <1>1, <1>2, <1>3, <1>4 DEF Request

\* The second half of a request: every write it may make, stale or not.
LEMMA WritersPreserve ==
  ASSUME IInv, NEW r \in Requests,
         \/ expireIfNeeded(r) \/ updateListing(r) \/ cancelListing(r)
         \/ expireBidIfNeeded(r) \/ cancelBid(r)
  PROVE  IInv'
<1> DEFINE id == req[r].id
<1>1. req' = [req EXCEPT ![r] = Idle] /\ now' = now
  BY DEF expireIfNeeded, updateListing, cancelListing, expireBidIfNeeded, cancelBid
<1>2. ListingsGo /\ BidsGo
  <2>1. CASE expireIfNeeded(r)
    <3>1. id \in ListingIds /\ listing[id] # None
      BY <2>1, RequestIs DEF expireIfNeeded, IInv, BookOK, ReqOK
    <3>2. listing' = [listing EXCEPT ![id].status = "EXPIRED"] /\ UNCHANGED bid
      BY <2>1 DEF expireIfNeeded
    <3> QED
      BY <3>1, <3>2, ListingStatusWrite, BidsSame DEF IInv
  <2>2. CASE updateListing(r)
    <3> DEFINE row == Patched(listing[id], req[r])
    <3>1. id \in ListingIds /\ listing[id] # None /\ req[r] \in PatchRequest
      BY <2>2, RequestIs DEF updateListing, IInv, BookOK, ReqOK
    <3>2. UNCHANGED bid
      BY <2>2 DEF updateListing
    <3>3. CASE /\ listing' = [listing EXCEPT ![id] = row] /\ Intact(row)
               /\ listing[id].status \in EDITABLE_STATUSES
      <4>1. row \in ListingRow /\ Sound(row)
        BY <3>1, <3>3, PatchedRow DEF IInv, BookOK, ListingsOK
      <4> HIDE DEF row, id
      <4> QED
        BY <3>1, <3>2, <3>3, <4>1, ListingWrite, BidsSame DEF IInv
    <3>4. CASE UNCHANGED listing
      BY <3>2, <3>4, ListingsSame, BidsSame DEF IInv
    <3> QED
      BY <2>2, <3>3, <3>4 DEF updateListing, Intact
  <2>3. CASE cancelListing(r)
    <3>1. id \in ListingIds /\ listing[id] # None
      BY <2>3, RequestIs DEF cancelListing, IInv, BookOK, ReqOK
    <3>2. UNCHANGED bid
      BY <2>3 DEF cancelListing
    <3>3. CASE listing' = [listing EXCEPT ![id].status = "CANCELLED"]
      BY <3>1, <3>2, <3>3, ListingStatusWrite, BidsSame DEF IInv
    <3>4. CASE UNCHANGED listing
      BY <3>2, <3>4, ListingsSame, BidsSame DEF IInv
    <3> QED
      BY <2>3, <3>3, <3>4 DEF cancelListing
  <2>4. CASE expireBidIfNeeded(r)
    <3>1. id \in BidIds /\ bid[id] # None
      BY <2>4, RequestIs DEF expireBidIfNeeded, IInv, BookOK, ReqOK
    <3>2. bid' = [bid EXCEPT ![id].status = "EXPIRED"] /\ UNCHANGED listing
      BY <2>4 DEF expireBidIfNeeded
    <3> QED
      BY <3>1, <3>2, BidStatusWrite, ListingsSame DEF IInv
  <2>5. CASE cancelBid(r)
    <3>1. id \in BidIds /\ bid[id] # None
      BY <2>5, RequestIs DEF cancelBid, IInv, BookOK, ReqOK
    <3>2. bid' = [bid EXCEPT ![id].status = "CANCELLED"] /\ UNCHANGED listing
      BY <2>5 DEF cancelBid
    <3> QED
      BY <3>1, <3>2, BidStatusWrite, ListingsSame DEF IInv
  <2> QED
    BY <2>1, <2>2, <2>3, <2>4, <2>5
<1>3. req' \in [Requests -> Request] /\ ReqOK'
  BY <1>1, <1>2, ReqEnds
<1> QED
  BY <1>1, <1>2, <1>3 DEF IInv, BookOK, ListingsGo, BidsGo

\* The handlers that are one transaction from end to end.
LEMMA TransactionsPreserve ==
  ASSUME IInv,
         \/ \E l \in ListingIds, u \in Users, o \in Offers : createListing(l, u, o)
         \/ \E b \in BidIds, u \in Users, o \in Orders : createBidAndMatch(b, u, o)
         \/ \E b \in BidIds : rematchOpenBid(b)
  PROVE  IInv'
<1>1. UNCHANGED <<req, now>>
  BY DEF createListing, createBidAndMatch, rematchOpenBid
<1>2. ListingsGo /\ BidsGo
  <2>1. ASSUME NEW l \in ListingIds, NEW u \in Users, NEW o \in Offers, createListing(l, u, o)
        PROVE  ListingsGo /\ BidsGo
    <3> DEFINE row == [seller |-> u, market |-> o.market, price |-> o.price,
                       from |-> o.from, until |-> o.until, createdAt |-> now,
                       orig |-> o.kwh, avail |-> o.kwh, sold |-> 0,
                       min |-> o.min, max |-> o.max, status |-> "ACTIVE"]
    <3>1. row \in ListingRow
      BY NewListingRow DEF IInv, BookOK
    <3>2. Sound(row)
      BY <2>1, BookAssumption
         DEF createListing, Sound, Intact, WordFits, BookAssumption, OfferShape
    <3>3. listing' = [listing EXCEPT ![l] = row] /\ UNCHANGED bid
      BY <2>1 DEF createListing
    <3> HIDE DEF row
    <3> QED
      BY <3>1, <3>2, <3>3, ListingWrite, BidsSame DEF IInv
  <2>2. ASSUME NEW b \in BidIds, NEW u \in Users, NEW o \in Orders, createBidAndMatch(b, u, o)
        PROVE  ListingsGo /\ BidsGo
    <3>1. persistFills(b, NewBid(u, o), PlanFor(NewBid(u, o)))
      BY <2>2 DEF createBidAndMatch
    <3>2. NewBid(u, o) \in BidRow
      BY NewBidRow
    <3> QED
      BY <3>1, <3>2, FillsPreserve DEF IInv
  <2>3. ASSUME NEW b \in BidIds, rematchOpenBid(b)
        PROVE  ListingsGo /\ BidsGo
    <3>1. CASE persistFills(b, bid[b], PlanFor(bid[b]))
      <4>1. bid[b] \in BidRow
        BY <2>3 DEF rematchOpenBid, IInv, BookOK, BidsOK
      <4> QED
        BY <3>1, <4>1, FillsPreserve DEF IInv
    <3>2. CASE bid' = [bid EXCEPT ![b].status = "EXPIRED"] /\ UNCHANGED listing
      <4>1. bid[b] # None
        BY <2>3 DEF rematchOpenBid
      <4> QED
        BY <3>2, <4>1, BidStatusWrite, ListingsSame DEF IInv
    <3> QED
      BY <2>3, <3>1, <3>2 DEF rematchOpenBid
  <2> QED
    BY <2>1, <2>2, <2>3
<1>3. req' \in [Requests -> Request] /\ ReqOK'
  BY <1>1, <1>2, ReqKeeps
<1> QED
  BY <1>1, <1>2, <1>3 DEF IInv, BookOK, ListingsGo, BidsGo

\* Time passing touches no row.
LEMMA TickPreserves ==
  ASSUME IInv, Tick
  PROVE  IInv'
<1>1. UNCHANGED <<listing, bid, req>> /\ now' \in 0..MaxTime
  BY BookAssumption DEF Tick, IInv, BookOK, BookAssumption
<1> QED
  BY <1>1 DEF IInv, BookOK, ReqOK, ListingsOK, BidsOK

\* Every step of the book keeps the inductive invariant.
LEMMA StepPreserves == IInv /\ [Next]_vars => IInv'
<1> SUFFICES ASSUME IInv, [Next]_vars PROVE IInv'
  OBVIOUS
<1>1. CASE Next
  BY <1>1, ReadersPreserve, WritersPreserve, TransactionsPreserve, TickPreserves DEF Next
<1>2. CASE UNCHANGED vars
  BY <1>2 DEF vars, IInv, BookOK, ReqOK, ListingsOK, BidsOK
<1> QED
  BY <1>1, <1>2

-----------------------------------------------------------------------------
(* The fill loop: what persistFills writes when the plan is the planner's *)

\* The planner is run on rows of the book.
LEMMA PlanOfBook ==
  ASSUME BookOK, NEW row \in BidRow
  PROVE  /\ \A l \in loadMatchableListings(row) :
              l \in ListingIds /\ listing[l] # None /\ listing[l] \in ListingRow /\ Sound(listing[l])
         /\ \E left : PlanOK(row, listing, left, PlanFor(row), loadMatchableListings(row))
<1> DEFINE ids == loadMatchableListings(row)
<1>1. \A l \in ids : l \in ListingIds /\ listing[l] # None
  BY DEF loadMatchableListings
<1>2. \A l \in ids : listing[l] \in ListingRow /\ Sound(listing[l])
  BY <1>1 DEF BookOK, ListingsOK
<1>3. IsFiniteSet(ids) /\ ids \subseteq Int
  <2>1. ids \subseteq ListingIds
    BY <1>1
  <2> HIDE DEF ids
  <2> QED
    BY <2>1, BookAssumption, FS_Subset DEF BookAssumption
<1> HIDE DEF ids
<1>4. \E left : PlanOK(row, listing, left, matchBidAgainstListings(row, listing, ids), ids)
  BY <1>2, <1>3, PlanMade
<1> QED
  BY <1>1, <1>2, <1>4 DEF ids, PlanFor

\* Each listing of a plan is drawn on by one fill.
LEMMA FillsNamed ==
  ASSUME NEW buy, NEW rows, NEW left, NEW plan, NEW ids, PlanOK(buy, rows, left, plan, ids)
  PROVE  /\ DOMAIN plan = 1..Len(plan) /\ Len(plan) \in Nat /\ Named(plan) \subseteq ids
         /\ \A i \in 1..Len(plan) : /\ plan[i] \in FillsOf(ids)
                                    /\ plan[i].listing \in Named(plan)
                                    /\ FillOf(plan, plan[i].listing) = plan[i].kwh
         /\ \A l \in Named(plan) : \E i \in 1..Len(plan) : plan[i].listing = l
<1>1. DOMAIN plan = 1..Len(plan) /\ Len(plan) \in Nat
  BY LenProperties DEF PlanOK
<1>2. \A i \in 1..Len(plan) : plan[i] \in FillsOf(ids) /\ plan[i].listing \in ids
  <2>1. \A i \in 1..Len(plan) : plan[i] \in FillsOf(ids)
    BY ElementOfSeq DEF PlanOK
  <2> QED
    BY <2>1 DEF FillsOf
<1>3. Named(plan) \subseteq ids
  BY <1>1, <1>2 DEF Named
<1>4. ASSUME NEW i \in 1..Len(plan)
      PROVE  FillOf(plan, plan[i].listing) = plan[i].kwh /\ plan[i].listing \in Named(plan)
  <2> DEFINE l == plan[i].listing
             k == CHOOSE j \in DOMAIN plan : plan[j].listing = l
  <2>1. k \in DOMAIN plan /\ plan[k].listing = l
    BY <1>1
  <2>2. k = i
    BY <1>1, <2>1 DEF PlanOK
  <2> QED
    BY <1>1, <2>2 DEF FillOf, Named
<1>5. \A l \in Named(plan) : \E i \in 1..Len(plan) : plan[i].listing = l
  BY <1>1 DEF Named
<1> QED
  BY <1>1, <1>2, <1>3, <1>4, <1>5

\* The checks of the fill loop never refuse what the planner planned.
LEMMA PlanAccepted ==
  ASSUME BookOK, NEW row \in BidRow, checkBidQuantity(row.req, row.unm, row.mat)
  PROVE  FillsAccepted(row, PlanFor(row))
<1> DEFINE ids == loadMatchableListings(row)
           plan == PlanFor(row)
<1>1. \A l \in ids : listing[l] \in ListingRow /\ Sound(listing[l])
  BY PlanOfBook
<1>2. PICK left : PlanOK(row, listing, left, plan, ids)
  BY PlanOfBook
<1> HIDE DEF plan, ids
<1>3. /\ DOMAIN plan = 1..Len(plan) /\ Len(plan) \in Nat /\ Named(plan) \subseteq ids
      /\ \A i \in 1..Len(plan) : FillOf(plan, plan[i].listing) = plan[i].kwh
      /\ \A l \in Named(plan) : \E i \in 1..Len(plan) : plan[i].listing = l
  BY <1>2, FillsNamed
<1>4. ASSUME NEW l \in Named(plan)
      PROVE  Intact(applyFill(listing[l], FillOf(plan, l)))
  <2>1. PICK i \in 1..Len(plan) : plan[i].listing = l
    BY <1>3
  <2>2. PICK open \in Nat : plan[i].kwh = computePartialMatch(listing[l], row, open)
    BY <1>2, <2>1 DEF PlanOK
  <2> DEFINE kwh == FillOf(plan, l)
  <2>3. listing[l] \in ListingRow /\ Intact(listing[l])
    BY <1>1, <1>3 DEF Sound
  <2>4. kwh \in Nat /\ kwh <= listing[l].avail
    <3>1. kwh = computePartialMatch(listing[l], row, open)
      BY <1>3, <2>1, <2>2
    <3> HIDE DEF kwh
    <3> QED
      BY <2>3, <3>1, LotFacts
  <2> HIDE DEF kwh
  <2> DEFINE next == applyFill(listing[l], kwh)
  <2>5. /\ next.orig = listing[l].orig /\ next.avail = listing[l].avail - kwh
        /\ next.sold = listing[l].sold + kwh
    BY <2>3 DEF applyFill, ListingRow
  <2>6. listing[l].orig \in Nat /\ listing[l].avail \in Nat /\ listing[l].sold \in Nat
    BY <2>3 DEF ListingRow
  <2> HIDE DEF next
  <2>7. Intact(next)
    BY SMTT(30), <2>3, <2>4, <2>5, <2>6 DEF Intact, checkQuantityIntegrity
  <2> QED
    BY <2>7 DEF next, kwh
<1>5. ASSUME NEW n \in 0..Len(plan)
      PROVE  checkBidQuantity(row.req, WorkingBid(row, plan, n).unm, WorkingBid(row, plan, n).mat)
  <2>1. plan \in Seq(FillsOf(ids)) /\ left \in Nat /\ Total(Kwhs(plan)) + left = row.unm
    BY <1>2 DEF PlanOK
  <2>2. PICK s \in Nat :
          /\ s <= Total(Kwhs(plan))
          /\ WorkingBid(row, plan, n) = Advanced(row, s)
    BY <2>1, WorkingBids
  <2>3. Total(Kwhs(plan)) \in Nat
    BY <2>1, KwhsType, NatTotal
  <2>4. WorkingBid(row, plan, n).unm = row.unm - s /\ WorkingBid(row, plan, n).mat = row.mat + s
    BY <2>2 DEF BidRow, Advanced
  <2>5. row.req \in Nat /\ row.unm \in Nat /\ row.mat \in Nat
    BY DEF BidRow
  <2> DEFINE total == Total(Kwhs(plan))
             u == WorkingBid(row, plan, n).unm
             m == WorkingBid(row, plan, n).mat
  <2>6. total \in Nat /\ left \in Nat /\ total + left = row.unm /\ s <= total
    BY <2>1, <2>2, <2>3
  <2>7. u = row.unm - s /\ m = row.mat + s
    BY <2>4
  <2> HIDE DEF total, u, m, plan
  <2>8. s <= row.unm
    BY <2>5, <2>6
  <2>9. /\ row.req > 0 /\ row.unm + row.mat = row.req
    BY DEF checkBidQuantity
  <2>10. u \in Nat /\ m \in Nat /\ u + m = row.req
    BY SMTT(30), <2>5, <2>7, <2>8, <2>9
  <2>11. checkBidQuantity(row.req, u, m)
    BY <2>5, <2>9, <2>10 DEF checkBidQuantity
  <2> QED
    BY <2>11 DEF u, m
<1>6. \A n \in DOMAIN plan \cup {Len(plan)} : n \in 0..Len(plan)
  BY <1>3
<1>7. FillsAccepted(row, plan)
  BY <1>3, <1>4, <1>5, <1>6 DEF FillsAccepted, Intact, ids
<1> QED
  BY <1>7 DEF plan

\* What the fill loop writes, in terms of the plan alone.
Fresh(b, plan) == [i \in DOMAIN plan |-> [listing |-> plan[i].listing, bid |-> b,
                                         kwh |-> plan[i].kwh, price |-> plan[i].price]]
BidFilled(row, left, s) ==
  [row EXCEPT !.unm = left, !.mat = row.mat + s,
              !.status = bidStatusAfterFill(left, row.mat + s)]

Wrote(b, row, left, plan) ==
  /\ PlanOK(row, listing, left, plan, loadMatchableListings(row))
  /\ listing' = [l \in ListingIds |-> IF l \in Named(plan)
                                      THEN Filled(listing[l], FillOf(plan, l))
                                      ELSE listing[l]]
  /\ matches' = matches \o Fresh(b, plan)
  /\ bid' = [bid EXCEPT ![b] = BidFilled(row, left, Total(Kwhs(plan)))]

LEMMA FillsWritten ==
  ASSUME BookOK, NEW b \in BidIds, NEW row \in BidRow, persistFills(b, row, PlanFor(row))
  PROVE  \E left, plan : Wrote(b, row, left, plan)
<1> DEFINE plan == PlanFor(row)
           last == WorkingBid(row, plan, Len(plan))
           sum == Total(Kwhs(plan))
<1>1. PICK left : PlanOK(row, listing, left, plan, loadMatchableListings(row))
  BY PlanOfBook
<1>2. /\ listing' = [l \in ListingIds |-> IF l \in Named(plan)
                                          THEN Filled(listing[l], FillOf(plan, l))
                                          ELSE listing[l]]
      /\ matches' = matches \o Fresh(b, plan)
      /\ bid' = [bid EXCEPT ![b] = [row EXCEPT !.unm = last.unm, !.mat = last.mat,
                                      !.status = bidStatusAfterFill(last.unm, last.mat)]]
  BY DEF persistFills, Fresh
<1> HIDE DEF plan
<1>3. last = Advanced(row, sum)
  <2>1. plan \in Seq(FillsOf(loadMatchableListings(row)))
    BY <1>1 DEF PlanOK
  <2>2. Len(plan) \in 0..Len(plan)
    BY <2>1, LenProperties
  <2> QED
    BY <2>1, <2>2, WorkingBids
<1>4. last.unm = left /\ last.mat = row.mat + sum
  <2>1. last.unm = row.unm - sum /\ last.mat = row.mat + sum
    BY <1>3 DEF Advanced, BidRow
  <2>2. sum + left = row.unm /\ left \in Nat
    BY <1>1 DEF PlanOK
  <2>3. sum \in Nat
    BY <1>1, KwhsType, NatTotal DEF PlanOK
  <2> HIDE DEF sum, last
  <2> QED
    BY <2>1, <2>2, <2>3
<1> HIDE DEF last, sum
<1>5. bid' = [bid EXCEPT ![b] = BidFilled(row, left, sum)]
  BY <1>2, <1>4 DEF BidFilled
<1>6. Wrote(b, row, left, plan)
  BY <1>1, <1>2, <1>5 DEF Wrote, sum
<1> QED
  BY <1>6

\* The rows after the loop, field by field.
LEMMA RowsWritten ==
  ASSUME BookOK, NEW b \in BidIds, NEW row \in BidRow, NEW left, NEW plan,
         Wrote(b, row, left, plan)
  PROVE  /\ \A l \in ListingIds \ Named(plan) : listing'[l] = listing[l]
         /\ \A l \in Named(plan) :
              LET kwh == FillOf(plan, l)
              IN  /\ l \in ListingIds /\ l \in loadMatchableListings(row)
                  /\ listing[l] # None /\ listing[l] \in ListingRow /\ Sound(listing[l])
                  /\ kwh \in Nat /\ kwh > 0 /\ kwh <= listing[l].avail
                  /\ listing'[l] = Filled(listing[l], kwh)
                  /\ listing'[l].orig = listing[l].orig
                  /\ listing'[l].avail = listing[l].avail - kwh
                  /\ listing'[l].sold = listing[l].sold + kwh
         /\ \A c \in BidIds \ {b} : bid'[c] = bid[c]
         /\ LET new == bid'[b]
            IN  /\ new = BidFilled(row, left, Total(Kwhs(plan)))
                /\ new.unm = left /\ new.mat = row.mat + Total(Kwhs(plan))
                /\ new.req = row.req /\ new.buyer = row.buyer /\ new.market = row.market
                /\ new.maxPrice = row.maxPrice /\ new.from = row.from /\ new.until = row.until
                /\ new.target = row.target
                /\ new.status = bidStatusAfterFill(left, row.mat + Total(Kwhs(plan)))
<1> DEFINE ids == loadMatchableListings(row)
<1>1. PlanOK(row, listing, left, plan, ids)
  BY DEF Wrote
<1>2. /\ DOMAIN plan = 1..Len(plan) /\ Len(plan) \in Nat /\ Named(plan) \subseteq ids
      /\ \A i \in 1..Len(plan) : FillOf(plan, plan[i].listing) = plan[i].kwh
      /\ \A l \in Named(plan) : \E i \in 1..Len(plan) : plan[i].listing = l
  BY <1>1, FillsNamed
<1>3. \A l \in ids : l \in ListingIds /\ listing[l] # None /\ listing[l] \in ListingRow /\ Sound(listing[l])
  BY PlanOfBook
<1> HIDE DEF ids
<1>4. \A l \in ListingIds \ Named(plan) : listing'[l] = listing[l]
  BY DEF Wrote
<1>5. ASSUME NEW l \in Named(plan)
      PROVE  LET kwh == FillOf(plan, l)
             IN  /\ kwh \in Nat /\ kwh > 0 /\ kwh <= listing[l].avail
                 /\ listing'[l] = Filled(listing[l], kwh)
                 /\ listing'[l].orig = listing[l].orig
                 /\ listing'[l].avail = listing[l].avail - kwh
                 /\ listing'[l].sold = listing[l].sold + kwh
  <2> DEFINE kwh == FillOf(plan, l)
  <2>1. PICK i \in 1..Len(plan) : plan[i].listing = l
    BY <1>2
  <2>2. PICK open \in Nat : plan[i].kwh = computePartialMatch(listing[l], row, open)
    BY <1>1, <2>1 DEF PlanOK
  <2>3. listing[l] \in ListingRow /\ l \in ListingIds
    BY <1>2, <1>3
  <2>4. kwh = plan[i].kwh
    BY <1>2, <2>1
  <2>5. listing'[l] = Filled(listing[l], kwh)
    BY <2>3 DEF Wrote
  <2> HIDE DEF kwh
  <2>6. kwh \in Nat /\ kwh <= listing[l].avail
    BY <2>2, <2>3, <2>4, LotFacts
  <2>7. kwh > 0
    BY <1>1, <2>4 DEF PlanOK
  <2>8. /\ listing'[l].orig = listing[l].orig /\ listing'[l].avail = listing[l].avail - kwh
        /\ listing'[l].sold = listing[l].sold + kwh
    BY <2>3, <2>5 DEF Filled, applyFill, ListingRow
  <2> QED
    BY <2>5, <2>6, <2>7, <2>8 DEF kwh
<1>6. bid' = [bid EXCEPT ![b] = BidFilled(row, left, Total(Kwhs(plan)))] /\ DOMAIN bid = BidIds
  BY DEF Wrote, BookOK
<1> DEFINE sum == Total(Kwhs(plan))
<1> HIDE DEF sum
<1>7. LET new == BidFilled(row, left, sum)
      IN  /\ new.unm = left /\ new.mat = row.mat + sum
          /\ new.req = row.req /\ new.buyer = row.buyer /\ new.market = row.market
          /\ new.maxPrice = row.maxPrice /\ new.from = row.from /\ new.until = row.until
          /\ new.target = row.target
          /\ new.status = bidStatusAfterFill(left, row.mat + sum)
  BY DEF BidFilled, BidRow
<1>8. bid'[b] = BidFilled(row, left, sum) /\ \A c \in BidIds \ {b} : bid'[c] = bid[c]
  BY <1>6 DEF sum
<1> QED
  BY <1>2, <1>3, <1>4, <1>5, <1>7, <1>8 DEF ids, sum

-----------------------------------------------------------------------------
(* The match rows account for what is sold and matched *)

\* The second inductive invariant: without the first part a new listing or bid
\* could find match rows waiting for it.
MatchesOK ==
  /\ matches \in Seq(MatchRow)
  /\ \A i \in 1..Len(matches) :
       listing[matches[i].listing] # None /\ bid[matches[i].bid] # None

AccountsInv == MatchesOK /\ SoldIsMatched

SoldIn(l) == [m \in MatchRow |-> IF m.listing = l THEN m.kwh ELSE 0]
MatchedIn(b) == [m \in MatchRow |-> IF m.bid = b THEN m.kwh ELSE 0]

LEMMA AccountsMapped ==
  ASSUME NEW ms \in Seq(MatchRow), NEW x
  PROVE  /\ SoldIn(x) \in [MatchRow -> Nat] /\ SoldOf(ms, x) = Total(Mapped(SoldIn(x), ms))
         /\ MatchedIn(x) \in [MatchRow -> Nat]
         /\ MatchedOf(ms, x) = Total(Mapped(MatchedIn(x), ms))
<1>1. /\ DOMAIN ms = 1..Len(ms) /\ \A i \in 1..Len(ms) : ms[i] \in MatchRow
  BY LenProperties, ElementOfSeq
<1>2. \A m \in MatchRow : m.kwh \in Nat
  BY DEF MatchRow
<1>3. SoldIn(x) \in [MatchRow -> Nat] /\ MatchedIn(x) \in [MatchRow -> Nat]
  BY <1>2 DEF SoldIn, MatchedIn
<1>4. /\ \A i \in 1..Len(ms) : SoldIn(x)[ms[i]] = IF ms[i].listing = x THEN ms[i].kwh ELSE 0
      /\ \A i \in 1..Len(ms) : MatchedIn(x)[ms[i]] = IF ms[i].bid = x THEN ms[i].kwh ELSE 0
  BY <1>1 DEF SoldIn, MatchedIn
<1>5. /\ Mapped(SoldIn(x), ms) = [i \in DOMAIN ms |-> IF ms[i].listing = x THEN ms[i].kwh ELSE 0]
      /\ Mapped(MatchedIn(x), ms) = [i \in DOMAIN ms |-> IF ms[i].bid = x THEN ms[i].kwh ELSE 0]
  BY <1>1, <1>4 DEF Mapped
<1> QED
  BY <1>3, <1>5 DEF SoldOf, MatchedOf

\* New match rows add to the accounts of the old ones.
LEMMA AccountsAdd ==
  ASSUME NEW ms \in Seq(MatchRow), NEW fs \in Seq(MatchRow), NEW x
  PROVE  /\ SoldOf(ms \o fs, x) = SoldOf(ms, x) + SoldOf(fs, x)
         /\ MatchedOf(ms \o fs, x) = MatchedOf(ms, x) + MatchedOf(fs, x)
         /\ SoldOf(ms, x) \in Nat /\ MatchedOf(ms, x) \in Nat
<1>1. ms \o fs \in Seq(MatchRow)
  BY ConcatProperties
<1>2. /\ SoldIn(x) \in [MatchRow -> Nat] /\ SoldOf(ms, x) = Total(Mapped(SoldIn(x), ms))
      /\ SoldOf(fs, x) = Total(Mapped(SoldIn(x), fs))
      /\ SoldOf(ms \o fs, x) = Total(Mapped(SoldIn(x), ms \o fs))
  BY <1>1, AccountsMapped
<1>3. /\ MatchedIn(x) \in [MatchRow -> Nat]
      /\ MatchedOf(ms, x) = Total(Mapped(MatchedIn(x), ms))
      /\ MatchedOf(fs, x) = Total(Mapped(MatchedIn(x), fs))
      /\ MatchedOf(ms \o fs, x) = Total(Mapped(MatchedIn(x), ms \o fs))
  BY <1>1, AccountsMapped
<1>4. SoldOf(ms \o fs, x) = SoldOf(ms, x) + SoldOf(fs, x) /\ SoldOf(ms, x) \in Nat
  BY <1>2, MappedTotal, MappedType
<1>5. MatchedOf(ms \o fs, x) = MatchedOf(ms, x) + MatchedOf(fs, x) /\ MatchedOf(ms, x) \in Nat
  BY <1>3, MappedTotal, MappedType
<1> QED
  BY <1>4, <1>5

\* Without a match row there is nothing on the account.
LEMMA AccountsEmpty ==
  ASSUME NEW ms \in Seq(MatchRow), NEW x
  PROVE  /\ (\A i \in 1..Len(ms) : ms[i].listing # x) => SoldOf(ms, x) = 0
         /\ (\A i \in 1..Len(ms) : ms[i].bid # x) => MatchedOf(ms, x) = 0
<1>1. /\ DOMAIN ms = 1..Len(ms) /\ Len(ms) \in Nat /\ \A i \in 1..Len(ms) : ms[i] \in MatchRow
  BY LenProperties, ElementOfSeq
<1>2. /\ Len(Mapped(SoldIn(x), ms)) = Len(ms) /\ Len(Mapped(MatchedIn(x), ms)) = Len(ms)
  <2>1. SoldIn(x) \in [MatchRow -> Nat] /\ MatchedIn(x) \in [MatchRow -> Nat]
    BY AccountsMapped
  <2> QED
    BY <2>1, MappedType, Zenon
<1>3. ASSUME \A i \in 1..Len(ms) : ms[i].listing # x
      PROVE  SoldOf(ms, x) = 0
  <2>1. \A i \in 1..Len(ms) : Mapped(SoldIn(x), ms)[i] = 0
    BY <1>1, <1>3 DEF Mapped, SoldIn
  <2> QED
    BY <1>1, <1>2, <2>1, AccountsMapped, ZeroTotal
<1>4. ASSUME \A i \in 1..Len(ms) : ms[i].bid # x
      PROVE  MatchedOf(ms, x) = 0
  <2>1. \A i \in 1..Len(ms) : Mapped(MatchedIn(x), ms)[i] = 0
    BY <1>1, <1>4 DEF Mapped, MatchedIn
  <2> QED
    BY <1>1, <1>2, <2>1, AccountsMapped, ZeroTotal
<1> QED
  BY <1>3, <1>4

\* The match rows of one plan.
LEMMA FreshFacts ==
  ASSUME NEW buy, NEW rows, NEW left, NEW plan, NEW ids, PlanOK(buy, rows, left, plan, ids),
         ids \subseteq ListingIds, NEW b \in BidIds
  PROVE  /\ Fresh(b, plan) \in Seq(MatchRow) /\ Len(Fresh(b, plan)) = Len(plan)
         /\ \A i \in 1..Len(plan) :
              Fresh(b, plan)[i] = [listing |-> plan[i].listing, bid |-> b,
                                   kwh |-> plan[i].kwh, price |-> plan[i].price]
         /\ \A l \in Named(plan) : SoldOf(Fresh(b, plan), l) = FillOf(plan, l)
         /\ \A l : l \notin Named(plan) => SoldOf(Fresh(b, plan), l) = 0
         /\ MatchedOf(Fresh(b, plan), b) = Total(Kwhs(plan))
         /\ \A c : c # b => MatchedOf(Fresh(b, plan), c) = 0
<1> DEFINE fs == Fresh(b, plan)
           n == Len(plan)
<1>1. /\ DOMAIN plan = 1..n /\ n \in Nat
      /\ \A i \in 1..n : plan[i] \in FillsOf(ids) /\ plan[i].listing \in Named(plan)
                       /\ FillOf(plan, plan[i].listing) = plan[i].kwh
      /\ \A l \in Named(plan) : \E i \in 1..n : plan[i].listing = l
  BY FillsNamed
<1>2. \A i \in 1..n : fs[i] = [listing |-> plan[i].listing, bid |-> b,
                              kwh |-> plan[i].kwh, price |-> plan[i].price]
  BY <1>1 DEF Fresh
<1>3. \A i \in 1..n : fs[i] \in MatchRow
  BY <1>1 DEF Fresh, FillsOf, MatchRow
<1>4. fs = [i \in 1..n |-> fs[i]]
  BY <1>1 DEF Fresh
<1> HIDE DEF fs
<1>5. fs \in Seq(MatchRow) /\ Len(fs) = n
  <2>1. [i \in 1..n |-> fs[i]] \in Seq(MatchRow)
    BY <1>1, <1>3, IsASeq
  <2>2. fs \in Seq(MatchRow)
    BY <1>4, <2>1
  <2>3. DOMAIN fs = 1..n
    BY <1>4
  <2> QED
    BY <1>1, <2>2, <2>3, LenProperties
<1>6. ASSUME NEW i \in 1..n
      PROVE  /\ fs[i].listing = plan[i].listing /\ fs[i].bid = b /\ fs[i].kwh = plan[i].kwh
  <2>1. fs[i] = [listing |-> plan[i].listing, bid |-> b, kwh |-> plan[i].kwh,
                 price |-> plan[i].price]
    BY <1>2
  <2> QED
    BY <2>1
<1>7. ASSUME NEW l \in Named(plan)
      PROVE  SoldOf(fs, l) = FillOf(plan, l)
  <2>1. PICK k \in 1..n : plan[k].listing = l
    BY <1>1
  <2> DEFINE s == Mapped(SoldIn(l), fs)
  <2>2. s \in Seq(Nat) /\ Len(s) = n
    BY SMTT(30), <1>5, AccountsMapped, MappedType
  <2>3. \A i \in 1..n : s[i] = IF plan[i].listing = l THEN plan[i].kwh ELSE 0
    BY <1>5, <1>6, <1>3 DEF Mapped, SoldIn
  <2> HIDE DEF s
  <2>4. s[k] = FillOf(plan, l)
    BY <1>1, <2>1, <2>3
  <2>5. \A i \in 1..n : i # k => s[i] = 0
    BY <2>1, <2>3 DEF PlanOK
  <2>6. Total(s) = s[k]
    BY <2>2, <2>5, OneTotal
  <2> QED
    BY <1>5, <2>4, <2>6, AccountsMapped DEF s
<1>8. ASSUME NEW l, l \notin Named(plan)
      PROVE  SoldOf(fs, l) = 0
  BY <1>1, <1>5, <1>6, <1>8, AccountsEmpty
<1>9. MatchedOf(fs, b) = Total(Kwhs(plan))
  <2> DEFINE s == Mapped(MatchedIn(b), fs)
  <2>1. s = [i \in 1..n |-> plan[i].kwh]
    BY <1>5, <1>6, <1>3 DEF Mapped, MatchedIn
  <2>2. Kwhs(plan) = [i \in 1..n |-> plan[i].kwh]
    BY <1>1 DEF Kwhs
  <2> QED
    BY <1>5, <2>1, <2>2, AccountsMapped
<1>10. ASSUME NEW c, c # b
      PROVE  MatchedOf(fs, c) = 0
  BY <1>5, <1>6, <1>10, AccountsEmpty
<1> QED
  BY <1>2, <1>5, <1>7, <1>8, <1>9, <1>10 DEF fs

\* A step that writes no match row leaves what is sold and matched alone, and
\* what it creates starts with nothing.
SoldSame == \A l \in ListingIds :
  /\ listing[l] # None => listing'[l] # None
  /\ listing'[l] # None =>
       listing'[l].sold = IF listing[l] = None THEN 0 ELSE listing[l].sold

MatSame == \A b \in BidIds :
  /\ bid[b] # None => bid'[b] # None
  /\ bid'[b] # None => bid'[b].mat = IF bid[b] = None THEN 0 ELSE bid[b].mat

Quiet == UNCHANGED matches /\ SoldSame /\ MatSame

\* A step that does: the row it starts from, new or open, has the matched
\* quantity of the table.
NewOrOpen(b, row) == \/ bid[b] = None /\ row.req > 0
                     \/ bid[b] = row /\ row # None /\ row.status \in OPEN_BID

Fills(b, row) ==
  /\ b \in BidIds /\ row \in BidRow /\ checkBidQuantity(row.req, row.unm, row.mat)
  /\ NewOrOpen(b, row)
  /\ row.mat = IF bid[b] = None THEN 0 ELSE bid[b].mat
  /\ persistFills(b, row, PlanFor(row))
  /\ UNCHANGED <<req, now>>

LEMMA InitAccounts == Init => AccountsInv
<1> SUFFICES ASSUME Init PROVE AccountsInv
  OBVIOUS
<1>1. matches \in Seq(MatchRow) /\ Len(matches) = 0
  BY EmptySeq DEF Init
<1>2. \A i \in 1..Len(matches) : FALSE
  BY <1>1
<1>3. \A l \in ListingIds : listing[l] = None
  BY DEF Init
<1>4. \A b \in BidIds : bid[b] = None
  BY DEF Init
<1> QED
  BY <1>1, <1>2, <1>3, <1>4 DEF AccountsInv, MatchesOK, SoldIsMatched

LEMMA QuietAccounts ==
  ASSUME AccountsInv, Quiet
  PROVE  AccountsInv'
<1>1. matches \in Seq(MatchRow) /\ matches' = matches
  BY DEF AccountsInv, MatchesOK, Quiet
<1>2. \A i \in 1..Len(matches) : matches[i].listing \in ListingIds /\ matches[i].bid \in BidIds
  <2>1. \A i \in 1..Len(matches) : matches[i] \in MatchRow
    BY <1>1, ElementOfSeq
  <2> QED
    BY <2>1 DEF MatchRow
<1>3. MatchesOK'
  BY <1>1, <1>2 DEF AccountsInv, MatchesOK, Quiet, SoldSame, MatSame
<1>4. ASSUME NEW l \in ListingIds, listing'[l] # None
      PROVE  listing'[l].sold = SoldOf(matches, l)
  <2>1. CASE listing[l] = None
    <3>1. \A i \in 1..Len(matches) : matches[i].listing # l
      BY <2>1 DEF AccountsInv, MatchesOK
    <3>2. listing'[l].sold = 0
      BY <1>4, <2>1 DEF Quiet, SoldSame
    <3> QED
      BY <1>1, <3>1, <3>2, AccountsEmpty
  <2>2. CASE listing[l] # None
    BY <1>4, <2>2 DEF Quiet, SoldSame, AccountsInv, SoldIsMatched
  <2> QED
    BY <2>1, <2>2
<1>5. ASSUME NEW b \in BidIds, bid'[b] # None
      PROVE  bid'[b].mat = MatchedOf(matches, b)
  <2>1. CASE bid[b] = None
    <3>1. \A i \in 1..Len(matches) : matches[i].bid # b
      BY <2>1 DEF AccountsInv, MatchesOK
    <3>2. bid'[b].mat = 0
      BY <1>5, <2>1 DEF Quiet, MatSame
    <3> QED
      BY <1>1, <3>1, <3>2, AccountsEmpty
  <2>2. CASE bid[b] # None
    BY <1>5, <2>2 DEF Quiet, MatSame, AccountsInv, SoldIsMatched
  <2> QED
    BY <2>1, <2>2
<1>6. SoldIsMatched'
  BY <1>1, <1>4, <1>5 DEF SoldIsMatched
<1> QED
  BY <1>3, <1>6 DEF AccountsInv

LEMMA FillAccounts ==
  ASSUME IInv, AccountsInv, NEW b, NEW row, Fills(b, row)
  PROVE  AccountsInv'
<1>1. b \in BidIds /\ row \in BidRow /\ BookOK
  BY DEF Fills, IInv
<1>2. PICK left, plan : Wrote(b, row, left, plan)
  BY <1>1, FillsWritten DEF Fills
<1> DEFINE ids == loadMatchableListings(row)
           fs == Fresh(b, plan)
<1>3. PlanOK(row, listing, left, plan, ids) /\ matches' = matches \o fs
  BY <1>2 DEF Wrote
<1>4. ids \subseteq ListingIds
  BY <1>1, PlanOfBook
<1>5. /\ \A l \in ListingIds \ Named(plan) : listing'[l] = listing[l]
      /\ \A l \in Named(plan) : /\ l \in ListingIds /\ listing[l] # None
                               /\ listing'[l].sold = listing[l].sold + FillOf(plan, l)
      /\ \A c \in BidIds \ {b} : bid'[c] = bid[c]
      /\ bid'[b].mat = row.mat + Total(Kwhs(plan))
  BY <1>1, <1>2, RowsWritten
<1>6. ListingsGo /\ bid'[b] # None
  <2>1. ListingsGo /\ BidsGo
    BY <1>1, FillsPreserve DEF Fills
  <2>2. row.mat + Total(Kwhs(plan)) \in Nat /\ left \in Nat
    BY <1>1, <1>3, KwhsType, NatTotal DEF PlanOK, BidRow
  <2>3. BidFilled(row, left, Total(Kwhs(plan))) \in BidRow
    BY <1>1, <2>2 DEF BidFilled, BidRow, bidStatusAfterFill, BidStatus
  <2>4. bid'[b] \in BidRow
    BY <1>1, <1>2, <2>3, RowsWritten
  <2> QED
    BY <2>1, <2>4, NoneAssumption
<1> HIDE DEF ids, fs
<1>7. /\ fs \in Seq(MatchRow) /\ Len(fs) = Len(plan)
      /\ \A i \in 1..Len(plan) : fs[i] = [listing |-> plan[i].listing, bid |-> b,
                                         kwh |-> plan[i].kwh, price |-> plan[i].price]
      /\ \A l \in Named(plan) : SoldOf(fs, l) = FillOf(plan, l)
      /\ \A l : l \notin Named(plan) => SoldOf(fs, l) = 0
      /\ MatchedOf(fs, b) = Total(Kwhs(plan))
      /\ \A c : c # b => MatchedOf(fs, c) = 0
  BY <1>1, <1>3, <1>4, FreshFacts DEF fs
<1>8. matches \in Seq(MatchRow)
  BY DEF AccountsInv, MatchesOK
<1>9. \A x : /\ SoldOf(matches', x) = SoldOf(matches, x) + SoldOf(fs, x)
             /\ MatchedOf(matches', x) = MatchedOf(matches, x) + MatchedOf(fs, x)
             /\ SoldOf(matches, x) \in Nat /\ MatchedOf(matches, x) \in Nat
  BY <1>3, <1>7, <1>8, AccountsAdd
<1>10. MatchesOK'
  <2>1. /\ matches' \in Seq(MatchRow) /\ Len(matches') = Len(matches) + Len(fs)
        /\ \A i \in 1..Len(matches) : matches'[i] = matches[i]
        /\ \A i \in 1..Len(fs) : matches'[Len(matches) + i] = fs[i]
    <3>1. fs \in Seq(MatchRow) /\ matches' = matches \o fs
      BY <1>3, <1>7
    <3> QED
      BY <1>8, <3>1, ConcatParts
  <2>2. \A i \in 1..Len(matches) : matches[i].listing \in ListingIds /\ matches[i].bid \in BidIds
    <3>1. \A i \in 1..Len(matches) : matches[i] \in MatchRow
      BY <1>8, ElementOfSeq
    <3> QED
      BY <3>1 DEF MatchRow
  <2>3. ASSUME NEW i \in 1..Len(matches)
        PROVE  listing'[matches'[i].listing] # None /\ bid'[matches'[i].bid] # None
    <3>1. listing[matches[i].listing] # None /\ bid[matches[i].bid] # None
      BY DEF AccountsInv, MatchesOK
    <3>2. listing'[matches[i].listing] # None
      BY <1>6, <2>2, <3>1 DEF ListingsGo
    <3>3. bid'[matches[i].bid] # None
      BY <1>5, <1>6, <2>2, <3>1
    <3> QED
      BY <2>1, <3>2, <3>3
  <2>4. ASSUME NEW k \in 1..Len(fs)
        PROVE  /\ listing'[matches'[Len(matches) + k].listing] # None
               /\ bid'[matches'[Len(matches) + k].bid] # None
    <3>1. fs[k].listing = plan[k].listing /\ fs[k].bid = b
      <4>1. fs[k] = [listing |-> plan[k].listing, bid |-> b, kwh |-> plan[k].kwh,
                     price |-> plan[k].price]
        BY <1>7
      <4> QED
        BY <4>1
    <3>2. plan[k].listing \in Named(plan)
      BY <1>3, <1>7, FillsNamed
    <3>3. listing'[plan[k].listing] # None
      BY <1>5, <1>6, <3>2 DEF ListingsGo
    <3> QED
      BY <1>6, <2>1, <3>1, <3>3
  <2>5. \A i \in 1..Len(matches') :
          i \in 1..Len(matches) \/ (i - Len(matches) \in 1..Len(fs) /\ i = Len(matches) + (i - Len(matches)))
    <3>1. Len(matches) \in Nat /\ Len(fs) \in Nat
      BY <1>7, <1>8, LenProperties
    <3> QED
      BY <2>1, <3>1
  <2>6. ASSUME NEW i \in 1..Len(matches')
        PROVE  listing'[matches'[i].listing] # None /\ bid'[matches'[i].bid] # None
    BY <2>3, <2>4, <2>5
  <2> QED
    BY <2>1, <2>6 DEF MatchesOK
<1>11. ASSUME NEW l \in ListingIds, listing'[l] # None
       PROVE  listing'[l].sold = SoldOf(matches', l)
  <2>1. CASE l \in Named(plan)
    BY <1>5, <1>7, <1>9, <2>1 DEF AccountsInv, SoldIsMatched
  <2>2. CASE l \notin Named(plan)
    <3>1. listing'[l] = listing[l] /\ SoldOf(matches', l) = SoldOf(matches, l)
      BY <1>5, <1>7, <1>9, <2>2
    <3> QED
      BY <1>11, <3>1 DEF AccountsInv, SoldIsMatched
  <2> QED
    BY <2>1, <2>2
<1>12. ASSUME NEW c \in BidIds, bid'[c] # None
       PROVE  bid'[c].mat = MatchedOf(matches', c)
  <2>1. CASE c # b
    <3>1. bid'[c] = bid[c] /\ MatchedOf(matches', c) = MatchedOf(matches, c)
      BY <1>5, <1>7, <1>9, <2>1
    <3> QED
      BY <1>12, <3>1 DEF AccountsInv, SoldIsMatched
  <2>2. row.mat = MatchedOf(matches, b)
    <3>1. CASE bid[b] = None
      <4>1. \A i \in 1..Len(matches) : matches[i].bid # b
        BY <3>1 DEF AccountsInv, MatchesOK
      <4> QED
        BY <1>8, <3>1, <4>1, AccountsEmpty DEF Fills
    <3>2. CASE bid[b] # None
      BY <1>1, <3>2 DEF Fills, AccountsInv, SoldIsMatched
    <3> QED
      BY <3>1, <3>2
  <2> QED
    BY <1>5, <1>7, <1>9, <2>1, <2>2
<1>13. SoldIsMatched'
  BY <1>11, <1>12 DEF SoldIsMatched
<1> QED
  BY <1>10, <1>13 DEF AccountsInv

-----------------------------------------------------------------------------
(* The four kinds of step *)

\* Status writes only, into a closed status: cancellations and expiries, and
\* the steps that write no row at all.
Closes ==
  /\ UNCHANGED matches
  /\ DOMAIN listing' = ListingIds /\ DOMAIN bid' = BidIds
  /\ \A l \in ListingIds : \/ listing'[l] = listing[l]
                           \/ /\ listing[l] # None
                              /\ \E s \in {"EXPIRED", "CANCELLED"} :
                                   listing'[l] = [listing[l] EXCEPT !.status = s]
  /\ \A b \in BidIds : \/ bid'[b] = bid[b]
                       \/ /\ bid[b] # None
                          /\ \E s \in {"EXPIRED", "CANCELLED"} :
                               bid'[b] = [bid[b] EXCEPT !.status = s]

\* One listing row is written, all else stays.
Writes(l, row) ==
  /\ l \in ListingIds /\ row \in ListingRow
  /\ listing' = [listing EXCEPT ![l] = row]
  /\ UNCHANGED <<bid, matches>>

Lists(l, row) ==
  /\ Writes(l, row)
  /\ listing[l] = None /\ row.orig > 0 /\ row.sold = 0 /\ row.status = "ACTIVE"

Edits(l, row) ==
  /\ Writes(l, row)
  /\ listing[l] # None /\ listing[l].status \in EDITABLE_STATUSES
  /\ row.status = listing[l].status /\ row.sold = listing[l].sold /\ row.sold <= row.orig

LEMMA StatusWriteCloses ==
  ASSUME BookOK, UNCHANGED matches,
         \/ UNCHANGED <<listing, bid>>
         \/ /\ UNCHANGED bid
            /\ \E l \in ListingIds, s \in {"EXPIRED", "CANCELLED"} :
                 listing[l] # None /\ listing' = [listing EXCEPT ![l].status = s]
         \/ /\ UNCHANGED listing
            /\ \E b \in BidIds, s \in {"EXPIRED", "CANCELLED"} :
                 bid[b] # None /\ bid' = [bid EXCEPT ![b].status = s]
  PROVE  Closes
BY DEF Closes, BookOK

LEMMA StepKinds ==
  ASSUME IInv, [Next]_vars
  PROVE  \/ Closes
         \/ \E l, row : Lists(l, row) \/ Edits(l, row)
         \/ \E b, row : Fills(b, row)
<1> USE DEF IInv
<1>1. CASE UNCHANGED vars
  BY <1>1, StatusWriteCloses DEF vars
<1>2. ASSUME NEW l \in ListingIds, NEW u \in Users, NEW o \in Offers, createListing(l, u, o)
      PROVE  \E row : Lists(l, row)
  <2> DEFINE row == [seller |-> u, market |-> o.market, price |-> o.price,
                     from |-> o.from, until |-> o.until, createdAt |-> now,
                     orig |-> o.kwh, avail |-> o.kwh, sold |-> 0,
                     min |-> o.min, max |-> o.max, status |-> "ACTIVE"]
  <2>1. row \in ListingRow
    BY NewListingRow DEF BookOK
  <2>2. row.orig > 0 /\ row.sold = 0 /\ row.status = "ACTIVE"
    BY BookAssumption DEF BookAssumption, OfferShape
  <2>3. /\ listing[l] = None /\ listing' = [listing EXCEPT ![l] = row]
        /\ UNCHANGED <<bid, matches>>
    BY <1>2 DEF createListing
  <2> HIDE DEF row
  <2>4. Lists(l, row)
    BY <2>1, <2>2, <2>3 DEF Lists, Writes
  <2> QED
    BY <2>4
<1>3. ASSUME NEW r \in Requests, updateListing(r)
      PROVE  Closes \/ \E l, row : Edits(l, row)
  <2> DEFINE id == req[r].id
             row == Patched(listing[id], req[r])
  <2>1. id \in ListingIds /\ listing[id] # None /\ req[r] \in PatchRequest
    BY <1>3 DEF updateListing, BookOK, ReqOK, Request, Idle, PatchRequest
  <2>2. UNCHANGED <<bid, matches>>
    BY <1>3 DEF updateListing
  <2>3. CASE /\ listing' = [listing EXCEPT ![id] = row] /\ Intact(row)
             /\ listing[id].status \in EDITABLE_STATUSES
    <3>1. listing[id] \in ListingRow /\ Sound(listing[id])
      BY <2>1 DEF BookOK, ListingsOK
    <3>2. row \in ListingRow
      BY <2>1, <2>3, <3>1, PatchedRow
    <3>3. row.status = listing[id].status /\ row.sold = listing[id].sold
      BY <3>1 DEF Patched, resizeRemaining, ListingRow
    <3>4. row.sold <= row.orig
      BY <2>3 DEF Intact, checkQuantityIntegrity
    <3> HIDE DEF row, id
    <3>5. Edits(id, row)
      BY <2>1, <2>2, <2>3, <3>2, <3>3, <3>4 DEF Edits, Writes
    <3> QED
      BY <3>5
  <2>4. CASE UNCHANGED listing
    BY <2>2, <2>4, StatusWriteCloses
  <2> QED
    BY <1>3, <2>3, <2>4 DEF updateListing, Intact
<1>4. ASSUME NEW r \in Requests, expireIfNeeded(r) \/ cancelListing(r)
      PROVE  Closes
  <2>1. req[r].id \in ListingIds /\ listing[req[r].id] # None
    BY <1>4 DEF expireIfNeeded, cancelListing, BookOK, ReqOK, Request, Idle
  <2>2. /\ UNCHANGED <<bid, matches>>
        /\ \/ UNCHANGED listing
           \/ \E s \in {"EXPIRED", "CANCELLED"} : listing' = [listing EXCEPT ![req[r].id].status = s]
    BY <1>4 DEF expireIfNeeded, cancelListing
  <2> QED
    BY <2>1, <2>2, StatusWriteCloses
<1>5. ASSUME NEW r \in Requests, expireBidIfNeeded(r) \/ cancelBid(r)
      PROVE  Closes
  <2>1. req[r].id \in BidIds /\ bid[req[r].id] # None
    BY <1>5 DEF expireBidIfNeeded, cancelBid, BookOK, ReqOK, Request, Idle
  <2>2. /\ UNCHANGED <<listing, matches>>
        /\ \E s \in {"EXPIRED", "CANCELLED"} : bid' = [bid EXCEPT ![req[r].id].status = s]
    BY <1>5 DEF expireBidIfNeeded, cancelBid
  <2> QED
    BY <2>1, <2>2, StatusWriteCloses
<1>6. ASSUME NEW b \in BidIds, NEW u \in Users, NEW o \in Orders, createBidAndMatch(b, u, o)
      PROVE  \E row : Fills(b, row)
  <2>1. NewBid(u, o) \in BidRow
    BY NewBidRow
  <2>2. checkBidQuantity(NewBid(u, o).req, NewBid(u, o).unm, NewBid(u, o).mat)
    BY <1>6 DEF createBidAndMatch, NewBid
  <2>3. /\ NewBid(u, o).mat = 0 /\ bid[b] = None /\ UNCHANGED <<req, now>>
        /\ persistFills(b, NewBid(u, o), PlanFor(NewBid(u, o)))
    BY <1>6 DEF createBidAndMatch, NewBid
  <2>4. NewBid(u, o).req > 0
    BY BookAssumption DEF BookAssumption, OrderShape, NewBid
  <2>5. Fills(b, NewBid(u, o))
    BY <2>1, <2>2, <2>3, <2>4 DEF Fills, NewOrOpen
  <2> QED
    BY <2>5
<1>7. ASSUME NEW b \in BidIds, rematchOpenBid(b)
      PROVE  Closes \/ \E row : Fills(b, row)
  <2>1. bid[b] # None /\ bid[b] \in BidRow /\ BidSound(bid[b])
    BY <1>7 DEF rematchOpenBid, BookOK, BidsOK
  <2>2. CASE bid' = [bid EXCEPT ![b].status = "EXPIRED"] /\ UNCHANGED <<listing, matches>>
    BY <2>1, <2>2, StatusWriteCloses
  <2>3. CASE persistFills(b, bid[b], PlanFor(bid[b]))
    <3>1. Fills(b, bid[b])
      BY <1>7, <2>1, <2>3 DEF Fills, NewOrOpen, BidSound, rematchOpenBid
    <3> QED
      BY <3>1
  <2> QED
    BY <1>7, <2>2, <2>3 DEF rematchOpenBid
<1>8. ASSUME NEW r \in Requests,
             \/ \E l \in ListingIds : readLapsedListing(r, l)
             \/ \E l \in ListingIds, p \in Patches : readForUpdate(r, l, p)
             \/ \E l \in ListingIds : readForCancel(r, l)
             \/ \E b \in BidIds : readLapsedBid(r, b)
             \/ \E b \in BidIds : readBidForCancel(r, b)
      PROVE  Closes
  <2>1. UNCHANGED <<listing, bid, matches>>
    BY <1>8 DEF readLapsedListing, readForUpdate, readForCancel, readLapsedBid, readBidForCancel
  <2> QED
    BY <2>1, StatusWriteCloses
<1>9. CASE Tick
  <2>1. UNCHANGED <<listing, bid, matches>>
    BY <1>9 DEF Tick
  <2> QED
    BY <2>1, StatusWriteCloses
<1>10. CASE Next
  BY <1>2, <1>3, <1>4, <1>5, <1>6, <1>7, <1>8, <1>9, <1>10 DEF Next
<1> QED
  BY <1>1, <1>10

LEMMA QuietKinds ==
  ASSUME IInv, Closes \/ \E l, row : Lists(l, row) \/ Edits(l, row)
  PROVE  Quiet
<1>1. /\ \A l \in ListingIds : listing[l] # None => listing[l] \in ListingRow
      /\ \A b \in BidIds : bid[b] # None => bid[b] \in BidRow
      /\ DOMAIN listing = ListingIds
  BY DEF IInv, BookOK, ListingsOK, BidsOK
<1>2. CASE Closes
  <2>1. ASSUME NEW row \in ListingRow, NEW s \in {"EXPIRED", "CANCELLED"}
        PROVE  [row EXCEPT !.status = s] # None /\ [row EXCEPT !.status = s].sold = row.sold
    <3>1. s \in ListingStatus
      BY DEF ListingStatus
    <3>2. [row EXCEPT !.status = s] \in ListingRow
      BY <3>1, StatusOnly
    <3> QED
      BY <3>2, NoneAssumption DEF ListingRow
  <2>2. ASSUME NEW row \in BidRow, NEW s \in {"EXPIRED", "CANCELLED"}
        PROVE  [row EXCEPT !.status = s] # None /\ [row EXCEPT !.status = s].mat = row.mat
    <3>1. [row EXCEPT !.status = s] \in BidRow
      BY DEF BidRow, BidStatus
    <3> QED
      BY <3>1, NoneAssumption DEF BidRow
  <2>3. ASSUME NEW l \in ListingIds
        PROVE  \/ listing'[l] = listing[l]
               \/ listing[l] # None /\ listing'[l] # None /\ listing'[l].sold = listing[l].sold
    <3>1. CASE listing'[l] # listing[l]
      <4>1. PICK s \in {"EXPIRED", "CANCELLED"} : listing'[l] = [listing[l] EXCEPT !.status = s]
        BY <1>2, <3>1 DEF Closes
      <4>2. listing[l] # None
        BY <1>2, <3>1 DEF Closes
      <4> QED
        BY <1>1, <2>1, <4>1, <4>2
    <3> QED
      BY <3>1
  <2>4. ASSUME NEW b \in BidIds
        PROVE  \/ bid'[b] = bid[b]
               \/ bid[b] # None /\ bid'[b] # None /\ bid'[b].mat = bid[b].mat
    <3>1. CASE bid'[b] # bid[b]
      <4>1. PICK s \in {"EXPIRED", "CANCELLED"} : bid'[b] = [bid[b] EXCEPT !.status = s]
        BY <1>2, <3>1 DEF Closes
      <4>2. bid[b] # None
        BY <1>2, <3>1 DEF Closes
      <4> QED
        BY <1>1, <2>2, <4>1, <4>2
    <3> QED
      BY <3>1
  <2>5. SoldSame
    BY <2>3 DEF SoldSame
  <2>6. MatSame
    BY <2>4 DEF MatSame
  <2> QED
    BY <1>2, <2>5, <2>6 DEF Closes, Quiet
<1>3. ASSUME NEW l, NEW row, Lists(l, row) \/ Edits(l, row)
      PROVE  Quiet
  <2>1. /\ l \in ListingIds /\ row \in ListingRow
        /\ listing' = [listing EXCEPT ![l] = row] /\ UNCHANGED <<bid, matches>>
        /\ row.sold = IF listing[l] = None THEN 0 ELSE listing[l].sold
    BY <1>3 DEF Lists, Edits, Writes
  <2>2. row # None
    BY <2>1, NoneAssumption
  <2>3. listing'[l] = row /\ \A k \in ListingIds \ {l} : listing'[k] = listing[k]
    BY <1>1, <2>1
  <2>4. SoldSame
    BY <2>1, <2>2, <2>3 DEF SoldSame
  <2> QED
    BY <2>1, <2>4 DEF Quiet, MatSame
<1> QED
  BY <1>2, <1>3

\* Every step keeps the accounts.
LEMMA StepAccounts == IInv /\ AccountsInv /\ [Next]_vars => AccountsInv'
BY StepKinds, QuietKinds, QuietAccounts, FillAccounts

-----------------------------------------------------------------------------
(* One fill: its terms and its place in the queue *)

LEMMA NoNewMatches ==
  ASSUME UNCHANGED matches
  PROVE  NewMatches = {}
BY DEF NewMatches

\* The match rows of a step are those of its plan.
LEMMA NewMatchesAreFresh ==
  ASSUME AccountsInv, IInv, NEW b, NEW row, Fills(b, row), NEW left, NEW plan,
         Wrote(b, row, left, plan)
  PROVE  /\ \A m \in NewMatches : \E i \in 1..Len(plan) :
              /\ m.listing = plan[i].listing /\ m.bid = b
              /\ m.kwh = plan[i].kwh /\ m.price = plan[i].price
         /\ \A i \in 1..Len(plan) : \E m \in NewMatches : m.listing = plan[i].listing
<1> DEFINE fs == Fresh(b, plan)
<1>1. fs \in Seq(MatchRow) /\ Len(fs) = Len(plan)
  <2>1. loadMatchableListings(row) \subseteq ListingIds
    BY PlanOfBook DEF Fills, IInv
  <2> QED
    BY <2>1, FreshFacts DEF Wrote, Fills
<1>2. \A i \in 1..Len(plan) : fs[i] = [listing |-> plan[i].listing, bid |-> b,
                                     kwh |-> plan[i].kwh, price |-> plan[i].price]
  <2>1. DOMAIN plan = 1..Len(plan)
    BY FillsNamed DEF Wrote
  <2> QED
    BY <2>1 DEF Fresh
<1>3. matches \in Seq(MatchRow) /\ matches' = matches \o fs
  BY DEF AccountsInv, MatchesOK, Wrote
<1> HIDE DEF fs
<1>4. /\ Len(matches) \in Nat /\ Len(fs) \in Nat
      /\ matches' \in Seq(MatchRow) /\ Len(matches') = Len(matches) + Len(fs)
      /\ \A i \in 1..Len(fs) : matches'[Len(matches) + i] = fs[i]
  <2>1. fs \in Seq(MatchRow)
    BY <1>1
  <2>2. Len(matches) \in Nat /\ Len(fs) \in Nat
    BY <1>3, <2>1, LenProperties
  <2> QED
    BY <1>3, <2>1, <2>2, ConcatParts
<1>5. DOMAIN matches = 1..Len(matches) /\ DOMAIN matches' = 1..Len(matches')
  BY <1>3, <1>4, LenProperties
<1>6. ASSUME NEW m \in NewMatches
      PROVE  \E i \in 1..Len(plan) : m = fs[i]
  <2>1. PICK k \in DOMAIN matches' : k \notin DOMAIN matches /\ m = matches'[k]
    BY DEF NewMatches
  <2> DEFINE i == k - Len(matches)
  <2>2. i \in 1..Len(fs) /\ k = Len(matches) + i
    BY <1>4, <1>5, <2>1
  <2> QED
    BY <1>1, <1>4, <2>1, <2>2
<1>7. ASSUME NEW i \in 1..Len(plan)
      PROVE  fs[i] \in NewMatches
  <2>1. Len(matches) + i \in DOMAIN matches' \ DOMAIN matches
    BY <1>1, <1>4, <1>5
  <2> QED
    BY <1>1, <1>4, <2>1 DEF NewMatches
<1>8. ASSUME NEW i \in 1..Len(plan)
      PROVE  /\ fs[i].listing = plan[i].listing /\ fs[i].bid = b
             /\ fs[i].kwh = plan[i].kwh /\ fs[i].price = plan[i].price
  <2>1. fs[i] = [listing |-> plan[i].listing, bid |-> b, kwh |-> plan[i].kwh,
                 price |-> plan[i].price]
    BY <1>2
  <2> QED
    BY <2>1
<1> QED
  BY <1>6, <1>7, <1>8

LEMMA FillTerms ==
  ASSUME AccountsInv, IInv, NEW b, NEW row, Fills(b, row), NEW m \in NewMatches
  PROVE  LET r == listing[m.listing]
             buy == bid'[m.bid]
         IN  /\ r.status \in EDITABLE_STATUSES /\ r.until > now
             /\ r.seller # buy.buyer /\ r.market = buy.market
             /\ m.price = r.price /\ m.price <= buy.maxPrice
             /\ intervalsOverlap(r, buy)
             /\ m.kwh > 0 /\ m.kwh <= r.max
             /\ m.kwh >= r.min \/ listing'[m.listing].avail = 0
<1>1. b \in BidIds /\ row \in BidRow /\ BookOK
  BY DEF Fills, IInv
<1>2. PICK left, plan : Wrote(b, row, left, plan)
  BY <1>1, FillsWritten DEF Fills
<1>3. PICK i \in 1..Len(plan) : /\ m.listing = plan[i].listing /\ m.bid = b
                               /\ m.kwh = plan[i].kwh /\ m.price = plan[i].price
  BY <1>2, NewMatchesAreFresh
<1> DEFINE l == m.listing
           r == listing[l]
           buy == bid'[b]
<1>4. PlanOK(row, listing, left, plan, loadMatchableListings(row))
  BY <1>2 DEF Wrote
<1>5. l \in Named(plan) /\ FillOf(plan, l) = m.kwh
  BY <1>3, <1>4, FillsNamed
<1>6. /\ l \in ListingIds /\ l \in loadMatchableListings(row) /\ r \in ListingRow
      /\ listing'[l].avail = r.avail - m.kwh
      /\ buy.buyer = row.buyer /\ buy.market = row.market /\ buy.maxPrice = row.maxPrice
      /\ buy.from = row.from /\ buy.until = row.until
  BY <1>1, <1>2, <1>5, RowsWritten
<1>7. PICK open \in Nat : m.kwh = computePartialMatch(r, row, open)
  BY <1>3, <1>4 DEF PlanOK
<1>8. m.kwh > 0 /\ m.price = r.price
  BY <1>3, <1>4 DEF PlanOK
<1> HIDE DEF l, r, buy
<1>9. /\ isCompatible(r, row, open) /\ m.kwh <= r.max
      /\ m.kwh >= r.min \/ m.kwh = r.avail
  BY <1>1, <1>6, <1>7, <1>8, LotFacts
<1>10. m.kwh = r.avail => listing'[l].avail = 0
  BY <1>6 DEF ListingRow
<1>11. r.status \in EDITABLE_STATUSES /\ r.until > now
  BY <1>6 DEF loadMatchableListings, r
<1>12. /\ r.seller # buy.buyer /\ r.market = buy.market /\ m.price <= buy.maxPrice
       /\ intervalsOverlap(r, buy)
  BY <1>6, <1>8, <1>9 DEF isCompatible, intervalsOverlap
<1> QED
  BY <1>3, <1>8, <1>9, <1>10, <1>11, <1>12 DEF l, r, buy

LEMMA FillPriority ==
  ASSUME AccountsInv, IInv, NEW b, NEW row, Fills(b, row), NEW m \in NewMatches,
         NEW l \in ListingIds, listing[l] # None,
         \/ listing[l].price < m.price
         \/ /\ listing[l].price = m.price
            /\ listing[l].createdAt < listing[m.listing].createdAt,
         ~\E n \in NewMatches : n.listing = l
  PROVE  LET buy == bid'[m.bid]
         IN  \/ l \notin loadMatchableListings(buy)
             \/ computePartialMatch(listing[l], buy, m.kwh + buy.unm) = 0
<1>1. b \in BidIds /\ row \in BidRow /\ BookOK
  BY DEF Fills, IInv
<1>2. PICK left, plan : Wrote(b, row, left, plan)
  BY <1>1, FillsWritten DEF Fills
<1>3. PICK i \in 1..Len(plan) : /\ m.listing = plan[i].listing /\ m.bid = b
                               /\ m.kwh = plan[i].kwh /\ m.price = plan[i].price
  BY <1>2, NewMatchesAreFresh
<1>4. PlanOK(row, listing, left, plan, loadMatchableListings(row))
  BY <1>2 DEF Wrote
<1>5. l \notin Named(plan)
  BY SMTT(30), <1>2, <1>4, FillsNamed, NewMatchesAreFresh
<1> DEFINE buy == bid'[b]
<1>6. /\ buy.buyer = row.buyer /\ buy.market = row.market /\ buy.maxPrice = row.maxPrice
      /\ buy.from = row.from /\ buy.until = row.until /\ buy.target = row.target
      /\ buy.unm = left
  BY <1>1, <1>2, RowsWritten
<1>7. m.price = listing[m.listing].price
  BY <1>3, <1>4 DEF PlanOK
<1> HIDE DEF buy
<1>8. loadMatchableListings(buy) = loadMatchableListings(row)
  BY <1>6 DEF loadMatchableListings
<1>9. \A open : computePartialMatch(listing[l], buy, open) = computePartialMatch(listing[l], row, open)
  BY <1>6 DEF computePartialMatch, isCompatible, intervalsOverlap
<1>10. ASSUME l \in loadMatchableListings(row)
       PROVE  computePartialMatch(listing[l], row, m.kwh + left) = 0
  <2>1. Before(listing, l, plan[i].listing)
    BY <1>3, <1>7 DEF Before
  <2>2. PICK more \in Nat : /\ more >= plan[i].kwh + left
                           /\ computePartialMatch(listing[l], row, more) = 0
    BY <1>4, <1>5, <1>10, <2>1 DEF PlanOK, PassedOver
  <2>3. plan[i].kwh \in Nat /\ left \in Nat
    BY <1>4, KwhsType DEF PlanOK
  <2>4. listing[l] \in ListingRow
    BY <1>1 DEF BookOK, ListingsOK
  <2>5. m.kwh + left \in Nat /\ m.kwh + left <= more
    BY <1>3, <2>2, <2>3
  <2> QED
    BY <1>1, <2>2, <2>4, <2>5, LotMonotone
<1> QED
  BY <1>3, <1>6, <1>8, <1>9, <1>10 DEF buy

-----------------------------------------------------------------------------
(* The book is a ledger *)

\* A plan raises what the lots have given by what the demand takes.
LEMMA RaisedByPlan ==
  ASSUME NEW buy, NEW rows, NEW left, NEW plan, NEW ids, PlanOK(buy, rows, left, plan, ids),
         ids \subseteq ListingIds, NEW g \in [ListingIds -> Nat]
  PROVE  SumOver([l \in ListingIds |-> IF l \in Named(plan) THEN g[l] + FillOf(plan, l) ELSE g[l]])
           = SumOver(g) + Total(Kwhs(plan))
<1> DEFINE m == Len(plan)
           Upto(n) == {plan[i].listing : i \in 1..n}
           Raised(n) == [l \in ListingIds |-> IF l \in Upto(n) THEN g[l] + FillOf(plan, l) ELSE g[l]]
<1>1. /\ DOMAIN plan = 1..m /\ m \in Nat
      /\ \A i \in 1..m : /\ plan[i] \in FillsOf(ids) /\ plan[i].listing \in Named(plan)
                        /\ FillOf(plan, plan[i].listing) = plan[i].kwh
  BY FillsNamed
<1>2. \A i \in 1..m : plan[i].listing \in ListingIds /\ plan[i].kwh \in Nat
  BY <1>1 DEF FillsOf
<1>3. \A i, j \in 1..m : plan[i].listing = plan[j].listing => i = j
  BY DEF PlanOK
<1>4. /\ Kwhs(plan) \in Seq(Nat) /\ Len(Kwhs(plan)) = m
      /\ \A i \in 1..m : Kwhs(plan)[i] = plan[i].kwh
  BY KwhsType DEF PlanOK
<1>5. PICK f : PartialSums(f, Kwhs(plan), m)
  BY <1>1, SumsExist
<1>6. /\ \A n \in 0..m : f[n] \in Nat
      /\ f[m] = Total(Kwhs(plan))
      /\ f[0] = 0
      /\ \A n \in 1..m : f[n] = f[n - 1] + plan[n].kwh
  <2>1. /\ \A n \in 0..m : f[n] \in Nat
        /\ f[m] = Total(Kwhs(plan))
    BY <1>1, <1>4, <1>5, SumsGrow, TotalIs
  <2>2. f[0] = 0
    BY <1>1, <1>5 DEF PartialSums
  <2>3. \A n \in 1..m : n \in 0..m /\ n # 0
    BY <1>1
  <2>4. \A n \in 1..m : f[n] = f[n - 1] + plan[n].kwh
    BY <1>4, <1>5, <2>3 DEF PartialSums
  <2> QED
    BY <2>1, <2>2, <2>4
<1>7. SumOver(g) \in Nat
  BY BookAssumption, SumType DEF BookAssumption
<1> HIDE DEF m
<1> DEFINE S == {n \in Nat : n <= m => SumOver(Raised(n)) = SumOver(g) + f[n]}
<1>8. 0 \in S
  <2>1. Raised(0) = g
    OBVIOUS
  <2> HIDE DEF Raised
  <2> QED
    BY <1>6, <1>7, <2>1
<1>9. ASSUME NEW n \in Nat, n \in S
      PROVE  n + 1 \in S
  <2> SUFFICES ASSUME n + 1 <= m PROVE SumOver(Raised(n + 1)) = SumOver(g) + f[n + 1]
    OBVIOUS
  <2> DEFINE x == plan[n + 1].listing
             k == plan[n + 1].kwh
  <2>1. n + 1 \in 1..m /\ n <= m /\ n \in 0..m /\ \A i \in 1..n : i \in 1..m /\ i # n + 1
    BY <1>1
  <2>2. x \in ListingIds /\ k \in Nat /\ FillOf(plan, x) = k
    BY <1>1, <1>2, <2>1
  <2>3. x \notin Upto(n)
    BY <1>3, <2>1
  <2>4. Upto(n + 1) = Upto(n) \cup {x}
    <3>1. \A i : i \in 1..(n + 1) <=> i \in 1..n \/ i = n + 1
      OBVIOUS
    <3> QED
      BY <3>1
  <2>5. Raised(n) \in [ListingIds -> Nat]
    <3>1. \A l \in Upto(n) : FillOf(plan, l) \in Nat
      BY <1>1, <1>2, <2>1
    <3> HIDE DEF Upto
    <3> QED
      BY <3>1
  <2> HIDE DEF x, k, Upto
  <2>6. Raised(n)[x] = g[x] /\ g[x] + k = Raised(n)[x] + k
    BY <2>2, <2>3
  <2>7. Raised(n + 1) = [Raised(n) EXCEPT ![x] = Raised(n)[x] + k]
    BY <2>2, <2>4, <2>6
  <2> HIDE DEF Raised
  <2>8. SumOver(Raised(n + 1)) = SumOver(Raised(n)) + k
    <3> DEFINE h == Raised(n)
    <3>1. h \in [ListingIds -> Nat] /\ x \in ListingIds /\ k \in Nat
      BY <2>2, <2>5
    <3>2. IsFiniteSet(ListingIds)
      BY BookAssumption DEF BookAssumption
    <3> HIDE DEF h
    <3>3. SumOver([h EXCEPT ![x] = h[x] + k]) = SumOver(h) + k
      BY ZenonT(30), <3>1, <3>2, RaisedSum
    <3> QED
      BY <2>7, <3>3 DEF h
  <2>9. SumOver(Raised(n)) = SumOver(g) + f[n]
    BY <1>9, <2>1
  <2>10. f[n + 1] = f[n] + k /\ f[n] \in Nat
    BY <1>6, <2>1 DEF k
  <2> QED
    BY <1>7, <2>2, <2>8, <2>9, <2>10
<1> HIDE DEF S
<1>10. m \in S
  BY <1>1, <1>8, <1>9, SetInduction
<1>11. SumOver(Raised(m)) = SumOver(g) + Total(Kwhs(plan))
  BY <1>1, <1>6, <1>10 DEF S
<1>12. Upto(m) = Named(plan)
  BY <1>1 DEF Named
<1> QED
  BY <1>11, <1>12

Marks(A, B) == {<<"lot", l>> : l \in A} \cup {<<"demand", b>> : b \in B}

LEMMA MarksFacts ==
  ASSUME NEW A, NEW B, NEW C, NEW D
  PROVE  /\ A \subseteq C /\ B \subseteq D => Marks(A, B) \subseteq Marks(C, D)
         /\ \A l : <<"lot", l>> \in Marks(A, B) <=> l \in A
         /\ \A b : <<"demand", b>> \in Marks(A, B) <=> b \in B
<1>1. \A l : <<"lot", l>> \in Marks(A, B) <=> l \in A
  BY DEF Marks
<1>2. \A b : <<"demand", b>> \in Marks(A, B) <=> b \in B
  BY DEF Marks
<1>3. A \subseteq C /\ B \subseteq D => Marks(A, B) \subseteq Marks(C, D)
  BY DEF Marks
<1> QED
  BY <1>1, <1>2, <1>3

LEMMA FilledStatus ==
  ASSUME NEW row \in ListingRow, NEW kwh
  PROVE  Filled(row, kwh).status = listingStatusAfterFill(Filled(row, kwh).avail, Filled(row, kwh).sold)
BY DEF Filled, applyFill, ListingRow

LEMMA CloseStep ==
  ASSUME IInv, Closes
  PROVE  LedgerView!Close
<1>1. /\ \A l \in ListingIds : listing[l] # None => listing[l] \in ListingRow
      /\ \A b \in BidIds : bid[b] # None => bid[b] \in BidRow
  BY DEF IInv, BookOK, ListingsOK, BidsOK
<1>2. ASSUME NEW row \in ListingRow, NEW s \in {"EXPIRED", "CANCELLED"}
      PROVE  LET new == [row EXCEPT !.status = s]
             IN  /\ new # None /\ new.orig = row.orig /\ new.sold = row.sold
                 /\ new.status \notin EDITABLE_STATUSES
  <2>1. s \in ListingStatus
    BY DEF ListingStatus
  <2>2. [row EXCEPT !.status = s] \in ListingRow
    BY <2>1, StatusOnly
  <2> QED
    BY <2>2, NoneAssumption DEF ListingRow, EDITABLE_STATUSES
<1>3. ASSUME NEW row \in BidRow, NEW s \in {"EXPIRED", "CANCELLED"}
      PROVE  LET new == [row EXCEPT !.status = s]
             IN  /\ new # None /\ new.req = row.req /\ new.mat = row.mat
                 /\ new.status \notin OPEN_BID
  <2>1. [row EXCEPT !.status = s] \in BidRow
    BY DEF BidRow, BidStatus
  <2> QED
    BY <2>1, NoneAssumption DEF BidRow, OPEN_BID
<1>4. ASSUME NEW l \in ListingIds
      PROVE  \/ listing'[l] = listing[l]
             \/ /\ listing[l] # None /\ listing'[l] # None
                /\ listing'[l].orig = listing[l].orig /\ listing'[l].sold = listing[l].sold
                /\ listing'[l].status \notin EDITABLE_STATUSES
  <2>1. CASE listing'[l] # listing[l]
    <3>1. PICK s \in {"EXPIRED", "CANCELLED"} : listing'[l] = [listing[l] EXCEPT !.status = s]
      BY <2>1 DEF Closes
    <3>2. listing[l] # None
      BY <2>1 DEF Closes
    <3> QED
      BY <1>1, <1>2, <3>1, <3>2
  <2> QED
    BY <2>1
<1>5. ASSUME NEW b \in BidIds
      PROVE  \/ bid'[b] = bid[b]
             \/ /\ bid[b] # None /\ bid'[b] # None
                /\ bid'[b].req = bid[b].req /\ bid'[b].mat = bid[b].mat
                /\ bid'[b].status \notin OPEN_BID
  <2>1. CASE bid'[b] # bid[b]
    <3>1. PICK s \in {"EXPIRED", "CANCELLED"} : bid'[b] = [bid[b] EXCEPT !.status = s]
      BY <2>1 DEF Closes
    <3>2. bid[b] # None
      BY <2>1 DEF Closes
    <3> QED
      BY <1>1, <1>3, <3>1, <3>2
  <2> QED
    BY <2>1
<1>6. SupplyNow' = SupplyNow /\ GivenNow' = GivenNow
  BY <1>4 DEF SupplyNow, GivenNow
<1>7. WantedNow' = WantedNow /\ GotNow' = GotNow
  BY <1>5 DEF WantedNow, GotNow
<1>8. LotsOpen' \subseteq LotsOpen
  BY <1>4 DEF LotsOpen
<1>9. BidsOpen' \subseteq BidsOpen
  BY <1>5 DEF BidsOpen
<1>10. OpenNow' \subseteq OpenNow
  <2>1. OpenNow = Marks(LotsOpen, BidsOpen) /\ OpenNow' = Marks(LotsOpen', BidsOpen')
    BY DEF Marks, OpenNow
  <2> QED
    BY <1>8, <1>9, <2>1, MarksFacts
<1> QED
  BY <1>6, <1>7, <1>10
     DEF LedgerView!Close

LEMMA OfferStep ==
  ASSUME IInv, NEW l, NEW row, Lists(l, row)
  PROVE  LedgerView!Offer(l)
<1>1. /\ l \in ListingIds /\ row \in ListingRow /\ listing' = [listing EXCEPT ![l] = row]
      /\ UNCHANGED bid /\ listing[l] = None /\ row.orig > 0 /\ row.sold = 0
      /\ row.status = "ACTIVE"
  BY DEF Lists, Writes
<1>2. listing'[l] = row /\ \A k \in ListingIds \ {l} : listing'[k] = listing[k]
  BY <1>1 DEF IInv, BookOK
<1>3. row # None
  BY <1>1, NoneAssumption
<1>4. /\ SupplyNow[l] = 0 /\ SupplyNow'[l] > 0
      /\ \A y \in DOMAIN SupplyNow \ {l} : SupplyNow'[y] = SupplyNow[y]
  BY <1>1, <1>2, <1>3 DEF SupplyNow
<1>5. GivenNow' = GivenNow
  BY <1>1, <1>2, <1>3 DEF GivenNow
<1>6. WantedNow' = WantedNow /\ GotNow' = GotNow /\ BidsOpen' = BidsOpen
  BY <1>1 DEF WantedNow, GotNow, BidsOpen
<1>7. LotsOpen' = LotsOpen \cup {l}
  BY <1>1, <1>2, <1>3 DEF LotsOpen, EDITABLE_STATUSES
<1>8. OpenNow' = OpenNow \cup {<<"lot", l>>}
  <2>1. OpenNow = Marks(LotsOpen, BidsOpen) /\ OpenNow' = Marks(LotsOpen', BidsOpen')
    BY DEF Marks, OpenNow
  <2> DEFINE A == LotsOpen
             B == BidsOpen
  <2> HIDE DEF A, B
  <2>2. Marks(A \cup {l}, B) = Marks(A, B) \cup {<<"lot", l>>}
    BY DEF Marks
  <2> QED
    BY <1>6, <1>7, <2>1, <2>2 DEF A, B
<1> QED
  BY <1>4, <1>5, <1>6, <1>8
     DEF LedgerView!Offer, LedgerView!OnlyAt

LEMMA ResizeStep ==
  ASSUME IInv, NEW l, NEW row, Edits(l, row)
  PROVE  LedgerView!Resize(l)
<1>1. /\ l \in ListingIds /\ row \in ListingRow /\ listing' = [listing EXCEPT ![l] = row]
      /\ UNCHANGED bid /\ listing[l] # None /\ listing[l].status \in EDITABLE_STATUSES
      /\ row.status = listing[l].status /\ row.sold = listing[l].sold /\ row.sold <= row.orig
  BY DEF Edits, Writes
<1>2. listing'[l] = row /\ \A k \in ListingIds \ {l} : listing'[k] = listing[k]
  BY <1>1 DEF IInv, BookOK
<1>3. row # None
  BY <1>1, NoneAssumption
<1>4. /\ SupplyNow'[l] >= GivenNow[l]
      /\ \A y \in DOMAIN SupplyNow \ {l} : SupplyNow'[y] = SupplyNow[y]
  BY <1>1, <1>2, <1>3 DEF SupplyNow, GivenNow, ListingRow
<1>5. GivenNow' = GivenNow
  BY <1>1, <1>2, <1>3 DEF GivenNow
<1>6. WantedNow' = WantedNow /\ GotNow' = GotNow /\ BidsOpen' = BidsOpen
  BY <1>1 DEF WantedNow, GotNow, BidsOpen
<1>7. LotsOpen' = LotsOpen /\ l \in LotsOpen
  BY <1>1, <1>2, <1>3 DEF LotsOpen
<1>8. /\ OpenNow' = OpenNow
      /\ <<"lot", l>> \in OpenNow
  <2>1. OpenNow = Marks(LotsOpen, BidsOpen) /\ OpenNow' = Marks(LotsOpen', BidsOpen')
    BY DEF Marks, OpenNow
  <2> QED
    BY <1>6, <1>7, <2>1, MarksFacts
<1> QED
  BY <1>4, <1>5, <1>6, <1>8
     DEF LedgerView!Resize, LedgerView!OnlyAt

\* The ledger sums as the book does.
LEMMA SameSums ==
  ASSUME NEW f
  PROVE  LedgerView!SumOver(f) = SumOver(f)
<1>1. ASSUME NEW s
      PROVE  LedgerView!Total(s) = Total(s)
  BY DEF LedgerView!Total, Total
<1>2. ASSUME NEW S
      PROVE  LedgerView!Listed(S) = Listed(S)
  <2>1. LedgerView!Cardinality(S) = Cardinality(S)
    BY DEF LedgerView!Cardinality, Cardinality
  <2> QED
    BY <2>1 DEF LedgerView!Listed, Listed
<1> QED
  BY <1>1, <1>2 DEF LedgerView!SumOver, SumOver

\* A fill, of a new bid or of an open one, is a trade of the ledger.
LEMMA TradeStep ==
  ASSUME IInv, NEW b, NEW row, Fills(b, row)
  PROVE  LedgerView!Trade(b)
<1>1. b \in BidIds /\ row \in BidRow /\ BookOK /\ checkBidQuantity(row.req, row.unm, row.mat)
  BY DEF Fills, IInv
<1>2. PICK left, plan : Wrote(b, row, left, plan)
  BY <1>1, FillsWritten DEF Fills
<1> DEFINE sum == Total(Kwhs(plan))
           new == bid'[b]
<1>3. /\ PlanOK(row, listing, left, plan, loadMatchableListings(row))
      /\ loadMatchableListings(row) \subseteq ListingIds
  BY <1>1, <1>2, PlanOfBook DEF Wrote
<1>4. sum \in Nat /\ left \in Nat /\ sum + left = row.unm
  BY <1>3, KwhsType, NatTotal DEF PlanOK
<1>5. /\ \A l \in ListingIds \ Named(plan) : listing'[l] = listing[l]
      /\ \A l \in Named(plan) :
           /\ l \in ListingIds /\ l \in loadMatchableListings(row)
           /\ listing[l] # None /\ listing[l] \in ListingRow /\ Sound(listing[l])
           /\ FillOf(plan, l) \in Nat /\ FillOf(plan, l) > 0
           /\ FillOf(plan, l) <= listing[l].avail
           /\ listing'[l] = Filled(listing[l], FillOf(plan, l))
           /\ listing'[l].orig = listing[l].orig
           /\ listing'[l].avail = listing[l].avail - FillOf(plan, l)
           /\ listing'[l].sold = listing[l].sold + FillOf(plan, l)
      /\ \A c \in BidIds \ {b} : bid'[c] = bid[c]
      /\ new.unm = left /\ new.mat = row.mat + sum /\ new.req = row.req
      /\ new.status = bidStatusAfterFill(left, row.mat + sum)
  BY <1>1, <1>2, RowsWritten
<1>6. /\ ListingsGo /\ BidsGo
      /\ \A l \in Named(plan) : listing'[l] # None
  <2>1. ListingsGo /\ BidsGo
    BY <1>1, FillsPreserve DEF Fills
  <2> QED
    BY <1>5, <2>1 DEF ListingsGo
<1>7. new # None
  <2>1. row.mat + sum \in Nat
    BY <1>1, <1>4 DEF BidRow
  <2>2. new = BidFilled(row, left, sum)
    BY <1>1, <1>2, RowsWritten
  <2> HIDE DEF new, sum
  <2>3. BidFilled(row, left, sum) \in BidRow
    BY <1>1, <1>4, <2>1 DEF BidFilled, BidRow, bidStatusAfterFill, BidStatus
  <2> QED
    BY <2>2, <2>3, NoneAssumption
<1>8. /\ row.req \in Nat /\ row.unm \in Nat /\ row.mat \in Nat /\ row.unm + row.mat = row.req
  BY <1>1 DEF checkBidQuantity, BidRow
<1> HIDE DEF sum, new
\* The demand and what it takes.
<1>9. /\ WantedNow'[b] = row.req /\ GotNow'[b] = row.mat + sum
      /\ \A c \in BidIds \ {b} : WantedNow'[c] = WantedNow[c] /\ GotNow'[c] = GotNow[c]
  BY <1>1, <1>5, <1>7 DEF WantedNow, GotNow, new
<1>10. GotNow[b] = row.mat /\ GotNow'[b] <= WantedNow'[b] /\ GotNow'[b] - GotNow[b] = sum
  <2>1. GotNow[b] = row.mat
    BY <1>1 DEF Fills, GotNow
  <2> QED
    BY <1>4, <1>8, <1>9, <2>1
<1>11. \/ WantedNow[b] = 0 /\ WantedNow'[b] > 0
          /\ \A y \in DOMAIN WantedNow \ {b} : WantedNow'[y] = WantedNow[y]
       \/ b \in BidsOpen /\ WantedNow' = WantedNow
  <2>1. CASE bid[b] = None /\ row.req > 0
    BY <1>1, <1>9, <2>1 DEF WantedNow
  <2>2. CASE bid[b] = row /\ row # None /\ row.status \in OPEN_BID
    <3>1. WantedNow[b] = row.req /\ b \in BidsOpen
      BY <1>1, <2>2 DEF WantedNow, BidsOpen
    <3>2. \A c \in BidIds : WantedNow'[c] = WantedNow[c]
      BY <1>9, <3>1
    <3> QED
      BY <3>1, <3>2 DEF WantedNow
  <2> QED
    BY <2>1, <2>2 DEF Fills, NewOrOpen
\* The lots and what they give.
<1>12. SupplyNow' = SupplyNow
  <2>1. \A l \in ListingIds : SupplyNow'[l] = SupplyNow[l]
    BY <1>5, <1>6 DEF SupplyNow
  <2> QED
    BY <2>1 DEF SupplyNow
<1>13. /\ GivenNow \in [ListingIds -> Nat] /\ SupplyNow \in [ListingIds -> Nat]
       /\ \A l \in ListingIds : GivenNow[l] <= SupplyNow[l]
  BY <1>1 DEF GivenNow, SupplyNow, BookOK, ListingsOK, ListingRow, Sound, Intact,
              checkQuantityIntegrity
<1>14. /\ \A l \in Named(plan) : /\ l \in LotsOpen /\ GivenNow'[l] = GivenNow[l] + FillOf(plan, l)
                                 /\ SupplyNow[l] - GivenNow'[l] = listing'[l].avail
       /\ \A l \in ListingIds \ Named(plan) : GivenNow'[l] = GivenNow[l]
  <2>1. ASSUME NEW l \in Named(plan)
        PROVE  /\ l \in LotsOpen /\ GivenNow'[l] = GivenNow[l] + FillOf(plan, l)
               /\ SupplyNow[l] - GivenNow'[l] = listing'[l].avail
    <3>1. l \in LotsOpen
      BY <1>5 DEF LotsOpen, loadMatchableListings
    <3>2. GivenNow[l] = listing[l].sold /\ SupplyNow[l] = listing[l].orig
      BY <1>5 DEF GivenNow, SupplyNow
    <3>3. GivenNow'[l] = listing[l].sold + FillOf(plan, l)
      BY <1>5, <1>6 DEF GivenNow
    <3>4. /\ listing[l].sold \in Nat /\ listing[l].orig \in Nat /\ listing[l].avail \in Nat
          /\ listing[l].avail + listing[l].sold = listing[l].orig
      BY <1>5 DEF Sound, Intact, checkQuantityIntegrity, ListingRow
    <3>5. listing[l].orig - (listing[l].sold + FillOf(plan, l)) = listing[l].avail - FillOf(plan, l)
      BY <1>5, <3>4
    <3> QED
      BY <1>5, <3>1, <3>2, <3>3, <3>5
  <2>2. \A l \in ListingIds \ Named(plan) : GivenNow'[l] = GivenNow[l]
    BY <1>5 DEF GivenNow
  <2> QED
    BY <2>1, <2>2
<1>15. \A l \in ListingIds : /\ GivenNow[l] <= GivenNow'[l] /\ GivenNow'[l] <= SupplyNow[l]
                             /\ GivenNow'[l] # GivenNow[l] => l \in LotsOpen
  <2>1. ASSUME NEW l \in Named(plan)
        PROVE  GivenNow[l] <= GivenNow'[l] /\ GivenNow'[l] <= SupplyNow[l] /\ l \in LotsOpen
    <3>1. /\ GivenNow'[l] = GivenNow[l] + FillOf(plan, l) /\ GivenNow[l] \in Nat
          /\ SupplyNow[l] - GivenNow'[l] = listing'[l].avail /\ SupplyNow[l] \in Nat
          /\ listing'[l].avail = listing[l].avail - FillOf(plan, l)
          /\ FillOf(plan, l) \in Nat /\ FillOf(plan, l) <= listing[l].avail
          /\ listing[l].avail \in Nat
      BY <1>5, <1>13, <1>14 DEF ListingRow
    <3> QED
      BY <1>14, <3>1
  <2>2. ASSUME NEW l \in ListingIds \ Named(plan)
        PROVE  GivenNow[l] <= GivenNow'[l] /\ GivenNow'[l] <= SupplyNow[l] /\ GivenNow'[l] = GivenNow[l]
    BY <1>13, <1>14
  <2> QED
    BY <2>1, <2>2
<1>16. GotNow'[b] - GotNow[b] = SumOver(GivenNow') - SumOver(GivenNow)
  <2> DEFINE g == GivenNow
  <2>1. GivenNow' = [l \in ListingIds |-> IF l \in Named(plan) THEN g[l] + FillOf(plan, l) ELSE g[l]]
    <3>1. GivenNow' = [l \in ListingIds |-> GivenNow'[l]]
      BY DEF GivenNow
    <3> QED
      BY <1>14, <3>1
  <2>2. g \in [ListingIds -> Nat] /\ IsFiniteSet(ListingIds)
    BY <1>13, BookAssumption DEF BookAssumption
  <2> HIDE DEF g
  <2>3. SumOver(GivenNow') = SumOver(g) + sum /\ SumOver(g) \in Nat
    BY <1>3, <2>1, <2>2, RaisedByPlan, SumType DEF sum
  <2>4. (SumOver(g) + sum) - SumOver(g) = sum
    BY <1>4, <2>3
  <2> QED
    BY <1>10, <2>3, <2>4 DEF g
\* What is used up closes.
<1> DEFINE Spent == {k \in ListingIds : GivenNow'[k] = SupplyNow[k]}
           Met == {e \in BidIds : GotNow'[e] = WantedNow'[e]}
<1>17. LotsOpen' = LotsOpen \ Spent
  <2>1. ASSUME NEW l \in Named(plan)
        PROVE  l \in LotsOpen' <=> l \in LotsOpen \ Spent
    <3>1. l \in ListingIds /\ l \in LotsOpen /\ listing'[l] # None
      BY <1>5, <1>6, <1>14
    <3>2. l \in Spent <=> listing'[l].avail = 0
      <4> DEFINE s == SupplyNow[l]
                 g == GivenNow[l]
                 k == FillOf(plan, l)
                 h == GivenNow'[l]
      <4>1. s \in Nat /\ g \in Nat /\ k \in Nat
        BY <1>5, <1>13, <3>1
      <4>2. h = g + k /\ s - h = listing'[l].avail
        BY <1>14
      <4> HIDE DEF s, g, k, h
      <4>3. h \in Nat
        BY <4>1, <4>2
      <4>4. h = s <=> listing'[l].avail = 0
        BY <4>1, <4>2, <4>3
      <4> QED
        BY <3>1, <4>4 DEF s, h
    <3>3. listing'[l].status = listingStatusAfterFill(listing'[l].avail, listing'[l].sold)
      <4>1. listing[l] \in ListingRow /\ listing'[l] = Filled(listing[l], FillOf(plan, l))
        BY <1>5
      <4> QED
        BY <4>1, FilledStatus
    <3>4. listing'[l].status \in EDITABLE_STATUSES <=> ~(listing'[l].avail <= 0)
      BY <3>3 DEF listingStatusAfterFill, EDITABLE_STATUSES
    <3>5. listing'[l].avail \in Nat
      BY <1>5 DEF ListingRow
    <3> QED
      BY <3>1, <3>2, <3>4, <3>5 DEF LotsOpen
  <2>2. ASSUME NEW l \in ListingIds \ Named(plan)
        PROVE  l \in LotsOpen' <=> l \in LotsOpen \ Spent
    <3>1. l \in LotsOpen' <=> l \in LotsOpen
      BY <1>5 DEF LotsOpen
    <3>2. l \in LotsOpen => l \notin Spent
      <4> SUFFICES ASSUME l \in LotsOpen PROVE GivenNow'[l] # SupplyNow[l]
        OBVIOUS
      <4>1. listing[l] \in ListingRow /\ Sound(listing[l]) /\ listing[l] # None
        BY <1>1 DEF LotsOpen, BookOK, ListingsOK
      <4>2. listing[l].avail > 0
        BY <4>1 DEF LotsOpen, EDITABLE_STATUSES, Sound, WordFits
      <4>3. listing[l].sold # listing[l].orig
        BY <4>1, <4>2 DEF Sound, Intact, checkQuantityIntegrity, ListingRow
      <4>4. GivenNow'[l] = listing[l].sold /\ SupplyNow[l] = listing[l].orig
        BY <1>14, <4>1 DEF GivenNow, SupplyNow
      <4> QED
        BY <4>3, <4>4
    <3> QED
      BY <3>1, <3>2
  <2>3. LotsOpen' \subseteq ListingIds /\ LotsOpen \subseteq ListingIds
    BY DEF LotsOpen
  <2> HIDE DEF Spent
  <2> QED
    BY <2>1, <2>2, <2>3
<1>18. BidsOpen' = (BidsOpen \cup {b}) \ Met
  <2>1. b \in BidsOpen' <=> b \notin Met
    <3>1. b \in Met <=> left = 0
      BY <1>1, <1>4, <1>8, <1>9
    <3>2. new.status \in OPEN_BID <=> ~(left <= 0)
      BY <1>5 DEF bidStatusAfterFill, OPEN_BID
    <3> QED
      BY <1>1, <1>4, <1>7, <3>1, <3>2 DEF BidsOpen, new
  <2>2. ASSUME NEW c \in BidIds \ {b}
        PROVE  c \in BidsOpen' <=> c \in BidsOpen \ Met
    <3>1. c \in BidsOpen' <=> c \in BidsOpen
      BY <1>5 DEF BidsOpen
    <3>2. c \in BidsOpen => c \notin Met
      <4> SUFFICES ASSUME c \in BidsOpen PROVE GotNow'[c] # WantedNow'[c]
        OBVIOUS
      <4>1. bid[c] \in BidRow /\ BidSound(bid[c]) /\ bid[c] # None
        BY <1>1 DEF BidsOpen, BookOK, BidsOK
      <4>2. bid[c].unm > 0
        BY <4>1 DEF BidsOpen, OPEN_BID, BidSound, BidWordFits
      <4>3. bid[c].mat # bid[c].req
        BY <4>1, <4>2 DEF BidSound, checkBidQuantity, BidRow
      <4>4. GotNow'[c] = bid[c].mat /\ WantedNow'[c] = bid[c].req
        BY <1>9, <4>1 DEF GotNow, WantedNow
      <4> QED
        BY <4>3, <4>4
    <3> QED
      BY <3>1, <3>2
  <2>3. BidsOpen' \subseteq BidIds /\ BidsOpen \subseteq BidIds
    BY DEF BidsOpen
  <2> HIDE DEF Met
  <2> QED
    BY <1>1, <2>1, <2>2, <2>3
<1>19. OpenNow'
         = (OpenNow \cup {<<"demand", b>>}) \ Marks(Spent, Met)
  <2>1. OpenNow = Marks(LotsOpen, BidsOpen) /\ OpenNow' = Marks(LotsOpen', BidsOpen')
    BY DEF Marks, OpenNow
  <2> DEFINE A == LotsOpen
             B == BidsOpen
  <2> HIDE DEF Spent, Met, A, B
  <2>2. Marks(A \ Spent, (B \cup {b}) \ Met)
          = (Marks(A, B) \cup {<<"demand", b>>}) \ Marks(Spent, Met)
    BY DEF Marks
  <2> QED
    BY <1>17, <1>18, <2>1, <2>2 DEF A, B
<1>20. /\ \A l : <<"lot", l>> \in OpenNow <=> l \in LotsOpen
       /\ \A c : <<"demand", c>> \in OpenNow <=> c \in BidsOpen
  BY DEF OpenNow
<1>21. DOMAIN GotNow = BidIds /\ DOMAIN WantedNow = BidIds
  BY DEF GotNow, WantedNow
<1>22. /\ \/ WantedNow[b] = 0 /\ WantedNow'[b] > 0
             /\ \A y \in DOMAIN WantedNow \ {b} : WantedNow'[y] = WantedNow[y]
          \/ <<"demand", b>> \in OpenNow /\ WantedNow' = WantedNow
       /\ GotNow'[b] <= WantedNow'[b]
       /\ \A y \in DOMAIN GotNow \ {b} : GotNow'[y] = GotNow[y]
  BY <1>9, <1>10, <1>11, <1>20, <1>21
<1>23. GotNow'[b] - GotNow[b] = LedgerView!SumOver(GivenNow') - LedgerView!SumOver(GivenNow)
  <2> DEFINE g == GivenNow
             h == GivenNow'
  <2> HIDE DEF g, h
  <2>1. LedgerView!SumOver(g) = SumOver(g) /\ LedgerView!SumOver(h) = SumOver(h)
    BY SameSums
  <2> QED
    BY <1>16, <2>1 DEF g, h
<1>24. OpenNow' = (OpenNow \cup {<<"demand", b>>})
             \ ({<<"lot", l>> : l \in {k \in ListingIds : GivenNow'[k] = SupplyNow[k]}}
                  \cup {<<"demand", e>> : e \in {e \in BidIds : GotNow'[e] = WantedNow'[e]}})
  BY <1>19 DEF Marks
<1> QED
  <2>1. \/ WantedNow[b] = 0 /\ WantedNow'[b] > 0 /\ LedgerView!OnlyAt(WantedNow, WantedNow', b)
        \/ <<"demand", b>> \in OpenNow /\ UNCHANGED WantedNow
    BY <1>22 DEF LedgerView!OnlyAt
  <2>2. \A l \in ListingIds : /\ GivenNow[l] <= GivenNow'[l] /\ GivenNow'[l] <= SupplyNow[l]
                              /\ GivenNow'[l] # GivenNow[l] => <<"lot", l>> \in OpenNow
    BY <1>15, <1>20
  <2>3. GotNow'[b] <= WantedNow'[b] /\ LedgerView!OnlyAt(GotNow, GotNow', b)
    BY <1>22 DEF LedgerView!OnlyAt
  <2>4. UNCHANGED SupplyNow
    BY <1>12
  <2> QED
    BY <1>23, <1>24, <2>1, <2>2, <2>3, <2>4, Zenon DEF LedgerView!Trade

-----------------------------------------------------------------------------
(* Results *)

\* The tables of the book and its requests in flight are always well formed, and
\* no match loses its listing or its bid (the types of the Prisma models).
THEOREM TypesHold == Spec => []TypeOK
<1>1. IInv /\ AccountsInv => TypeOK
  <2> SUFFICES ASSUME IInv, AccountsInv PROVE TypeOK
    OBVIOUS
  <2>1. /\ now \in 0..MaxTime /\ req \in [Requests -> Request]
        /\ listing \in [ListingIds -> ListingRow \cup {None}]
        /\ bid \in [BidIds -> BidRow \cup {None}]
    BY DEF IInv, BookOK, ListingsOK, BidsOK, ReqOK
  <2>2. /\ matches \in Seq(MatchRow) /\ DOMAIN matches = 1..Len(matches)
        /\ \A i \in 1..Len(matches) :
             listing[matches[i].listing] # None /\ bid[matches[i].bid] # None
    BY LenProperties DEF AccountsInv, MatchesOK
  <2> QED
    BY <2>1, <2>2 DEF TypeOK
<1> QED
  BY <1>1, InitIInv, StepPreserves, InitAccounts, StepAccounts, PTL DEF Spec

\* available + sold = original for every listing and unmatched + matched =
\* requested for every bid (docs/database.md), for any number of concurrent
\* fills, edits, cancellations and expiries.
THEOREM QuantityIdentityHolds == Spec => []QuantityIdentity
<1>1. IInv => QuantityIdentity
  BY IInvImplies
<1> QED
  BY <1>1, InitIInv, StepPreserves, PTL DEF Spec

\* The lifecycle word of a listing or a bid never contradicts its numbers, for
\* every interleaving of the same handlers.
THEOREM StatusTellsQuantityHolds == Spec => []StatusTellsQuantity
<1>1. IInv => StatusTellsQuantity
  BY IInvImplies
<1> QED
  BY <1>1, InitIInv, StepPreserves, PTL DEF Spec

\* No invented volume: the sold column of every listing is the sum of its match
\* rows and the matched column of every bid the sum of its own.  AccountsInv is
\* inductive only next to IInv, which keeps rows from disappearing.
THEOREM SoldIsMatchedHolds == Spec => []SoldIsMatched
<1>1. AccountsInv => SoldIsMatched
  BY DEF AccountsInv
<1> QED
  BY <1>1, InitIInv, StepPreserves, InitAccounts, StepAccounts, PTL DEF Spec

\* The planner and the checks of the fill loop agree: whoever places whichever
\* order on whichever book, no fill is aborted with QUANTITY_INTEGRITY.
THEOREM NoFillAbortsHolds == Spec => []NoFillAborts
<1>1. IInv => NoFillAborts
  <2> SUFFICES ASSUME IInv, NEW u \in Users, NEW o \in Orders
               PROVE  FillsAccepted(NewBid(u, o), PlanFor(NewBid(u, o)))
    BY DEF NoFillAborts
  <2>1. NewBid(u, o) \in BidRow
    BY NewBidRow
  <2>2. checkBidQuantity(NewBid(u, o).req, NewBid(u, o).unm, NewBid(u, o).mat)
    BY BookAssumption DEF BookAssumption, OrderShape, NewBid, checkBidQuantity
  <2> QED
    BY <2>1, <2>2, PlanAccepted DEF IInv
<1> QED
  BY <1>1, InitIInv, StepPreserves, PTL DEF Spec

\* Every match is made on terms that both sides stated and still stand by when it
\* is made: live listing, open window, other account, ask price within the limit,
\* overlapping windows, a lot within the seller's bounds or the last one.
THEOREM TradeTermsHold == Spec => TradeTermsHonoured
<1>1. ASSUME IInv, AccountsInv, [Next]_vars
      PROVE  \A m \in NewMatches :
               LET row == listing[m.listing]
                   buy == bid'[m.bid]
               IN  /\ row.status \in EDITABLE_STATUSES /\ row.until > now
                   /\ row.seller # buy.buyer /\ row.market = buy.market
                   /\ m.price = row.price /\ m.price <= buy.maxPrice
                   /\ intervalsOverlap(row, buy)
                   /\ m.kwh > 0 /\ m.kwh <= row.max
                   /\ m.kwh >= row.min \/ listing'[m.listing].avail = 0
  <2>1. CASE UNCHANGED matches
    BY <2>1, NoNewMatches
  <2>2. CASE \E b, row : Fills(b, row)
    BY <1>1, <2>2, FillTerms
  <2> QED
    BY <1>1, <2>1, <2>2, StepKinds, QuietKinds DEF Quiet
<1> QED
  BY <1>1, InitIInv, StepPreserves, InitAccounts, StepAccounts, PTL
     DEF Spec, TradeTermsHonoured

\* Price-time priority of a whole fill: a listing that is better than one the bid
\* drew on, and that was left out, could not have supplied what was still open.
THEOREM PriceTimePriorityHolds == Spec => PriceTimePriority
<1>1. ASSUME IInv, AccountsInv, [Next]_vars
      PROVE  \A m \in NewMatches : \A l \in ListingIds :
               (/\ listing[l] # None
                /\ \/ listing[l].price < m.price
                   \/ /\ listing[l].price = m.price
                      /\ listing[l].createdAt < listing[m.listing].createdAt
                /\ ~\E n \in NewMatches : n.listing = l)
               => LET buy == bid'[m.bid]
                  IN  \/ l \notin loadMatchableListings(buy)
                      \/ computePartialMatch(listing[l], buy, m.kwh + buy.unm) = 0
  <2>1. CASE UNCHANGED matches
    BY <2>1, NoNewMatches
  <2>2. CASE \E b, row : Fills(b, row)
    BY <1>1, <2>2, FillPriority
  <2> QED
    BY <1>1, <2>1, <2>2, StepKinds, QuietKinds DEF Quiet
<1> QED
  BY <1>1, InitIInv, StepPreserves, InitAccounts, StepAccounts, PTL
     DEF Spec, PriceTimePriority

\* The book implements the ledger: every handler's writes, the unlocked and the
\* stale ones included, are an offer, a resize, a trade that conserves energy, a
\* closing or nothing at all.
THEOREM LedgerImplemented == Spec => ImplementsLedger
<1>1. Init => LedgerView!Init
  BY DEF Init, LedgerView!Init, SupplyNow, GivenNow, WantedNow, GotNow, OpenNow, LotsOpen, BidsOpen
<1>2. ASSUME IInv, [Next]_vars
      PROVE  [LedgerView!Next]_(LedgerView!vars)
  <2>1. CASE Closes
    BY <1>2, <2>1, CloseStep DEF LedgerView!Next
  <2>2. ASSUME NEW l, NEW row, Lists(l, row)
        PROVE  LedgerView!Next
    BY <1>2, <2>2, OfferStep DEF LedgerView!Next, Lists, Writes
  <2>3. ASSUME NEW l, NEW row, Edits(l, row)
        PROVE  LedgerView!Next
    BY <1>2, <2>3, ResizeStep DEF LedgerView!Next, Edits, Writes
  <2>4. ASSUME NEW b, NEW row, Fills(b, row)
        PROVE  LedgerView!Next
    BY <1>2, <2>4, TradeStep DEF LedgerView!Next, Fills
  <2> QED
    BY <1>2, <2>1, <2>2, <2>3, <2>4, StepKinds
<1> QED
  BY <1>1, <1>2, InitIInv, StepPreserves, PTL DEF Spec, ImplementsLedger, LedgerView!Spec
=============================================================================
