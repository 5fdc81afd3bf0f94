---------------------------- MODULE ServicesProofs ----------------------------
(***************************************************************************)
(* Theorems about Advice, and about the services of MCServices together.   *)
(*                                                                         *)
(* An answer is put together from reads of different moments, so the       *)
(* invariant says what of it each read has seen: rows that were live since *)
(* the request arrived (was), readings that are still in the table.  What  *)
(* is computed from them is a matter of sums over sets: a sum over fewer   *)
(* elements is no more, and the sums over the labels add up to the whole.  *)
(***************************************************************************)
EXTENDS MCServices, AccountsProofs, RealtimeProofs

-----------------------------------------------------------------------------
(* The sums of Advice, each over a part of the domain of one function *)

Kwh == [r \in Rows |-> RowOf[r].kwh]
Weight(window) == [r \in Rows |-> observationWeight(r, window)]
Worth(window) == [r \in Rows |-> RowOf[r].price * observationWeight(r, window)]
Energy == [s \in Samples |-> SampleOf[s].kwh]

LEMMA Products ==
  ASSUME NEW m \in Nat, NEW n \in Nat
  PROVE  m * n \in Nat /\ (m > 0 /\ n > 0 => m * n > 0)
OBVIOUS

LEMMA RowFacts ==
  ASSUME NEW r \in Rows
  PROVE  /\ RowOf[r].kind \in {"trade", "ask", "bid"} /\ RowOf[r].price \in Nat
         /\ RowOf[r].kwh \in Nat /\ RowOf[r].kwh > 0
         /\ RowOf[r].recency \in Nat /\ RowOf[r].recency > 0
<1>1. RowOf[r] \in MarketRow
  BY AdviceAssumption DEF AdviceAssumption
<1> QED
  BY <1>1 DEF MarketRow

LEMMA WeightFacts ==
  ASSUME NEW r \in Rows, NEW window \in BOOLEAN
  PROVE  observationWeight(r, window) \in Nat /\ observationWeight(r, window) > 0
<1> DEFINE k == PRICE_KIND_WEIGHT[RowOf[r].kind]
           a == RowOf[r].kwh
           b == RowOf[r].recency
           w == windowWeight(r, window)
<1>1. k \in Nat /\ k > 0
  BY RowFacts DEF PRICE_KIND_WEIGHT
<1>2. a \in Nat /\ a > 0 /\ b \in Nat /\ b > 0
  BY RowFacts
<1>3. w \in Nat /\ w > 0
  BY DEF windowWeight
<1>4. observationWeight(r, window) = ((k * a) * b) * w
  BY DEF observationWeight
<1> HIDE DEF k, a, b, w
<1>5. k * a \in Nat /\ k * a > 0
  BY <1>1, <1>2, Products
<1>6. (k * a) * b \in Nat /\ (k * a) * b > 0
  BY <1>2, <1>5, Products
<1>7. ((k * a) * b) * w \in Nat /\ ((k * a) * b) * w > 0
  BY <1>3, <1>6, Products
<1> QED
  BY <1>4, <1>7

LEMMA WorthFacts ==
  ASSUME NEW r \in Rows, NEW window \in BOOLEAN
  PROVE  RowOf[r].price * observationWeight(r, window) \in Nat
BY RowFacts, WeightFacts, Products

LEMMA SampleFacts ==
  ASSUME NEW s \in Samples
  PROVE  SampleOf[s].kwh \in Nat /\ SampleOf[s].label \in Labels /\ SampleOf[s].at \in Nat
BY AdviceAssumption DEF AdviceAssumption, Reading

LEMMA WeightSum ==
  ASSUME NEW S \in SUBSET Rows, NEW window \in BOOLEAN
  PROVE  MapThenSumSet(LAMBDA r : observationWeight(r, window), S) = Part(Weight(window), S)
<1> DEFINE Sums(h) == h = [s \in SUBSET S |->
                             IF s = {} THEN 0
                             ELSE LET y == CHOOSE y \in s : TRUE
                                  IN  observationWeight(y, window) + h[s \ {y}]]
           f == CHOOSE h : Sums(h)
<1>1. Weight(window) \in [Rows -> Nat] /\ IsFiniteSet(Rows)
  BY WeightFacts, AdviceAssumption DEF Weight, AdviceAssumption
<1>2. MapThenSumSet(LAMBDA r : observationWeight(r, window), S) = f[S]
  BY DEF MapThenSumSet, MapThenFoldSet
<1>3. \A h : Sums(h) <=> SumsUp(h, Weight(window), S)
  BY DEF SumsUp, Weight
<1>4. SumsUp(f, Weight(window), S)
  <2>1. \E h : SumsUp(h, Weight(window), S)
    BY <1>1, SumsUpExists
  <2> HIDE DEF Sums
  <2>2. \E h : Sums(h)
    BY <1>3, <2>1
  <2>3. Sums(f)
    BY <2>2
  <2> QED
    BY <1>3, <2>3
<1> HIDE DEF f
<1>5. f[S] = Part(Weight(window), S)
  BY <1>1, <1>4, SumsUpIsPart
<1> QED
  BY <1>2, <1>5

LEMMA WorthSum ==
  ASSUME NEW S \in SUBSET Rows, NEW window \in BOOLEAN
  PROVE  MapThenSumSet(LAMBDA r : RowOf[r].price * observationWeight(r, window), S)
           = Part(Worth(window), S)
<1> DEFINE Sums(h) == h = [s \in SUBSET S |->
                             IF s = {} THEN 0
                             ELSE LET y == CHOOSE y \in s : TRUE
                                  IN  RowOf[y].price * observationWeight(y, window) + h[s \ {y}]]
           f == CHOOSE h : Sums(h)
<1>1. Worth(window) \in [Rows -> Nat] /\ IsFiniteSet(Rows)
  BY WorthFacts, AdviceAssumption DEF Worth, AdviceAssumption
<1>2. MapThenSumSet(LAMBDA r : RowOf[r].price * observationWeight(r, window), S) = f[S]
  BY DEF MapThenSumSet, MapThenFoldSet
<1>3. \A h : Sums(h) <=> SumsUp(h, Worth(window), S)
  BY DEF SumsUp, Worth
<1>4. SumsUp(f, Worth(window), S)
  <2>1. \E h : SumsUp(h, Worth(window), S)
    BY <1>1, SumsUpExists
  <2> HIDE DEF Sums
  <2>2. \E h : Sums(h)
    BY <1>3, <2>1
  <2>3. Sums(f)
    BY <2>2
  <2> QED
    BY <1>3, <2>3
<1> HIDE DEF f
<1>5. f[S] = Part(Worth(window), S)
  BY <1>1, <1>4, SumsUpIsPart
<1> QED
  BY <1>2, <1>5

LEMMA KwhSum ==
  ASSUME NEW S \in SUBSET Rows
  PROVE  MapThenSumSet(LAMBDA r : RowOf[r].kwh, S) = Part(Kwh, S)
<1> DEFINE Sums(h) == h = [s \in SUBSET S |->
                             IF s = {} THEN 0
                             ELSE LET y == CHOOSE y \in s : TRUE
                                  IN  RowOf[y].kwh + h[s \ {y}]]
           f == CHOOSE h : Sums(h)
<1>1. Kwh \in [Rows -> Nat] /\ IsFiniteSet(Rows)
  BY RowFacts, AdviceAssumption DEF Kwh, AdviceAssumption
<1>2. MapThenSumSet(LAMBDA r : RowOf[r].kwh, S) = f[S]
  BY DEF MapThenSumSet, MapThenFoldSet
<1>3. \A h : Sums(h) <=> SumsUp(h, Kwh, S)
  BY DEF SumsUp, Kwh
<1>4. SumsUp(f, Kwh, S)
  <2>1. \E h : SumsUp(h, Kwh, S)
    BY <1>1, SumsUpExists
  <2> HIDE DEF Sums
  <2>2. \E h : Sums(h)
    BY <1>3, <2>1
  <2>3. Sums(f)
    BY <2>2
  <2> QED
    BY <1>3, <2>3
<1> HIDE DEF f
<1>5. f[S] = Part(Kwh, S)
  BY <1>1, <1>4, SumsUpIsPart
<1> QED
  BY <1>2, <1>5

LEMMA EnergySum ==
  ASSUME NEW S \in SUBSET Samples
  PROVE  MapThenSumSet(LAMBDA s : SampleOf[s].kwh, S) = Part(Energy, S)
<1> DEFINE Sums(h) == h = [s \in SUBSET S |->
                             IF s = {} THEN 0
                             ELSE LET y == CHOOSE y \in s : TRUE
                                  IN  SampleOf[y].kwh + h[s \ {y}]]
           f == CHOOSE h : Sums(h)
<1>1. Energy \in [Samples -> Nat] /\ IsFiniteSet(Samples)
  BY SampleFacts, AdviceAssumption DEF Energy, AdviceAssumption
<1>2. MapThenSumSet(LAMBDA s : SampleOf[s].kwh, S) = f[S]
  BY DEF MapThenSumSet, MapThenFoldSet
<1>3. \A h : Sums(h) <=> SumsUp(h, Energy, S)
  BY DEF SumsUp, Energy
<1>4. SumsUp(f, Energy, S)
  <2>1. \E h : SumsUp(h, Energy, S)
    BY <1>1, SumsUpExists
  <2> HIDE DEF Sums
  <2>2. \E h : Sums(h)
    BY <1>3, <2>1
  <2>3. Sums(f)
    BY <2>2
  <2> QED
    BY <1>3, <2>3
<1> HIDE DEF f
<1>5. f[S] = Part(Energy, S)
  BY <1>1, <1>4, SumsUpIsPart
<1> QED
  BY <1>2, <1>5

\* The sum over the labels of a function of them.
LEMMA LabelSum ==
  ASSUME NEW g \in [Labels -> Nat]
  PROVE  MapThenSumSet(LAMBDA l : g[l], Labels) = g["ACTUAL"] + g["ESTIMATED"] + g["SIMULATED"]
<1> DEFINE Sums(h) == h = [s \in SUBSET Labels |->
                             IF s = {} THEN 0
                             ELSE LET y == CHOOSE y \in s : TRUE
                                  IN  g[y] + h[s \ {y}]]
           f == CHOOSE h : Sums(h)
<1>1. IsFiniteSet(Labels)
  <2>1. Labels = (({} \cup {"ACTUAL"}) \cup {"ESTIMATED"}) \cup {"SIMULATED"}
    BY DEF Labels
  <2> QED
    BY <2>1, FS_EmptySet, FS_AddElement
<1>2. MapThenSumSet(LAMBDA l : g[l], Labels) = f[Labels]
  BY DEF MapThenSumSet, MapThenFoldSet
<1>3. \A h : Sums(h) <=> SumsUp(h, g, Labels)
  BY DEF SumsUp
<1>4. SumsUp(f, g, Labels)
  <2>1. \E h : SumsUp(h, g, Labels)
    BY <1>1, SumsUpExists
  <2> HIDE DEF Sums
  <2>2. \E h : Sums(h)
    BY <1>3, <2>1
  <2>3. Sums(f)
    BY <2>2
  <2> QED
    BY <1>3, <2>3
<1> HIDE DEF f
<1>5. f[Labels] = Part(g, Labels)
  BY <1>1, <1>4, SumsUpIsPart
<1>6. Part(g, Labels) = Part(g, {}) + g["ACTUAL"] + g["ESTIMATED"] + g["SIMULATED"]
  <2> DEFINE A == {} \cup {"ACTUAL"}
             B == A \cup {"ESTIMATED"}
  <2>1. /\ "ACTUAL" \in Labels /\ "ESTIMATED" \in Labels /\ "SIMULATED" \in Labels
        /\ "ACTUAL" \notin {} /\ "ESTIMATED" \notin A /\ "SIMULATED" \notin B
        /\ A = {} \cup {"ACTUAL"} /\ B = A \cup {"ESTIMATED"} /\ Labels = B \cup {"SIMULATED"}
    BY DEF Labels
  <2> HIDE DEF A, B
  <2>2. Part(g, A) = Part(g, {}) + g["ACTUAL"]
    BY <1>1, <2>1, PartGrows
  <2>3. Part(g, B) = Part(g, A) + g["ESTIMATED"]
    BY <1>1, <2>1, PartGrows
  <2>4. Part(g, Labels) = Part(g, B) + g["SIMULATED"]
    BY <1>1, <2>1, PartGrows
  <2> QED
    BY <2>2, <2>3, <2>4
<1>7. Part(g, {}) = 0 /\ \A l \in Labels : g[l] \in Nat
  BY <1>1, EmptyPart
<1> QED
  BY <1>2, <1>5, <1>6, <1>7 DEF Labels

-----------------------------------------------------------------------------
(* The least and the greatest number of a finite set *)

LEMMA ImageFinite ==
  ASSUME NEW S, IsFiniteSet(S), NEW g, S \subseteq DOMAIN g
  PROVE  IsFiniteSet({g[x] : x \in S})
<1> DEFINE T == {g[x] : x \in S}
           f == [x \in S |-> g[x]]
<1>1. f \in [S -> T] /\ \A t \in T : \E x \in S : f[x] = t
  OBVIOUS
<1>2. f \in Surjection(S, T)
  BY <1>1 DEF Surjection
<1> HIDE DEF T, f
<1> QED
  BY <1>2, FS_Surjection DEF T

LEMMA LeastIs ==
  ASSUME NEW S, S \subseteq Nat, S # {}
  PROVE  Least(S) \in S /\ \A y \in S : Least(S) <= y
BY LeastExists DEF Least

LEMMA MostIs ==
  ASSUME NEW S, S \subseteq Nat, IsFiniteSet(S), S # {}
  PROVE  Most(S) \in S /\ \A y \in S : Most(S) >= y
BY MostExists DEF Most

LEMMA PricesAre ==
  ASSUME NEW S \in SUBSET Rows
  PROVE  Prices(S) \subseteq Nat /\ IsFiniteSet(Prices(S)) /\ (S # {} => Prices(S) # {})
<1>1. Prices(S) \subseteq Nat
  BY RowFacts DEF Prices
<1>2. IsFiniteSet(Prices(S))
  <2> DEFINE g == [r \in Rows |-> RowOf[r].price]
  <2>1. IsFiniteSet(S)
    BY AdviceAssumption, FS_Subset DEF AdviceAssumption
  <2>2. Prices(S) = {g[r] : r \in S}
    BY DEF Prices
  <2>3. S \subseteq DOMAIN g
    OBVIOUS
  <2> HIDE DEF g
  <2> QED
    BY <2>1, <2>2, <2>3, ImageFinite
<1> QED
  BY <1>1, <1>2 DEF Prices

-----------------------------------------------------------------------------
(* The advisory price *)

\* Rounding stays between whole numbers.
LEMMA RoundedBetween ==
  ASSUME NEW n \in Nat, NEW d \in Nat, d > 0, NEW least \in Nat, NEW most \in Nat,
         least * d <= n, n <= most * d
  PROVE  least <= Rounded(n, d) /\ Rounded(n, d) <= most
<1> DEFINE a == 2 * n + d
           b == 2 * d
           q == a \div b
<1>1. a \in Nat /\ b \in Nat /\ b > 0
  OBVIOUS
<1>2. q \in Int /\ b * q <= a /\ a < b * (q + 1)
  <2> HIDE DEF a, b
  <2> QED
    BY <1>1
<1>3. Rounded(n, d) = q
  BY DEF Rounded
<1> HIDE DEF q
<1>4. least * b = 2 * (least * d) /\ most * b = 2 * (most * d)
  OBVIOUS
<1>5. least * b <= a /\ a < (most + 1) * b
  <2>1. (most + 1) * b = most * b + b
    OBVIOUS
  <2>2. least * d \in Nat /\ most * d \in Nat
    OBVIOUS
  <2> QED
    BY <1>4, <2>1, <2>2
<1> HIDE DEF a, b
<1>6. least <= q
  <2> SUFFICES ASSUME q + 1 <= least PROVE FALSE
    BY <1>2
  <2>1. b * (q + 1) <= least * b
    BY <1>1, <1>2
  <2> QED
    BY <1>1, <1>2, <1>5, <2>1
<1>7. q <= most
  <2> SUFFICES ASSUME most + 1 <= q PROVE FALSE
    BY <1>2
  <2>1. (most + 1) * b <= b * q
    BY <1>1, <1>2
  <2> QED
    BY <1>1, <1>2, <1>5, <2>1
<1> QED
  BY <1>3, <1>6, <1>7

\* The advised price lies between the least and the greatest price it was drawn from: the
\* weighted mean does by itself only up to rounding, and its blend with the best ask and the
\* best bid, which is clamped.
LEMMA PriceBetween ==
  ASSUME NEW S \in SUBSET Rows, S # {}, NEW window \in BOOLEAN
  PROVE  /\ Least(Prices(S)) <= recommendPrice(S, window)
         /\ recommendPrice(S, window) <= Most(Prices(S))
<1> DEFINE W == Part(Weight(window), S)
           V == Part(Worth(window), S)
           asks == Prices(Of("ask", S))
           bids == Prices(Of("bid", S))
           least == Least(Prices(S))
           most == Most(Prices(S))
           b == Blend(S, window)
<1>1. W \in Nat /\ V \in Nat /\ W > 0
  <2>1. Weight(window) \in [Rows -> Nat] /\ Worth(window) \in [Rows -> Nat] /\ IsFiniteSet(Rows)
    BY WeightFacts, WorthFacts, AdviceAssumption DEF Weight, Worth, AdviceAssumption
  <2>2. W \in Nat /\ V \in Nat
    BY <2>1, PartType
  <2>3. PICK x \in S : TRUE
    OBVIOUS
  <2>4. Weight(window)[x] <= W
    BY <2>1, PartOfPart
  <2>5. Weight(window)[x] > 0 /\ Weight(window)[x] \in Nat
    BY WeightFacts DEF Weight
  <2> HIDE DEF W, V
  <2> QED
    BY <2>2, <2>4, <2>5
<1>2. b = IF asks # {} /\ bids # {}
          THEN [num |-> 6 * V + 2 * (Least(asks) + Most(bids)) * W, den |-> 10 * W]
          ELSE [num |-> V, den |-> W]
  BY WeightSum, WorthSum DEF Blend
<1>3. asks # {} => Least(asks) \in Nat
  BY PricesAre, LeastIs DEF Of
<1>4. bids # {} => Most(bids) \in Nat
  <2>1. Of("bid", S) \in SUBSET Rows
    BY DEF Of
  <2> QED
    BY <2>1, PricesAre, MostIs
<1>5. least \in Nat /\ most \in Nat /\ least <= most
  <2>1. Prices(S) \subseteq Nat /\ IsFiniteSet(Prices(S)) /\ Prices(S) # {}
    BY PricesAre
  <2>2. least \in Prices(S) /\ \A y \in Prices(S) : least <= y
    BY <2>1, LeastIs
  <2>3. most \in Prices(S)
    BY <2>1, MostIs
  <2> QED
    BY <2>1, <2>2, <2>3
<1>6. recommendPrice(S, window) = IF b.num < least * b.den THEN least
                                  ELSE IF b.num > most * b.den THEN most
                                  ELSE Rounded(b.num, b.den)
  BY DEF recommendPrice
<1> HIDE DEF W, V, asks, bids, least, most, b
<1>7. b.num \in Nat /\ b.den \in Nat /\ b.den > 0
  <2>1. CASE asks # {} /\ bids # {}
    <3> DEFINE m == Least(asks) + Most(bids)
    <3>1. m \in Nat
      BY <1>3, <1>4, <2>1
    <3>2. b.num = 6 * V + 2 * m * W /\ b.den = 10 * W
      BY <1>2, <2>1
    <3> HIDE DEF m
    <3>3. 2 * m \in Nat
      BY <3>1
    <3>4. (2 * m) * W \in Nat
      BY <1>1, <3>3, Products
    <3> QED
      BY <1>1, <3>2, <3>4
  <2>2. CASE ~(asks # {} /\ bids # {})
    BY <1>1, <1>2, <2>2
  <2> QED
    BY <2>1, <2>2
<1>8. CASE b.num < least * b.den
  BY <1>5, <1>6, <1>8 DEF least, most
<1>9. CASE ~(b.num < least * b.den) /\ b.num > most * b.den
  BY <1>5, <1>6, <1>9 DEF least, most
<1>10. CASE ~(b.num < least * b.den) /\ ~(b.num > most * b.den)
  <2>1. recommendPrice(S, window) = Rounded(b.num, b.den)
    BY <1>6, <1>10
  <2>2. least * b.den \in Nat /\ most * b.den \in Nat
    BY <1>5, <1>7, Products
  <2>3. least * b.den <= b.num /\ b.num <= most * b.den
    BY <1>7, <1>10, <2>2
  <2>4. least <= Rounded(b.num, b.den) /\ Rounded(b.num, b.den) <= most
    BY <1>5, <1>7, <2>3, RoundedBetween
  <2> QED
    BY <2>1, <2>4 DEF least, most
<1> QED
  BY <1>8, <1>9, <1>10 DEF least, most

-----------------------------------------------------------------------------
(* The insight *)

LEMMA TradesOf ==
  ASSUME NEW k, NEW S \in SUBSET Rows
  PROVE  /\ Of(k, S) \in SUBSET Rows /\ Of(k, S) \subseteq S
         /\ \A T \in SUBSET S : Of(k, T) \in SUBSET Of(k, S)
BY DEF Of

\* The volume of fewer rows is no more, and none means that there is no trade.
LEMMA VolumeOf ==
  ASSUME NEW S \in SUBSET Rows
  PROVE  /\ Volume(S) \in Nat
         /\ \A T \in SUBSET S : Volume(T) <= Volume(S)
         /\ Volume(S) = 0 <=> Of("trade", S) = {}
<1>1. Kwh \in [Rows -> Nat] /\ IsFiniteSet(Rows)
  BY RowFacts, AdviceAssumption DEF Kwh, AdviceAssumption
<1>2. \A T \in SUBSET Rows : Volume(T) = Part(Kwh, Of("trade", T)) /\ Of("trade", T) \in SUBSET Rows
  BY TradesOf, KwhSum DEF Volume
<1>3. Volume(S) \in Nat
  BY <1>1, <1>2, PartType
<1>4. ASSUME NEW T \in SUBSET S
      PROVE  Volume(T) <= Volume(S)
  <2>1. Of("trade", T) \in SUBSET Of("trade", S) /\ T \in SUBSET Rows
    BY TradesOf
  <2>2. Part(Kwh, Of("trade", T)) <= Part(Kwh, Of("trade", S))
    BY <1>1, <1>2, <2>1, PartOfPart
  <2> QED
    BY <1>2, <2>1, <2>2
<1>5. ASSUME Volume(S) = 0, NEW x \in Of("trade", S)
      PROVE  FALSE
  <2>1. Kwh[x] <= Part(Kwh, Of("trade", S))
    BY <1>1, <1>2, PartOfPart
  <2>2. x \in Rows /\ Kwh[x] = RowOf[x].kwh
    BY <1>2 DEF Kwh
  <2>3. Kwh[x] \in Nat /\ Kwh[x] > 0
    BY <2>2, RowFacts
  <2> QED
    BY <1>2, <1>5, <2>1, <2>3
<1>6. ASSUME Of("trade", S) = {}
      PROVE  Volume(S) = 0
  BY <1>1, <1>2, <1>6, EmptyPart
<1> QED
  BY <1>3, <1>4, <1>5, <1>6

-----------------------------------------------------------------------------
(* The energy history *)

LEMMA LabelledOf ==
  ASSUME NEW l, NEW S \in SUBSET Samples
  PROVE  /\ Labelled(S, l) \in SUBSET S /\ Labelled(S, l) \in SUBSET Samples
         /\ IsFiniteSet(Labelled(S, l)) /\ Cardinality(Labelled(S, l)) \in Nat
         /\ \A T \in SUBSET S : /\ Labelled(T, l) \subseteq Labelled(S, l)
                                /\ Cardinality(Labelled(T, l)) <= Cardinality(Labelled(S, l))
<1>1. Labelled(S, l) \in SUBSET S /\ \A T \in SUBSET S : Labelled(T, l) \in SUBSET Labelled(S, l)
  BY DEF Labelled
<1>2. IsFiniteSet(Samples)
  BY AdviceAssumption DEF AdviceAssumption
<1>3. IsFiniteSet(Labelled(S, l)) /\ Labelled(S, l) \in SUBSET Samples
  <2>1. Labelled(S, l) \in SUBSET Samples
    BY <1>1
  <2> QED
    BY <1>2, <2>1, FS_Subset
<1>4. \A T \in SUBSET S : Cardinality(Labelled(T, l)) <= Cardinality(Labelled(S, l))
  BY <1>1, <1>3, FS_Subset
<1> QED
  BY <1>1, <1>3, <1>4, FS_CardinalityType

LEMMA PageIsPart ==
  ASSUME NEW S, NEW P \in PagesOf(S)
  PROVE  P \subseteq S
BY DEF PagesOf

\* The summary covers each of its readings, and its labels share the total out.
LEMMA SummaryCovers ==
  ASSUME NEW S \in SUBSET Samples, S # {}
  PROVE  LET sum == summarizeEnergyHistory(S)
         IN  /\ sum.sampleCount = Cardinality(S)
             /\ \A s \in S : /\ sum.first <= SampleOf[s].at /\ SampleOf[s].at <= sum.last
                             /\ sum.byLabel[SampleOf[s].label] >= SampleOf[s].kwh
             /\ sum.totalKwh = MapThenSumSet(LAMBDA l : sum.byLabel[l], Labels)
<1> DEFINE sum == summarizeEnergyHistory(S)
           times == {SampleOf[s].at : s \in S}
           of(l) == Labelled(S, l)
           by == [l \in Labels |-> Part(Energy, of(l))]
<1>1. Energy \in [Samples -> Nat] /\ IsFiniteSet(Samples)
  BY SampleFacts, AdviceAssumption DEF Energy, AdviceAssumption
<1>2. sum = [sampleCount |-> Cardinality(S), totalKwh |-> Part(Energy, S),
             byLabel |-> by, first |-> Least(times), last |-> Most(times)]
  <2>1. MapThenSumSet(LAMBDA s : SampleOf[s].kwh, S) = Part(Energy, S)
    BY EnergySum
  <2>2. \A l \in Labels : MapThenSumSet(LAMBDA s : SampleOf[s].kwh, of(l)) = Part(Energy, of(l))
    BY EnergySum, LabelledOf
  <2> QED
    BY <2>1, <2>2 DEF summarizeEnergyHistory
<1>3. times \subseteq Nat /\ times # {} /\ IsFiniteSet(times)
  <2>1. times \subseteq Nat /\ times # {}
    BY SampleFacts
  <2> DEFINE g == [s \in Samples |-> SampleOf[s].at]
  <2>2. times = {g[s] : s \in S} /\ S \subseteq DOMAIN g
    OBVIOUS
  <2>3. IsFiniteSet(S)
    BY <1>1, FS_Subset
  <2> HIDE DEF g, times
  <2> QED
    BY <2>1, <2>2, <2>3, ImageFinite
<1>4. by \in [Labels -> Nat]
  BY <1>1, PartType
<1>5. ASSUME NEW s \in S
      PROVE  /\ sum.first <= SampleOf[s].at /\ SampleOf[s].at <= sum.last
             /\ sum.byLabel[SampleOf[s].label] >= SampleOf[s].kwh
  <2> DEFINE at == SampleOf[s].at
             l == SampleOf[s].label
  <2>1. at \in times /\ at \in Nat /\ l \in Labels /\ s \in of(l)
    BY SampleFacts DEF Labelled
  <2>2. Least(times) <= at
    BY <1>3, <2>1, LeastIs
  <2>3. Most(times) >= at /\ Most(times) \in Nat
    BY <1>3, <2>1, MostIs
  <2>4. Energy[s] <= Part(Energy, of(l))
    BY <1>1, <2>1, LabelledOf, PartOfPart
  <2>5. Energy[s] = SampleOf[s].kwh /\ SampleOf[s].kwh \in Nat
    BY SampleFacts DEF Energy
  <2>6. by[l] = Part(Energy, of(l)) /\ Part(Energy, of(l)) \in Nat
    BY <1>1, <2>1, PartType
  <2>7. sum.first = Least(times) /\ sum.last = Most(times) /\ sum.byLabel[l] = by[l]
    BY <1>2
  <2> HIDE DEF sum, times, by, at, of
  <2>8. by[l] >= SampleOf[s].kwh
    BY <2>4, <2>5, <2>6
  <2>9. at <= Most(times)
    BY <2>1, <2>3
  <2> QED
    BY <2>2, <2>7, <2>8, <2>9 DEF at
<1>6. sum.totalKwh = MapThenSumSet(LAMBDA l : sum.byLabel[l], Labels)
  <2> DEFINE A == of("ACTUAL")
             E == of("ESTIMATED")
             I == of("SIMULATED")
             AE == A \cup E
  <2>1. /\ A \in SUBSET S /\ E \in SUBSET S /\ I \in SUBSET S
        /\ A \cap E = {} /\ AE \cap I = {} /\ S = AE \cup I
    BY SampleFacts, AdviceAssumption DEF Labelled, Labels, AdviceAssumption
  <2>2. AE = A \cup E /\ AE \in SUBSET Samples /\ A \in SUBSET Samples /\ E \in SUBSET Samples
        /\ I \in SUBSET Samples
    BY <2>1
  <2>3. MapThenSumSet(LAMBDA l : by[l], Labels) = by["ACTUAL"] + by["ESTIMATED"] + by["SIMULATED"]
    <3> HIDE DEF by
    <3> QED
      BY <1>4, LabelSum
  <2>4. by["ACTUAL"] = Part(Energy, A) /\ by["ESTIMATED"] = Part(Energy, E)
        /\ by["SIMULATED"] = Part(Energy, I)
    BY DEF Labels
  <2>5. sum.byLabel = by /\ sum.totalKwh = Part(Energy, S)
    BY <1>2
  <2> HIDE DEF A, E, I, AE, by, sum
  <2>6. Part(Energy, AE) = Part(Energy, A) + Part(Energy, E)
    BY <1>1, <2>1, <2>2, PartsAdd
  <2>7. Part(Energy, S) = Part(Energy, AE) + Part(Energy, I)
    BY <1>1, <2>1, <2>2, PartsAdd
  <2>8. MapThenSumSet(LAMBDA l : sum.byLabel[l], Labels)
          = by["ACTUAL"] + by["ESTIMATED"] + by["SIMULATED"]
    BY <2>3, <2>5
  <2> QED
    BY <2>4, <2>5, <2>6, <2>7, <2>8
<1>7. sum.sampleCount = Cardinality(S)
  BY <1>2
<1> QED
  BY <1>5, <1>6, <1>7

-----------------------------------------------------------------------------
(* The inductive invariant *)

\* Of the rows live all along, a query of the analytics has seen every one it asks for, and
\* one of the pricing service at least one if there are any.
SeesOwn ==
  \A r \in kept : Fits(r, ask.place) /\ InScope(r, ask.actor) =>
    <<"analytics", RowOf[r].kind>> \in ask.left \/ r \in ask.seen["analytics"]

SeesSome ==
  \A r \in kept : Fits(r, ask.place) =>
    \/ <<"pricing", RowOf[r].kind>> \in ask.left
    \/ \E x \in ask.seen["pricing"] : RowOf[x].kind = RowOf[r].kind

\* What a request has read was live since it arrived, and is what it asked for.
AskInv ==
  /\ live \subseteq Rows /\ was \subseteq Rows /\ kept \subseteq was
  /\ \/ ask = Waiting
     \/ /\ ask \in AskRecord
        /\ kept \subseteq live /\ live \subseteq was
        /\ ask.seen["pricing"] \subseteq {r \in was : Fits(r, ask.place)}
        /\ ask.seen["analytics"] \subseteq
             {r \in was : Fits(r, ask.place) /\ InScope(r, ask.actor)}
        /\ SeesOwn /\ SeesSome
        /\ ask.at = "answered" => ask.left = {}

\* Readings only come: those counted and those on the page are still there for the summary.
ListInv ==
  /\ stored \subseteq Samples /\ batch \in Seq(Samples)
  /\ \/ list = Waiting
     \/ /\ list \in ListRecord
        /\ list.page \subseteq Labelled(stored, list.label)
        /\ list.total <= Cardinality(Labelled(stored, list.label))
        /\ list.at = "answered" =>
             list.page \subseteq list.all /\ list.total <= Cardinality(list.all)

LEMMA InitAInv == AdviceInit => AskInv /\ ListInv
<1> SUFFICES ASSUME AdviceInit PROVE AskInv /\ ListInv
  OBVIOUS
<1>1. AskInv
  BY DEF AdviceInit, AskInv
<1>2. ListInv
  BY AdviceAssumption DEF AdviceInit, ListInv, AdviceAssumption
<1> QED
  BY <1>1, <1>2

LEMMA AtWaiting == Waiting.at = "none"
BY DEF Waiting

\* A query returns all that it finds, or some of it, and something if there is something.
LEMMA ReturnedFacts ==
  ASSUME NEW service, NEW found, NEW read \in Returned(service, found)
  PROVE  /\ read \subseteq found
         /\ service = "analytics" => read = found
         /\ found # {} => read # {}
<1>1. Take \in Nat /\ Take # 0
  BY AdviceAssumption DEF AdviceAssumption
<1>2. CASE read = found
  BY <1>2
<1>3. CASE service # "analytics" /\ read \subseteq found /\ Cardinality(read) = Take
  BY <1>1, <1>3, FS_EmptySet
<1> QED
  BY <1>2, <1>3 DEF Returned

LEMMA AdvisingPreserves ==
  ASSUME AskInv, Advising
  PROVE  AskInv' /\ UNCHANGED <<stored, batch, list>>
<1> USE DEF AskInv
<1>1. ASSUME NEW r \in Rows, Moves(r)
      PROVE  AskInv' /\ UNCHANGED <<stored, batch, list>>
  <2>1. /\ live' \subseteq Rows /\ was' = was \cup live' /\ kept' = kept \cap live' /\ ask' = ask
        /\ UNCHANGED <<stored, batch, list>>
    BY <1>1 DEF Moves
  <2>2. CASE ask = Waiting
    BY <2>1, <2>2
  <2>3. CASE ask # Waiting
    <3>1. /\ ask.seen["pricing"] \subseteq {x \in was' : Fits(x, ask.place)}
          /\ ask.seen["analytics"] \subseteq
               {x \in was' : Fits(x, ask.place) /\ InScope(x, ask.actor)}
      BY <2>1, <2>3
    <3>2. SeesOwn' /\ SeesSome'
      BY <2>1, <2>3 DEF SeesOwn, SeesSome
    <3> QED
      BY <2>1, <2>3, <3>1, <3>2
  <2> QED
    BY <2>2, <2>3
<1>2. ASSUME NEW a \in Actors, NEW p \in Places \cup {Anything}, NEW w \in BOOLEAN, Asked(a, p, w)
      PROVE  AskInv' /\ UNCHANGED <<stored, batch, list>>
  <2> DEFINE q == [at |-> "reading", actor |-> a, place |-> p, window |-> w, left |-> Reads,
                   seen |-> [s \in {"pricing", "analytics"} |-> {}], output |-> "fallback"]
  <2>1. /\ ask' = q /\ was' = live /\ kept' = live /\ live' = live
        /\ UNCHANGED <<stored, batch, list>>
    BY <1>2 DEF Asked
  <2>2. /\ q \in AskRecord /\ q.seen["pricing"] = {} /\ q.seen["analytics"] = {}
        /\ q.left = Reads /\ q.at = "reading"
    BY DEF AskRecord
  <2> HIDE DEF q
  <2>3. SeesOwn' /\ SeesSome'
    <3>1. \A x \in kept', s \in {"pricing", "analytics"} : <<s, RowOf[x].kind>> \in ask'.left
      BY <2>1, <2>2, RowFacts DEF Reads, Kinds
    <3> QED
      BY <3>1 DEF SeesOwn, SeesSome
  <2> QED
    BY <2>1, <2>2, <2>3
<1>3. ASSUME NEW s \in {"pricing", "analytics"}, NEW k \in Kinds, ReadTable(s, k)
      PROVE  AskInv' /\ UNCHANGED <<stored, batch, list>>
  <2> DEFINE found == {r \in Of(k, live) : /\ Fits(r, ask.place)
                                           /\ s = "analytics" => InScope(r, ask.actor)}
  <2>1. PICK read \in Returned(s, found) :
          ask' = [ask EXCEPT !.left = @ \ {<<s, k>>}, !.seen[s] = @ \cup read]
    BY <1>3 DEF ReadTable
  <2> DEFINE seen2 == [ask.seen EXCEPT ![s] = @ \cup read]
  <2>2. /\ live' = live /\ was' = was /\ kept' = kept /\ UNCHANGED <<stored, batch, list>>
        /\ ask.at = "reading"
    BY <1>3 DEF ReadTable
  <2>3. ask # Waiting
    BY <2>2, AtWaiting
  <2>4. ask \in AskRecord /\ live \subseteq was /\ kept \subseteq live
    BY <2>3
  <2>5. /\ found \subseteq live
        /\ \A r \in found : /\ Fits(r, ask.place) /\ RowOf[r].kind = k
                            /\ s = "analytics" => InScope(r, ask.actor)
        /\ \A r \in live : (/\ RowOf[r].kind = k /\ Fits(r, ask.place)
                            /\ s = "analytics" => InScope(r, ask.actor)) => r \in found
    BY DEF Of
  <2> HIDE DEF found
  <2>6. /\ read \subseteq found
        /\ s = "analytics" => read = found
        /\ found # {} => read # {}
    BY <2>1, ReturnedFacts
  <2>7. ask.seen \in [{"pricing", "analytics"} -> SUBSET Rows]
    BY <2>4 DEF AskRecord
  <2>8. seen2 \in [{"pricing", "analytics"} -> SUBSET Rows]
    BY <2>4, <2>5, <2>6, <2>7
  <2>9. \A t \in {"pricing", "analytics"} :
           seen2[t] = IF t = s THEN ask.seen[t] \cup read ELSE ask.seen[t]
    BY <2>7
  <2>10. /\ ask' = [ask EXCEPT !.left = @ \ {<<s, k>>}, !.seen = seen2]
         /\ ask'.seen = seen2 /\ ask'.place = ask.place /\ ask'.actor = ask.actor
         /\ ask'.left = ask.left \ {<<s, k>>} /\ ask'.at = "reading"
    BY <2>1, <2>2, <2>4 DEF AskRecord
  <2> HIDE DEF seen2
  <2>11. /\ seen2["pricing"] \subseteq {r \in was : Fits(r, ask.place)}
         /\ seen2["analytics"] \subseteq
              {r \in was : Fits(r, ask.place) /\ InScope(r, ask.actor)}
    BY <2>3, <2>4, <2>5, <2>6, <2>9
  <2>12. ask' \in AskRecord
    BY <2>4, <2>8, <2>10 DEF AskRecord
  <2>13. SeesOwn'
    <3> SUFFICES ASSUME NEW r \in kept, Fits(r, ask.place), InScope(r, ask.actor)
                 PROVE  \/ <<"analytics", RowOf[r].kind>> \in ask.left \ {<<s, k>>}
                        \/ r \in seen2["analytics"]
      BY <2>2, <2>10 DEF SeesOwn
    <3>1. CASE r \in ask.seen["analytics"]
      BY <2>9, <3>1
    <3>2. CASE <<"analytics", RowOf[r].kind>> \in ask.left /\ <<"analytics", RowOf[r].kind>> # <<s, k>>
      BY <3>2
    <3>3. CASE <<"analytics", RowOf[r].kind>> = <<s, k>>
      BY <2>4, <2>5, <2>6, <2>9, <3>3
    <3> QED
      BY <2>3, <3>1, <3>2, <3>3 DEF SeesOwn
  <2>14. SeesSome'
    <3> SUFFICES ASSUME NEW r \in kept, Fits(r, ask.place)
                 PROVE  \/ <<"pricing", RowOf[r].kind>> \in ask.left \ {<<s, k>>}
                        \/ \E x \in seen2["pricing"] : RowOf[x].kind = RowOf[r].kind
      BY <2>2, <2>10 DEF SeesSome
    <3>1. CASE \E x \in ask.seen["pricing"] : RowOf[x].kind = RowOf[r].kind
      BY <2>9, <3>1
    <3>2. CASE <<"pricing", RowOf[r].kind>> \in ask.left /\ <<"pricing", RowOf[r].kind>> # <<s, k>>
      BY <3>2
    <3>3. CASE <<"pricing", RowOf[r].kind>> = <<s, k>>
      <4>1. s = "pricing" /\ RowOf[r].kind = k
        BY <3>3
      <4>2. r \in found
        BY <2>4, <2>5, <4>1
      <4>3. PICK x \in read : x \in found
        BY <2>6, <4>2
      <4> QED
        BY <2>5, <2>9, <4>1, <4>3
    <3> QED
      BY <2>3, <3>1, <3>2, <3>3 DEF SeesSome
  <2> QED
    BY <2>2, <2>4, <2>10, <2>11, <2>12, <2>13, <2>14
<1>4. ASSUME NEW o \in {"model", "fallback"}, Provider(o)
      PROVE  AskInv' /\ UNCHANGED <<stored, batch, list>>
  <2>1. /\ ask' = [ask EXCEPT !.at = "answered", !.output = o] /\ ask.left = {}
        /\ live' = live /\ was' = was /\ kept' = kept /\ UNCHANGED <<stored, batch, list>>
    BY <1>4 DEF Provider
  <2>2. ask # Waiting
    BY <1>4, AtWaiting DEF Provider
  <2>3. /\ ask' \in AskRecord /\ ask'.seen = ask.seen /\ ask'.place = ask.place
        /\ ask'.actor = ask.actor /\ ask'.left = ask.left
    BY <2>1, <2>2 DEF AskRecord
  <2>4. SeesOwn' /\ SeesSome'
    BY <2>1, <2>2, <2>3 DEF SeesOwn, SeesSome
  <2> QED
    BY <2>1, <2>2, <2>3, <2>4
<1>5. ASSUME Taken
      PROVE  AskInv' /\ UNCHANGED <<stored, batch, list>>
  BY <1>5 DEF Taken
<1> QED
  BY <1>1, <1>2, <1>3, <1>4, <1>5 DEF Advising

\* A table that has more readings still has those counted and those on the page.
LEMMA MoreReadings ==
  ASSUME ListInv, stored' \in SUBSET Samples, stored \subseteq stored', batch' \in Seq(Samples),
         list' = list
  PROVE  ListInv'
<1> USE DEF ListInv
<1>1. CASE list = Waiting
  BY <1>1
<1>2. CASE list # Waiting
  <2>1. list \in ListRecord /\ list.total \in Nat
    BY <1>2 DEF ListRecord
  <2>2. /\ Labelled(stored, list.label) \subseteq Labelled(stored', list.label)
        /\ Cardinality(Labelled(stored, list.label)) <= Cardinality(Labelled(stored', list.label))
    BY LabelledOf
  <2>3. /\ Cardinality(Labelled(stored, list.label)) \in Nat
        /\ Cardinality(Labelled(stored', list.label)) \in Nat
    BY LabelledOf
  <2>4. Labelled(stored, list.label)' = Labelled(stored', list.label)
    BY DEF Labelled
  <2>5. list.total <= Cardinality(Labelled(stored', list.label))
    BY <1>2, <2>1, <2>2, <2>3
  <2> QED
    BY <1>2, <2>1, <2>2, <2>4, <2>5
<1> QED
  BY <1>1, <1>2

LEMMA MeteringPreserves ==
  ASSUME ListInv, Metering
  PROVE  ListInv' /\ UNCHANGED <<live, ask, was, kept>>
<1> USE DEF ListInv
<1>1. ASSUME NEW s \in Samples, ingestEnergyReading(s)
      PROVE  ListInv' /\ UNCHANGED <<live, ask, was, kept>>
  <2>1. /\ stored' = stored \cup {s} /\ batch' = batch /\ list' = list
        /\ UNCHANGED <<live, ask, was, kept>>
    BY <1>1 DEF ingestEnergyReading
  <2> QED
    BY <2>1, MoreReadings
<1>2. ASSUME simulateEnergyReadings
      PROVE  ListInv' /\ UNCHANGED <<live, ask, was, kept>>
  <2>1. /\ batch # <<>> /\ list' = list /\ UNCHANGED <<live, ask, was, kept>>
        /\ \/ stored' = stored \cup {Head(batch)} /\ batch' = Tail(batch)
           \/ batch' = <<>> /\ stored' = stored
    BY <1>2 DEF simulateEnergyReadings
  <2>2. Head(batch) \in Samples /\ Tail(batch) \in Seq(Samples) /\ <<>> \in Seq(Samples)
    BY <2>1, HeadTailProperties, EmptySeq
  <2> QED
    BY <2>1, <2>2, MoreReadings
<1>3. ASSUME NEW l \in Labels \cup {Anything}, CountHistory(l)
      PROVE  ListInv' /\ UNCHANGED <<live, ask, was, kept>>
  <2> DEFINE n == Cardinality(Labelled(stored, l))
  <2>1. /\ list' = [at |-> "page", label |-> l, total |-> n, page |-> {}, all |-> {}]
        /\ stored' = stored /\ batch' = batch /\ UNCHANGED <<live, ask, was, kept>>
    BY <1>3 DEF CountHistory
  <2>2. n \in Nat
    BY LabelledOf
  <2>3. Labelled(stored, l)' = Labelled(stored, l)
    BY <2>1 DEF Labelled
  <2>4. list' \in ListRecord
    <3> HIDE DEF n
    <3> QED
      BY <2>1, <2>2 DEF ListRecord
  <2> QED
    BY <2>1, <2>2, <2>3, <2>4
<1>4. ASSUME ReadPage
      PROVE  ListInv' /\ UNCHANGED <<live, ask, was, kept>>
  <2>1. PICK P \in PagesOf(Labelled(stored, list.label)) :
           list' = [list EXCEPT !.at = "all", !.page = P]
    BY <1>4 DEF ReadPage
  <2>2. stored' = stored /\ batch' = batch /\ UNCHANGED <<live, ask, was, kept>>
    BY <1>4 DEF ReadPage
  <2>3. list # Waiting
    BY <1>4, AtWaiting DEF ReadPage
  <2>4. P \subseteq Labelled(stored, list.label) /\ P \subseteq Samples
    BY PageIsPart, LabelledOf
  <2>5. /\ list' \in ListRecord /\ list'.label = list.label /\ list'.total = list.total
        /\ list'.page = P /\ list'.at = "all"
    BY <2>1, <2>3, <2>4 DEF ListRecord
  <2>6. Labelled(stored, list.label)' = Labelled(stored, list.label)
    BY <2>2, <2>5 DEF Labelled
  <2> QED
    BY <2>2, <2>3, <2>4, <2>5, <2>6
<1>5. ASSUME ReadAll
      PROVE  ListInv' /\ UNCHANGED <<live, ask, was, kept>>
  <2> DEFINE A == Labelled(stored, list.label)
  <2>1. /\ list' = [list EXCEPT !.at = "answered", !.all = A]
        /\ stored' = stored /\ batch' = batch /\ UNCHANGED <<live, ask, was, kept>>
    BY <1>5 DEF ReadAll
  <2>2. list # Waiting
    BY <1>5, AtWaiting DEF ReadAll
  <2>3. A \subseteq Samples
    BY LabelledOf
  <2>4. /\ list' \in ListRecord /\ list'.label = list.label /\ list'.total = list.total
        /\ list'.page = list.page /\ list'.all = A
    BY <2>1, <2>2, <2>3 DEF ListRecord
  <2>5. Labelled(stored, list.label)' = Labelled(stored, list.label)
    BY <2>1, <2>4 DEF Labelled
  <2> QED
    BY <2>1, <2>2, <2>4, <2>5
<1>6. ASSUME ListTaken
      PROVE  ListInv' /\ UNCHANGED <<live, ask, was, kept>>
  BY <1>6 DEF ListTaken
<1> QED
  BY <1>1, <1>2, <1>3, <1>4, <1>5, <1>6 DEF Metering

LEMMA AInvInductive ==
  ASSUME AskInv, ListInv, [Advising \/ Metering]_adviceVars
  PROVE  AskInv' /\ ListInv'
<1>1. CASE Advising
  <2>1. AskInv' /\ UNCHANGED <<stored, batch, list>>
    BY <1>1, AdvisingPreserves
  <2> QED
    BY <2>1 DEF ListInv, Labelled
<1>2. CASE Metering
  <2>1. ListInv' /\ UNCHANGED <<live, ask, was, kept>>
    BY <1>2, MeteringPreserves
  <2> QED
    BY <2>1 DEF AskInv, SeesOwn, SeesSome
<1>3. CASE UNCHANGED adviceVars
  BY <1>3 DEF adviceVars, AskInv, SeesOwn, SeesSome, ListInv, Labelled
<1> QED
  BY <1>1, <1>2, <1>3

-----------------------------------------------------------------------------
\* Whatever the market, the questions and the readings, requests and tables stay of their types.
THEOREM AdviceTypes == AdviceSpec => []AdviceTypeOK
<1>1. AskInv /\ ListInv => AdviceTypeOK
  BY DEF AdviceTypeOK, AskInv, ListInv
<1> QED
  BY <1>1, InitAInv, AInvInductive, PTL DEF AdviceSpec

LEMMA TradesWere ==
  ASSUME NEW S \in SUBSET Rows, NEW T \in SUBSET S, NEW window,
         dataQualityFor(T, window) = "HIGH"
  PROVE  Cardinality(Of("trade", S)) >= 3
<1>1. Of("trade", S) \in SUBSET Rows /\ Of("trade", T) \in SUBSET Of("trade", S)
  BY TradesOf
<1>2. IsFiniteSet(Of("trade", S))
  BY <1>1, FS_Subset, AdviceAssumption DEF AdviceAssumption
<1>3. /\ Cardinality(Of("trade", S)) \in Nat /\ Cardinality(Of("trade", T)) \in Nat
      /\ Cardinality(Of("trade", T)) <= Cardinality(Of("trade", S))
  BY <1>1, <1>2, FS_Subset, FS_CardinalityType
<1>4. Cardinality(Of("trade", T)) >= 3
  BY DEF dataQualityFor
<1> QED
  BY <1>3, <1>4

\* For any rows, weights and moves of the market between the reads, an advised price lies
\* between prices of rows that fitted the question and were live while it was answered, rounding
\* and clamping included; it is missing only if none was live all along; only three confirmed
\* trades make it a good one.
THEOREM PriceIsBackedHolds == AdviceSpec => []PriceIsBacked
<1>1. AskInv => PriceIsBacked
  <2> DEFINE S == ask.seen["pricing"]
             live2 == {q \in was : Asks(q)}
             backing == {RowOf[r].price : r \in live2}
             price == recommendPrice(S, ask.window)
             quality == dataQualityFor(S, ask.window)
  <2> SUFFICES ASSUME AskInv, ask.at = "answered"
               PROVE  IF quality = "INSUFFICIENT" THEN \A r \in kept : ~Asks(r)
                      ELSE /\ \E lo, hi \in backing : lo <= price /\ price <= hi
                           /\ quality = "HIGH" => Cardinality(Of("trade", was)) >= 3
    BY DEF PriceIsBacked
  <2>1. /\ S \in SUBSET Rows /\ ask.window \in BOOLEAN /\ S \subseteq live2 /\ S \in SUBSET was
        /\ was \in SUBSET Rows /\ SeesSome /\ ask.left = {}
    BY AtWaiting DEF AskInv, AskRecord, Asks
  <2>2. CASE S = {}
    <3>1. \A r \in kept : ~Asks(r)
      BY <2>1, <2>2 DEF SeesSome, Asks
    <3>2. quality = "INSUFFICIENT"
      BY <2>2 DEF dataQualityFor
    <3> QED
      BY <3>1, <3>2
  <2>3. CASE S # {}
    <3>1. Prices(S) \subseteq backing
      BY <2>1 DEF Prices
    <3>2. Prices(S) \subseteq Nat /\ IsFiniteSet(Prices(S)) /\ Prices(S) # {}
      BY <2>1, <2>3, PricesAre
    <3>3. Least(Prices(S)) \in backing /\ Most(Prices(S)) \in backing
      BY <3>1, <3>2, LeastIs, MostIs
    <3>4. Least(Prices(S)) <= price /\ price <= Most(Prices(S))
      BY <2>1, <2>3, PriceBetween
    <3>5. quality = "HIGH" => Cardinality(Of("trade", was)) >= 3
      BY <2>1, TradesWere
    <3>6. quality # "INSUFFICIENT"
      BY <2>3 DEF dataQualityFor
    <3> HIDE DEF S, backing, price, quality
    <3> QED
      BY <3>3, <3>4, <3>5, <3>6
  <2> QED
    BY <2>2, <2>3
<1> QED
  BY <1>1, InitAInv, AInvInductive, PTL DEF AdviceSpec

\* For any rows, actors and answers of the provider, an insight counts every trade of who asks
\* that was there all along and none that was not, and the fallback calls its data insufficient
\* when no trade that it was asked about ever stood, and never when one stood all along.
THEOREM InsightIsHonestHolds == AdviceSpec => []InsightIsHonest
<1>1. AskInv => InsightIsHonest
  <2> DEFINE insight == createAiInsight(ask)
             S == ask.seen["analytics"]
             P == ask.seen["pricing"]
             own(T) == {r \in T : Asks(r) /\ InScope(r, ask.actor)}
             trades(T) == {r \in Of("trade", T) : Asks(r)}
  <2> SUFFICES ASSUME AskInv, ask.at = "answered"
               PROVE  /\ Volume(own(kept)) <= insight.volume /\ insight.volume <= Volume(own(was))
                      /\ insight.usedFallback =>
                           /\ insight.dataQuality = "INSUFFICIENT" => trades(kept) = {}
                           /\ insight.dataQuality # "INSUFFICIENT" => trades(was) # {}
    BY DEF InsightIsHonest
  <2>1. /\ S \in SUBSET Rows /\ P \in SUBSET Rows /\ was \in SUBSET Rows
        /\ S \in SUBSET own(was) /\ own(was) \in SUBSET Rows
        /\ P \subseteq {r \in was : Asks(r)}
    BY AtWaiting DEF AskInv, AskRecord, Asks
  <2>2. own(kept) \in SUBSET S
    BY AtWaiting DEF AskInv, SeesOwn, Asks
  <2>3. /\ insight.volume = Volume(S) /\ insight.dataQuality = InsightQuality(ask)
        /\ insight.usedFallback = (ask.output = "fallback")
    BY DEF createAiInsight
  <2>4. Volume(own(kept)) <= Volume(S) /\ Volume(S) <= Volume(own(was))
    <3> HIDE DEF S, own
    <3> QED
      BY <2>1, <2>2, VolumeOf
  <2>5. ASSUME ask.output = "fallback", InsightQuality(ask) = "INSUFFICIENT"
        PROVE  trades(kept) = {}
    <3>1. Of("trade", P) = {}
      BY <2>5 DEF InsightQuality, emptyVolume
    <3>2. \A r \in kept : Asks(r) => \E x \in P : RowOf[x].kind = RowOf[r].kind
      BY AtWaiting DEF AskInv, SeesSome, Asks
    <3> QED
      BY <3>1, <3>2 DEF Of
  <2>6. ASSUME ask.output = "fallback", InsightQuality(ask) # "INSUFFICIENT"
        PROVE  trades(was) # {}
    <3>1. Volume(S) # 0 \/ Of("trade", P) # {}
      BY <2>6 DEF InsightQuality, emptyVolume
    <3>2. Of("trade", S) # {} \/ Of("trade", P) # {}
      BY <2>1, <3>1, VolumeOf
    <3> QED
      BY <2>1, <3>2 DEF Of
  <2> HIDE DEF insight, S, own, trades
  <2> QED
    BY <2>3, <2>4, <2>5, <2>6
<1> QED
  BY <1>1, InitAInv, AInvInductive, PTL DEF AdviceSpec

\* For any readings, any page and any that arrive between the three queries, the summary of a
\* counted history covers the count and the page, and its labels add up to its total.
THEOREM HistoryIsSummarisedHolds == AdviceSpec => []HistoryIsSummarised
<1>1. ListInv => HistoryIsSummarised
  <2> DEFINE sum == HistoryAnswer.summary
             full == summarizeEnergyHistory(list.all)
  <2> SUFFICES ASSUME ListInv, list.at = "answered", HistoryAnswer.total > 0
               PROVE  /\ sum.sampleCount >= HistoryAnswer.total
                      /\ sum.sampleCount >= Cardinality(HistoryAnswer.samples)
                      /\ \A s \in HistoryAnswer.samples :
                           /\ sum.first <= SampleOf[s].at /\ SampleOf[s].at <= sum.last
                           /\ sum.byLabel[SampleOf[s].label] >= SampleOf[s].kwh
                      /\ sum.totalKwh = MapThenSumSet(LAMBDA l : sum.byLabel[l], Labels)
    BY DEF HistoryIsSummarised
  <2>1. /\ list.all \in SUBSET Samples /\ list.page \in SUBSET list.all
        /\ list.total <= Cardinality(list.all) /\ list.total \in Nat
    BY AtWaiting DEF ListInv, ListRecord
  <2>2. HistoryAnswer.total = list.total /\ HistoryAnswer.samples = list.page /\ list.total > 0
    BY DEF HistoryAnswer
  <2>3. sum = full
    BY <2>1, <2>2 DEF HistoryAnswer
  <2>4. IsFiniteSet(list.all)
    BY <2>1, FS_Subset, AdviceAssumption DEF AdviceAssumption
  <2>5. /\ Cardinality(list.all) \in Nat /\ Cardinality(list.page) \in Nat
        /\ Cardinality(list.page) <= Cardinality(list.all)
    BY <2>1, <2>4, FS_Subset, FS_CardinalityType
  <2>6. list.all # {}
    <3>1. Cardinality(list.all) > 0
      BY <2>1, <2>2, <2>5
    <3>2. Cardinality({}) = 0
      BY FS_EmptySet
    <3> QED
      BY <3>1, <3>2
  <2>7. /\ full.sampleCount = Cardinality(list.all)
        /\ \A s \in list.all : /\ full.first <= SampleOf[s].at /\ SampleOf[s].at <= full.last
                               /\ full.byLabel[SampleOf[s].label] >= SampleOf[s].kwh
        /\ full.totalKwh = MapThenSumSet(LAMBDA l : full.byLabel[l], Labels)
    BY <2>1, <2>6, SummaryCovers
  <2> HIDE DEF sum, full
  <2>8. sum.totalKwh = MapThenSumSet(LAMBDA l : sum.byLabel[l], Labels)
    BY <2>3, <2>7
  <2> QED
    BY <2>1, <2>2, <2>3, <2>5, <2>7, <2>8
<1> QED
  BY <1>1, InitAInv, AInvInductive, PTL DEF AdviceSpec

-----------------------------------------------------------------------------
(* The services together.  Each part of an execution of the instance moves one of them, by
   steps of its own. *)

\* No tab waits for an answer outside the browser's part.
TabsIdle == part \in {"sessions", "admins"} => call = [r \in Requests |-> NoCall]

LEMMA ApiStep ==
  ASSUME TabsIdle, part \in {"sessions", "admins"}, ApiPart
  PROVE  Elsewhere \/ Server
<1>1. \A r \in Requests : call[r].tab = None
  BY DEF TabsIdle, NoCall
<1>2. ASSUME NEW r \in Requests, SessionRequest(r) \/ AdminRequest(r)
      PROVE  Arrive(r)
  BY <1>2, ServicesAssumption DEF ServicesAssumption, SessionRequest, AdminRequest, Arrive
<1>3. UNCHANGED webVars
  BY DEF ApiPart
<1>4. \/ \E r \in Requests : SessionRequest(r) \/ AdminRequest(r) \/ Serve(r) \/ Answered(r)
      \/ \E k \in Expiring : Expire(k)
  BY DEF ApiPart, Step
<1>5. CASE \E r \in Requests : SessionRequest(r) \/ AdminRequest(r)
  BY <1>2, <1>3, <1>5 DEF Elsewhere
<1>6. CASE \E r \in Requests : Serve(r)
  BY <1>3, <1>6 DEF Server
<1>7. CASE \E r \in Requests : Answered(r)
  BY <1>1, <1>3, <1>7 DEF Elsewhere
<1>8. CASE \E k \in Expiring : Expire(k)
  BY <1>3, <1>8 DEF Elsewhere
<1> QED
  BY <1>4, <1>5, <1>6, <1>7, <1>8

LEMMA WebStep ==
  ASSUME WebPart
  PROVE  Next
<1>1. ASSUME NEW r \in Requests, Step(r), req[r].at = "reply" => call[r] = NoCall, UNCHANGED webVars
      PROVE  Server \/ Elsewhere
  <2>1. CASE Serve(r)
    BY <1>1, <2>1 DEF Server
  <2>2. CASE Answered(r)
    <3>1. call[r].tab = None
      BY <1>1, <2>2 DEF Answered, NoCall
    <3> QED
      BY <1>1, <2>2, <3>1 DEF Elsewhere
  <2> QED
    BY <1>1, <2>1, <2>2 DEF Step
<1>2. ASSUME NEW k \in Expiring, Expire(k), UNCHANGED webVars
      PROVE  Elsewhere
  BY <1>2 DEF Elsewhere
<1>3. \/ \E r \in Requests : Sent(r) \/ Receive(r) \/ Lost(r)
      \/ \E b \in Tabs : Reload(b)
      \/ \E r \in Requests :
           Step(r) /\ (req[r].at = "reply" => call[r] = NoCall) /\ UNCHANGED webVars
      \/ \E k \in Expiring : Expire(k) /\ UNCHANGED webVars
  BY DEF WebPart
<1> QED
  BY <1>1, <1>2, <1>3 DEF Next

LEMMA AccountsStep ==
  ASSUME TabsIdle, [MCNext]_mcVars
  PROVE  [Next]_vars /\ TabsIdle'
<1>1. CASE MCNext /\ part \in {"sessions", "admins"}
  <2>1. ApiPart /\ part' = part
    BY <1>1 DEF MCNext
  <2>2. Elsewhere \/ Server
    BY <1>1, <2>1, ApiStep
  <2>3. call' = call
    BY <2>2 DEF Elsewhere, Server, webVars
  <2> QED
    BY <2>1, <2>2, <2>3 DEF Next, TabsIdle
<1>2. CASE MCNext /\ part = "web"
  <2>1. WebPart /\ part' = "web"
    BY <1>2 DEF MCNext
  <2> QED
    BY <2>1, WebStep DEF TabsIdle
<1>3. CASE MCNext /\ part \notin {"sessions", "admins", "web"}
  BY <1>3 DEF MCNext, TabsIdle
<1>4. CASE UNCHANGED mcVars
  BY <1>4 DEF mcVars, vars, webVars, TabsIdle
<1> QED
  BY <1>1, <1>2, <1>3, <1>4

LEMMA WalletsStep == [MCNext]_mcVars => [WalletsNext]_walletVars
BY DEF MCNext, mcVars

LEMMA EventsStep == [MCNext]_mcVars => [RealtimeNext]_realtimeVars
BY DEF MCNext, mcVars, EventPart

LEMMA AdviceStep == [MCNext]_mcVars => [Advising \/ Metering]_adviceVars
<1>1. AdvicePart => Advising
  <2> SUFFICES ASSUME AdvicePart PROVE Advising
    OBVIOUS
  <2>1. /\ Alice \in Actors /\ Carol \in Actors /\ FALSE \in BOOLEAN /\ TRUE \in BOOLEAN
        /\ Anything \in Places \cup {Anything} /\ "north" \in Places /\ "south" \in Places
    BY ServicesAssumption DEF ServicesAssumption
  <2>2. ASSUME NEW r \in Moving, Moves(r)
        PROVE  Advising
    BY <2>2 DEF Moving, Advising
  <2>3. CASE \/ Asked(Alice, Anything, FALSE) \/ Asked(Alice, "north", TRUE)
             \/ Asked(Carol, "south", FALSE)
    BY <2>1, <2>3 DEF Advising
  <2> QED
    BY <2>2, <2>3 DEF AdvicePart, Advising
<1> QED
  BY <1>1 DEF MCNext, mcVars

\* The instance that the run services checks is one of every service: its executions are those
\* of the accounts with their browser, of the wallets, the events and the answers, so that what
\* is proved of these holds of it.  The fairness of the events is the instance's own.
THEOREM PartsAreServices ==
  MCSpec => Spec /\ WalletsSpec /\ RealtimeInit /\ [][RealtimeNext]_realtimeVars /\ AdviceSpec
<1>1. MCInit => Init /\ WalletsInit /\ RealtimeInit /\ AdviceInit /\ TabsIdle
  BY DEF MCInit, Init, TabsIdle
<1>2. TabsIdle /\ [MCNext]_mcVars => [Next]_vars /\ TabsIdle'
  BY AccountsStep
<1> QED
  BY <1>1, <1>2, WalletsStep, EventsStep, AdviceStep, PTL
     DEF MCSpec, Spec, WalletsSpec, AdviceSpec

\* Nothing that one service does takes another out of its types.
THEOREM ServicesTypesHold == MCSpec => []ServicesTypeOK
<1>1. RealtimeInit /\ [][RealtimeNext]_realtimeVars => []RealtimeTypeOK
  BY RInvTypes, InitRInv, RealtimePreserves, PTL
<1>2. SessionsTypeOK /\ WebTypeOK /\ WalletsTypeOK /\ RealtimeTypeOK /\ AdviceTypeOK
        => ServicesTypeOK
  BY DEF ServicesTypeOK
<1> QED
  BY <1>1, <1>2, PartsAreServices, WebIsSessions, SessionTypes, WebTypes, WalletTypes,
     AdviceTypes, PTL
=============================================================================
