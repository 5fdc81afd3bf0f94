------------------------------- MODULE Advice -------------------------------
(***************************************************************************)
(* What the API tells about the market without changing it: the advisory   *)
(* price (price.service.ts, pricing.ts), the AI insight built from it and  *)
(* from the caller's analytics (ai.service.ts, ai.ts), and the energy      *)
(* history (iot.service.ts, iot.ts).  Each answer is put together from     *)
(* several reads while the market goes on.                                  *)
(*                                                                         *)
(* Quantities and prices are whole numbers, weights the code's factors     *)
(* scaled to whole numbers; Recency stands for the exponential decay.      *)
(***************************************************************************)
EXTENDS Integers, FiniteSets, FiniteSetsExt, SequencesExt

CONSTANTS
    Rows,      \* trades, listings and bids that may count as confirmed or live
    RowOf,     \* row -> [kind, price, kwh, place, seller, buyer, recency, overlaps]
    Places,    \* energy type and market zone
    Actors,    \* who asks; an administrator sees the whole platform
    Platform,  \* the administrators among them
    Take,      \* the rows of a table that the pricing service reads at most, 500
    Samples,   \* the energy readings that may be stored
    SampleOf,  \* sample -> [kwh, label, at]
    Batch,     \* the readings of one simulation, oldest first
    PageSize,
    Anything   \* no filter

Labels == {"ACTUAL", "ESTIMATED", "SIMULATED"}

MarketRow == [kind : {"trade", "ask", "bid"}, price : Nat, kwh : Nat \ {0}, place : Places,
              seller : Actors, buyer : Actors, recency : Nat \ {0}, overlaps : BOOLEAN]

Reading == [kwh : Nat, label : Labels, at : Nat]

\* A simulation's readings are labelled so, and drafted with the oldest first.
Simulated(drafts) ==
    \A i \in DOMAIN drafts :
        /\ SampleOf[drafts[i]].label = "SIMULATED"
        /\ \A j \in 1..(i - 1) : SampleOf[drafts[j]].at < SampleOf[drafts[i]].at

ASSUME AdviceAssumption ==
    /\ IsFiniteSet(Rows) /\ IsFiniteSet(Samples)
    /\ RowOf \in [Rows -> MarketRow]
    /\ Platform \subseteq Actors
    /\ SampleOf \in [Samples -> Reading]
    /\ Batch \in Seq(Samples) /\ Simulated(Batch)
    /\ Take \in Nat \ {0} /\ PageSize \in Nat \ {0}
    /\ Anything \notin Places \cup Labels

VARIABLES
    live,     \* the rows that are confirmed, or open and inside their window, now
    ask,      \* the request for a price or an insight: what it has read
    was,      \* the rows that were live at some time since it arrived
    kept,     \* the rows that were live all the time since
    stored,   \* the energy readings in the table
    batch,    \* what a simulation has still to store
    list      \* the request for a page of the history: what it has read

adviceVars == <<live, ask, was, kept, stored, batch, list>>

Kinds == {"trade", "ask", "bid"}

\* An insight asks the pricing and the analytics service at once, each for three tables.
Reads == {"pricing", "analytics"} \X Kinds

Waiting == [at |-> "none"]

Of(kind, S) == {r \in S : RowOf[r].kind = kind}

Fits(r, place) == place = Anything \/ RowOf[r].place = place

\* Analytics of a user: his own trades, listings and bids; of an administrator, all.
InScope(r, actor) ==
    \/ actor \in Platform
    \/ RowOf[r].kind # "bid" /\ RowOf[r].seller = actor
    \/ RowOf[r].kind # "ask" /\ RowOf[r].buyer = actor

-----------------------------------------------------------------------------
(* The advisory price *)

PRICE_KIND_WEIGHT == [trade |-> 30, ask |-> 10, bid |-> 12]

windowWeight(r, window) == IF window /\ ~RowOf[r].overlaps THEN 4 ELSE 10

observationWeight(r, window) ==
    PRICE_KIND_WEIGHT[RowOf[r].kind] * RowOf[r].kwh * RowOf[r].recency * windowWeight(r, window)

Least(S) == CHOOSE x \in S : \A y \in S : x <= y
Most(S) == CHOOSE x \in S : \A y \in S : x >= y

Prices(S) == {RowOf[r].price : r \in S}

\* n/d rounded to the nearest whole number, halves up.
Rounded(n, d) == (2 * n + d) \div (2 * d)

\* The price is the fraction num/den: the weighted mean, blended 3 to 2 with the middle of the
\* best ask and the best bid when there are both.
Blend(S, window) ==
    LET weight(r) == observationWeight(r, window)
        W == MapThenSumSet(weight, S)
        V == MapThenSumSet(LAMBDA r : RowOf[r].price * weight(r), S)
        asks == Prices(Of("ask", S))
        bids == Prices(Of("bid", S))
    IN  IF asks # {} /\ bids # {}
        THEN [num |-> 6 * V + 2 * (Least(asks) + Most(bids)) * W, den |-> 10 * W]
        ELSE [num |-> V, den |-> W]

recommendPrice(S, window) ==
    LET b == Blend(S, window)
        least == Least(Prices(S))
        most == Most(Prices(S))
    IN  IF b.num < least * b.den THEN least
        ELSE IF b.num > most * b.den THEN most
        ELSE Rounded(b.num, b.den)

\* Confidence in thousandths: trades, live orders, volume and spread.
score(S, window) ==
    LET capped(n, cap) == IF n < cap THEN n ELSE cap
        price == recommendPrice(S, window)
        spread == Most(Prices(S)) - Least(Prices(S))
        calm == IF price > 0 /\ spread < price THEN (150 * (price - spread)) \div price ELSE 0
    IN  (500 * capped(Cardinality(Of("trade", S)), 8)) \div 8
        + (200 * capped(Cardinality(S \ Of("trade", S)), 8)) \div 8
        + (150 * capped(MapThenSumSet(LAMBDA r : RowOf[r].kwh, S), 100)) \div 100
        + calm

dataQualityFor(S, window) ==
    IF S = {} THEN "INSUFFICIENT"
    ELSE IF score(S, window) >= 700 /\ Cardinality(Of("trade", S)) >= 3 THEN "HIGH"
    ELSE IF score(S, window) >= 350 \/ Cardinality(S) >= 3 THEN "MEDIUM"
    ELSE "LOW"

-----------------------------------------------------------------------------
(* The insight *)

Volume(S) == MapThenSumSet(LAMBDA r : RowOf[r].kwh, Of("trade", S))

\* Mutant: volume of either kind missing will do.
emptyVolume_Either(q) ==
    Volume(q.seen["analytics"]) = 0 \/ Of("trade", q.seen["pricing"]) = {}

emptyVolume(q) == Volume(q.seen["analytics"]) = 0 /\ Of("trade", q.seen["pricing"]) = {}

\* A text of the model is called MEDIUM whatever the facts are.
InsightQuality(q) ==
    IF q.output = "fallback" /\ emptyVolume(q) THEN "INSUFFICIENT" ELSE "MEDIUM"

createAiInsight(q) ==
    [volume |-> Volume(q.seen["analytics"]), dataQuality |-> InsightQuality(q),
     usedFallback |-> q.output = "fallback"]

-----------------------------------------------------------------------------
(* The energy history *)

Labelled(S, label) == {s \in S : label = Anything \/ SampleOf[s].label = label}

\* What a page of S may hold: after whole pages of readings before it, by time one way or
\* the other, as many as there are left and fit; nothing past the last page.
PagesOf(S) ==
    LET upTo(P, Q) == \A s \in P, t \in Q : SampleOf[s].at <= SampleOf[t].at
        holds(n, T) == n = IF Cardinality(T) < PageSize THEN Cardinality(T) ELSE PageSize
    IN  {{}} \cup
        {P \in SUBSET S : \E before \in SUBSET (S \ P) :
            LET after == S \ (before \cup P)
            IN  /\ Cardinality(before) % PageSize = 0
                /\ holds(Cardinality(P), S \ before)
                /\ \/ upTo(before, P) /\ upTo(before \cup P, after)
                   \/ upTo(P, before) /\ upTo(after, before \cup P)}

emptyEnergySummary ==
    [sampleCount |-> 0, totalKwh |-> 0, byLabel |-> [l \in Labels |-> 0], first |-> 0, last |-> 0]

summarizeEnergyHistory(S) ==
    LET times == {SampleOf[s].at : s \in S}
        kwh(T) == MapThenSumSet(LAMBDA s : SampleOf[s].kwh, T)
    IN  IF S = {} THEN emptyEnergySummary
        ELSE [sampleCount |-> Cardinality(S), totalKwh |-> kwh(S),
              byLabel |-> [l \in Labels |-> kwh(Labelled(S, l))],
              first |-> Least(times), last |-> Most(times)]

HistoryAnswer ==
    [total |-> list.total, samples |-> list.page,
     summary |-> IF list.total = 0 THEN emptyEnergySummary ELSE summarizeEnergyHistory(list.all)]

-----------------------------------------------------------------------------
\* The market moves: a row is confirmed, opened, filled, closed or lapses.
Moves(r) ==
    /\ live' = IF r \in live THEN live \ {r} ELSE live \cup {r}
    /\ was' = was \cup live'
    /\ kept' = kept \cap live'
    /\ UNCHANGED <<ask, stored, batch, list>>

Asked(actor, place, window) ==
    /\ ask = Waiting
    /\ ask' = [at |-> "reading", actor |-> actor, place |-> place, window |-> window,
               left |-> Reads, seen |-> [s \in {"pricing", "analytics"} |-> {}],
               output |-> "fallback"]
    /\ was' = live
    /\ kept' = live
    /\ UNCHANGED <<live, stored, batch, list>>

\* The analytics read all rows; the pricing service so many, of trades the newest, of the others
\* whichever the database gives first.
Returned(service, found) ==
    IF service = "analytics" \/ Cardinality(found) <= Take THEN {found}
    ELSE {read \in SUBSET found : Cardinality(read) = Take}

\* Mutant: the query forgets the energy type and the zone.
ReadTable_AnyPlace(service, kind) ==
    /\ ask.at = "reading"
    /\ <<service, kind>> \in ask.left
    /\ LET found == {r \in Of(kind, live) : service = "analytics" => InScope(r, ask.actor)}
       IN  \E read \in Returned(service, found) :
              ask' = [ask EXCEPT !.left = @ \ {<<service, kind>>}, !.seen[service] = @ \cup read]
    /\ UNCHANGED <<live, was, kept, stored, batch, list>>

\* One of the queries that run side by side.
ReadTable(service, kind) ==
    /\ ask.at = "reading"
    /\ <<service, kind>> \in ask.left
    /\ LET found == {r \in Of(kind, live) : /\ Fits(r, ask.place)
                                            /\ service = "analytics" => InScope(r, ask.actor)}
       IN  \E read \in Returned(service, found) :
              ask' = [ask EXCEPT !.left = @ \ {<<service, kind>>}, !.seen[service] = @ \cup read]
    /\ UNCHANGED <<live, was, kept, stored, batch, list>>

\* The provider answers, or fails, times out, is not configured or returns no valid JSON.
Provider(output) ==
    /\ ask.at = "reading"
    /\ ask.left = {}
    /\ ask' = [ask EXCEPT !.at = "answered", !.output = output]
    /\ UNCHANGED <<live, was, kept, stored, batch, list>>

Taken ==
    /\ ask.at = "answered"
    /\ ask' = Waiting
    /\ was' = {}
    /\ kept' = {}
    /\ UNCHANGED <<live, stored, batch, list>>

ingestEnergyReading(s) ==
    /\ s \notin stored \cup Range(Batch)
    /\ stored' = stored \cup {s}
    /\ UNCHANGED <<live, ask, was, kept, batch, list>>

\* A simulation stores its readings one by one, and stops at the first that fails.
simulateEnergyReadings ==
    /\ batch # <<>>
    /\ \/ stored' = stored \cup {Head(batch)} /\ batch' = Tail(batch)
       \/ batch' = <<>> /\ UNCHANGED stored
    /\ UNCHANGED <<live, ask, was, kept, list>>

\* listEnergyHistory: the three statements of one transaction, each with a view of its own.
CountHistory(label) ==
    /\ list = Waiting
    /\ list' = [at |-> "page", label |-> label, total |-> Cardinality(Labelled(stored, label)),
                page |-> {}, all |-> {}]
    /\ UNCHANGED <<live, ask, was, kept, stored, batch>>

ReadPage ==
    /\ list.at = "page"
    /\ \E page \in PagesOf(Labelled(stored, list.label)) :
          list' = [list EXCEPT !.at = "all", !.page = page]
    /\ UNCHANGED <<live, ask, was, kept, stored, batch>>

\* Mutant: the summary is that of the page.
ReadAll_OfPage ==
    /\ list.at = "all"
    /\ list' = [list EXCEPT !.at = "answered", !.all = list.page]
    /\ UNCHANGED <<live, ask, was, kept, stored, batch>>

ReadAll ==
    /\ list.at = "all"
    /\ list' = [list EXCEPT !.at = "answered", !.all = Labelled(stored, list.label)]
    /\ UNCHANGED <<live, ask, was, kept, stored, batch>>

ListTaken ==
    /\ list.at = "answered"
    /\ list' = Waiting
    /\ UNCHANGED <<live, ask, was, kept, stored, batch>>

AdviceInit ==
    /\ live \in SUBSET Rows
    /\ ask = Waiting
    /\ was = {} /\ kept = {}
    /\ stored = {}
    /\ batch = Batch
    /\ list = Waiting

Advising ==
    \/ \E r \in Rows : Moves(r)
    \/ \E a \in Actors, p \in Places \cup {Anything}, w \in BOOLEAN : Asked(a, p, w)
    \/ \E s \in {"pricing", "analytics"}, k \in Kinds : ReadTable(s, k)
    \/ \E o \in {"model", "fallback"} : Provider(o)
    \/ Taken

Metering ==
    \/ \E s \in Samples : ingestEnergyReading(s)
    \/ simulateEnergyReadings
    \/ \E l \in Labels \cup {Anything} : CountHistory(l)
    \/ ReadPage \/ ReadAll \/ ListTaken

AdviceSpec == AdviceInit /\ [][Advising \/ Metering]_adviceVars

-----------------------------------------------------------------------------
AskRecord ==
    [at : {"reading", "answered"}, actor : Actors, place : Places \cup {Anything},
     window : BOOLEAN, left : SUBSET Reads, seen : [{"pricing", "analytics"} -> SUBSET Rows],
     output : {"model", "fallback"}]

ListRecord ==
    [at : {"page", "all", "answered"}, label : Labels \cup {Anything}, total : Nat,
     page : SUBSET Samples, all : SUBSET Samples]

\* Market rows, requests to the advisor, readings and requests for the history are of their
\* types.
AdviceTypeOK ==
    /\ live \subseteq Rows /\ kept \subseteq was /\ was \subseteq Rows
    /\ ask \in AskRecord \cup {Waiting}
    /\ stored \subseteq Samples
    /\ batch \in Seq(Samples)
    /\ list \in ListRecord \cup {Waiting}

Asks(r) == Fits(r, ask.place)

\* No price is invented, and none is held back: an advised price lies between prices of rows
\* that fitted the question and were live while it was answered, it is missing only if none was
\* live all along, and only confirmed trades make it a good one.
PriceIsBacked ==
    ask.at = "answered" =>
        LET S == ask.seen["pricing"]
            backing == {RowOf[r].price : r \in {q \in was : Asks(q)}}
            price == recommendPrice(S, ask.window)
            quality == dataQualityFor(S, ask.window)
        IN  IF quality = "INSUFFICIENT" THEN \A r \in kept : ~Asks(r)
            ELSE /\ \E lo, hi \in backing : lo <= price /\ price <= hi
                 /\ quality = "HIGH" => Cardinality(Of("trade", was)) >= 3

\* The six queries of an insight have a view of the market each.  The volume it claims is that of
\* trades of who asks, each counted that was there all along and none that never was; and the
\* fallback says that there is nothing to tell about only if no trade it was asked about stood
\* all along, and that there is something only if one stood for a while.
InsightIsHonest ==
    ask.at = "answered" =>
        LET insight == createAiInsight(ask)
            own(S) == {r \in S : Asks(r) /\ InScope(r, ask.actor)}
            trades(S) == {r \in Of("trade", S) : Asks(r)}
        IN  /\ Volume(own(kept)) <= insight.volume /\ insight.volume <= Volume(own(was))
            /\ insight.usedFallback =>
                 /\ insight.dataQuality = "INSUFFICIENT" => trades(kept) = {}
                 /\ insight.dataQuality # "INSUFFICIENT" => trades(was) # {}

\* The summary above a page of the history covers every reading on the page, although readings
\* arrive between the three queries; only an empty count may leave it behind.
HistoryIsSummarised ==
    list.at = "answered" =>
        LET A == HistoryAnswer
        IN  A.total > 0 =>
              /\ A.summary.sampleCount >= A.total
              /\ A.summary.sampleCount >= Cardinality(A.samples)
              /\ \A s \in A.samples :
                   /\ A.summary.first <= SampleOf[s].at /\ SampleOf[s].at <= A.summary.last
                   /\ A.summary.byLabel[SampleOf[s].label] >= SampleOf[s].kwh
              /\ A.summary.totalKwh = MapThenSumSet(LAMBDA l : A.summary.byLabel[l], Labels)
=============================================================================
