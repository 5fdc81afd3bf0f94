---------------------------- MODULE RealtimeProofs ----------------------------
(***************************************************************************)
(* Theorems about Realtime.                                                *)
(*                                                                         *)
(* A change that alters what a page shows is accounted for at every moment *)
(* (Safe): the page shows it, is about to ask or to show it, could not     *)
(* have heard of it, or has an event of it still to come, emitted or not,  *)
(* that makes it ask.  The last needs that no event id is remembered       *)
(* before it is emitted, and that every change has an event for every      *)
(* query that it alters (EventForQuery).                                   *)
(***************************************************************************)
EXTENDS Realtime, SumsProofs

Id == Changes \X Nat

\* An event of c that makes page P ask again, and is sent to it.
Reaches(c, n, P) ==
  /\ P.query \in EVENT_QUERY_KEYS(Events(c)[n].event)
  /\ P.user \in Events(c)[n].to

\* Event n of c is still to come to page P, when d of them are to be emitted.
Coming(c, n, P, d) ==
  \/ n > Len(Events(c)) - d[c]
  \/ <<c, n>> \in Range(P.wire) /\ <<c, n>> \notin Range(P.seen)

Held(P, c) ==
  \/ c \in P.gap
  \/ P.fetch = "asked"
  \/ P.fetch = "none" /\ c \in P.shown
  \/ P.fetch = "read" /\ c \in P.rows

Safe(P, c, d) ==
  Held(P, c) \/ \E n \in 1..Len(Events(c)) : Reaches(c, n, P) /\ Coming(c, n, P, d)

Accounted(P, com, d) ==
  P.user # NoOne => \A c \in com : Alters(c, P.query, P.user) => Safe(P, c, d)

Emitted(x, com, d) == x[1] \in com /\ x[2] >= 1 /\ x[2] <= Len(Events(x[1])) - d[x[1]]

PageOK(P, com, d) ==
  /\ P \in Page /\ Len(P.seen) <= MaxSeen
  /\ \A x \in Range(P.wire) \cup Range(P.seen) : Emitted(x, com, d)

TablesOK ==
  /\ committed \subseteq Changes
  /\ due \in [Changes -> Nat]
  /\ \A c \in Changes : due[c] <= Len(Events(c)) /\ (due[c] > 0 => c \in committed)

RInv ==
  /\ TablesOK
  /\ page \in [Pages -> Page]
  /\ \A p \in Pages : PageOK(page[p], committed, due) /\ Accounted(page[p], committed, due)

-----------------------------------------------------------------------------
(* The tables of events *)

EventRow == [event : {"listing:updated", "bid:updated", "bid:matched", "match:created",
                      "match:updated", "trade:confirmed", "notification:new",
                      "energy:updated", "dashboard:updated"},
             to : SUBSET Viewers]

LEMMA Two ==
  ASSUME NEW S, NEW a \in S, NEW b \in S
  PROVE  /\ <<a>> \in Seq(S) /\ Len(<<a>>) = 1 /\ <<a>>[1] = a
         /\ <<a, b>> \in Seq(S) /\ Len(<<a, b>>) = 2 /\ <<a, b>>[1] = a /\ <<a, b>>[2] = b
OBVIOUS

LEMMA PartsAreRows ==
  ASSUME NEW c \in Changes
  PROVE  /\ BidEvents(c) \in Seq(EventRow) /\ Len(BidEvents(c)) = 2
         /\ BidEvents(c)[1] = [event |-> "bid:updated", to |-> {OwnerOf[c]}]
         /\ \A u \in Viewers :
              /\ ListingEvents(c, u) \in Seq(EventRow) /\ Len(ListingEvents(c, u)) = 2
              /\ ListingEvents(c, u)[1] = [event |-> "listing:updated", to |-> Viewers]
<1>1. OwnerOf[c] \in Viewers /\ OtherOf[c] \in Viewers
  BY RealtimeAssumption DEF RealtimeAssumption
<1>2. /\ [event |-> "bid:updated", to |-> {OwnerOf[c]}] \in EventRow
      /\ [event |-> "dashboard:updated", to |-> {OwnerOf[c]}] \in EventRow
      /\ [event |-> "listing:updated", to |-> Viewers] \in EventRow
      /\ \A u \in Viewers : [event |-> "dashboard:updated", to |-> {u}] \in EventRow
  BY <1>1 DEF EventRow
<1>3. /\ BidEvents(c) \in Seq(EventRow) /\ Len(BidEvents(c)) = 2
      /\ BidEvents(c)[1] = [event |-> "bid:updated", to |-> {OwnerOf[c]}]
  BY <1>2, Two DEF BidEvents
<1>4. ASSUME NEW u \in Viewers
      PROVE  /\ ListingEvents(c, u) \in Seq(EventRow) /\ Len(ListingEvents(c, u)) = 2
             /\ ListingEvents(c, u)[1] = [event |-> "listing:updated", to |-> Viewers]
  BY <1>2, Two DEF ListingEvents, Everyone
<1> QED
  BY <1>3, <1>4

LEMMA MatchRows ==
  ASSUME NEW c \in Changes
  PROVE  /\ MatchEvents(c) \in Seq(EventRow) /\ Len(MatchEvents(c)) = 7
         /\ MatchEvents(c)[1] = [event |-> "bid:updated", to |-> {OwnerOf[c]}]
         /\ MatchEvents(c)[3] = [event |-> "bid:matched", to |-> Parties(c)]
         /\ MatchEvents(c)[4] = [event |-> "listing:updated", to |-> Viewers]
<1> DEFINE matched == [event |-> "bid:matched", to |-> Parties(c)]
           created == [event |-> "match:created", to |-> Parties(c)]
           dash == [event |-> "dashboard:updated", to |-> Parties(c)]
           b == BidEvents(c)
           m == <<matched>>
           l == ListingEvents(c, OtherOf[c])
           e == <<created, dash>>
<1>1. OwnerOf[c] \in Viewers /\ OtherOf[c] \in Viewers
  BY RealtimeAssumption DEF RealtimeAssumption
<1>2. matched \in EventRow /\ created \in EventRow /\ dash \in EventRow
  BY <1>1 DEF EventRow, Parties
<1>3. /\ b \in Seq(EventRow) /\ Len(b) = 2
      /\ b[1] = [event |-> "bid:updated", to |-> {OwnerOf[c]}]
      /\ l \in Seq(EventRow) /\ Len(l) = 2
      /\ l[1] = [event |-> "listing:updated", to |-> Viewers]
  BY <1>1, PartsAreRows
<1>4. /\ m \in Seq(EventRow) /\ Len(m) = 1 /\ m[1] = matched
      /\ e \in Seq(EventRow) /\ Len(e) = 2
  BY <1>2, Two
<1>5. MatchEvents(c) = ((b \o m) \o l) \o e
  BY DEF MatchEvents
<1> HIDE DEF b, m, l, e
<1> DEFINE bm == b \o m
           bml == bm \o l
           all == bml \o e
<1>6. bm = b \o m /\ bml = bm \o l /\ all = bml \o e /\ MatchEvents(c) = all
  BY <1>5
<1> HIDE DEF bm, bml, all
<1>7. /\ bm \in Seq(EventRow) /\ Len(bm) = 3
      /\ (\A i \in 1..2 : bm[i] = b[i]) /\ bm[3] = m[1]
  <2>1. b \in Seq(EventRow) /\ m \in Seq(EventRow)
    BY <1>3, <1>4
  <2>2. /\ b \o m \in Seq(EventRow) /\ Len(b \o m) = Len(b) + Len(m)
        /\ \A i \in 1..Len(b) : (b \o m)[i] = b[i]
        /\ \A i \in 1..Len(m) : (b \o m)[Len(b) + i] = m[i]
    BY <2>1, ConcatParts
  <2>3. /\ bm \in Seq(EventRow) /\ Len(bm) = Len(b) + Len(m)
        /\ \A i \in 1..Len(b) : bm[i] = b[i]
        /\ \A i \in 1..Len(m) : bm[Len(b) + i] = m[i]
    BY <1>6, <2>2
  <2> QED
    BY <1>3, <1>4, <2>3
<1>8. /\ bml \in Seq(EventRow) /\ Len(bml) = 5
      /\ (\A i \in 1..3 : bml[i] = bm[i]) /\ bml[4] = l[1]
  <2>1. bm \in Seq(EventRow) /\ l \in Seq(EventRow)
    BY <1>3, <1>7
  <2>2. /\ bm \o l \in Seq(EventRow) /\ Len(bm \o l) = Len(bm) + Len(l)
        /\ \A i \in 1..Len(bm) : (bm \o l)[i] = bm[i]
        /\ \A i \in 1..Len(l) : (bm \o l)[Len(bm) + i] = l[i]
    BY <2>1, ConcatParts
  <2>3. /\ bml \in Seq(EventRow) /\ Len(bml) = Len(bm) + Len(l)
        /\ \A i \in 1..Len(bm) : bml[i] = bm[i]
        /\ \A i \in 1..Len(l) : bml[Len(bm) + i] = l[i]
    BY <1>6, <2>2
  <2> QED
    BY <1>3, <1>7, <2>3
<1>9. /\ all \in Seq(EventRow) /\ Len(all) = 7
      /\ (\A i \in 1..5 : all[i] = bml[i])
  <2>1. bml \in Seq(EventRow) /\ e \in Seq(EventRow)
    BY <1>4, <1>8
  <2>2. /\ bml \o e \in Seq(EventRow) /\ Len(bml \o e) = Len(bml) + Len(e)
        /\ \A i \in 1..Len(bml) : (bml \o e)[i] = bml[i]
        /\ \A i \in 1..Len(e) : (bml \o e)[Len(bml) + i] = e[i]
    BY <2>1, ConcatParts
  <2>3. /\ all \in Seq(EventRow) /\ Len(all) = Len(bml) + Len(e)
        /\ \A i \in 1..Len(bml) : all[i] = bml[i]
        /\ \A i \in 1..Len(e) : all[Len(bml) + i] = e[i]
    BY <1>6, <2>2
  <2> QED
    BY <1>4, <1>8, <2>3
<1> HIDE DEF matched
<1>10. all[1] = b[1] /\ all[3] = matched /\ all[4] = l[1]
  BY <1>4, <1>7, <1>8, <1>9
<1> QED
  BY <1>3, <1>6, <1>9, <1>10 DEF matched

\* Every kind of change has a row of events, all of them ones the tables know.
LEMMA EventsAreRows ==
  ASSUME NEW c \in Changes
  PROVE  Events(c) \in Seq(EventRow) /\ Len(Events(c)) \in Nat
<1>1. OwnerOf[c] \in Viewers /\ OtherOf[c] \in Viewers /\ KindOf[c] \in Announced \cup Silent
  BY RealtimeAssumption DEF RealtimeAssumption
<1>2. /\ \A s \in {"trade:confirmed", "dashboard:updated", "match:updated"} :
            [event |-> s, to |-> Parties(c)] \in EventRow
      /\ \A s \in {"energy:updated", "dashboard:updated", "notification:new"} :
            [event |-> s, to |-> {OwnerOf[c]}] \in EventRow
  BY <1>1 DEF EventRow, Parties
<1>3. TradeEvents(c) \in Seq(EventRow)
  BY <1>2 DEF TradeEvents
<1>4. /\ << [event |-> "energy:updated", to |-> {OwnerOf[c]}],
            [event |-> "dashboard:updated", to |-> {OwnerOf[c]}] >> \in Seq(EventRow)
      /\ << [event |-> "dashboard:updated", to |-> {OwnerOf[c]}] >> \in Seq(EventRow)
      /\ << [event |-> "notification:new", to |-> {OwnerOf[c]}] >> \in Seq(EventRow)
  BY <1>2
<1>5. <<>> \in Seq(EventRow)
  BY EmptySeq
<1>6. Events(c) \in Seq(EventRow)
  BY <1>1, <1>3, <1>4, <1>5, PartsAreRows, MatchRows DEF Events, Announced, Silent
<1> QED
  BY <1>6, LenProperties

LEMMA Keys ==
  /\ EVENT_QUERY_KEYS("listing:updated") = {"listings", "listing", "matches"}
  /\ EVENT_QUERY_KEYS("bid:updated") = {"bids", "bid"}
  /\ EVENT_QUERY_KEYS("bid:matched") = {"bids", "bid", "matches", "listings"}
  /\ EVENT_QUERY_KEYS("trade:confirmed") = {"matches"}
  /\ EVENT_QUERY_KEYS("notification:new") = {"notifications"}
  /\ EVENT_QUERY_KEYS("energy:updated") = {"iot"}
  /\ EVENT_QUERY_KEYS("dashboard:updated") =
       {"listings", "bids", "matches", "notifications", "wallets", "iot"}
BY DEF EVENT_QUERY_KEYS

\* No row is missing from the tables: whatever a change alters, and for whom, one of its
\* events is sent to him and makes his page ask for it again.
LEMMA EventForQuery ==
  ASSUME NEW c \in Changes, KindOf[c] \in Announced, NEW P, P.query \in Queries,
         P.user \in Viewers, Alters(c, P.query, P.user)
  PROVE  \E n \in 1..Len(Events(c)) : Reaches(c, n, P)
<1>1. OwnerOf[c] \in Viewers /\ OtherOf[c] \in Viewers
  BY RealtimeAssumption DEF RealtimeAssumption
<1>2. CASE KindOf[c] = "match"
  <2>1. /\ Events(c)[1] = [event |-> "bid:updated", to |-> {OwnerOf[c]}]
        /\ Events(c)[3] = [event |-> "bid:matched", to |-> Parties(c)]
        /\ Events(c)[4] = [event |-> "listing:updated", to |-> Viewers]
        /\ Len(Events(c)) = 7
    <3>1. Events(c) = MatchEvents(c)
      BY <1>2 DEF Events
    <3> QED
      BY <3>1, MatchRows
  <2>2. CASE P.query \in {"bids", "bid"}
    <3>1. P.user = OwnerOf[c]
      BY <1>2, <2>2 DEF Alters, listBids
    <3>2. Reaches(c, 1, P)
      BY <2>1, <2>2, <3>1, Keys DEF Reaches
    <3> QED
      BY <2>1, <3>2
  <2>3. CASE P.query = "matches"
    <3>1. P.user \in Parties(c)
      BY <1>2, <2>3 DEF Alters, listMatches
    <3>2. Reaches(c, 3, P)
      BY <2>1, <2>3, <3>1, Keys DEF Reaches
    <3> QED
      BY <2>1, <3>2
  <2>4. CASE P.query \in {"listings", "listing"}
    <3>1. Reaches(c, 4, P)
      BY <2>1, <2>4, Keys DEF Reaches
    <3> QED
      BY <2>1, <3>1
  <2> QED
    BY <1>2, <2>2, <2>3, <2>4 DEF Alters
<1>3. CASE KindOf[c] = "listing"
  <2>1. /\ Events(c)[1] = [event |-> "listing:updated", to |-> Viewers]
        /\ Len(Events(c)) = 2
    <3>1. Events(c) = ListingEvents(c, OwnerOf[c])
      BY <1>3 DEF Events
    <3> QED
      BY <1>1, <3>1, PartsAreRows
  <2>2. P.query \in {"listings", "listing", "matches"}
    BY <1>3 DEF Alters, listListings, listBids, listMatches
  <2>3. Reaches(c, 1, P)
    BY <2>1, <2>2, Keys DEF Reaches
  <2> QED
    BY <2>1, <2>3
<1>4. CASE KindOf[c] = "bid"
  <2>1. /\ Events(c)[1] = [event |-> "bid:updated", to |-> {OwnerOf[c]}]
        /\ Len(Events(c)) = 2
    <3>1. Events(c) = BidEvents(c)
      BY <1>4 DEF Events
    <3> QED
      BY <3>1, PartsAreRows
  <2>2. P.query \in {"bids", "bid"} /\ P.user = OwnerOf[c]
    BY <1>4 DEF Alters, listListings, listBids, listMatches
  <2>3. Reaches(c, 1, P)
    BY <2>1, <2>2, Keys DEF Reaches
  <2> QED
    BY <2>1, <2>3
<1>5. CASE KindOf[c] = "trade"
  <2>1. Events(c) = TradeEvents(c)
    BY <1>5 DEF Events
  <2>2. P.query = "matches" /\ P.user \in Parties(c)
    BY <1>5 DEF Alters, listListings, listBids, listMatches
  <2>3. /\ Events(c)[1] = [event |-> "trade:confirmed", to |-> Parties(c)]
        /\ Len(Events(c)) = 4
    BY <2>1 DEF TradeEvents
  <2>4. Reaches(c, 1, P)
    BY <2>2, <2>3, Keys DEF Reaches
  <2> QED
    BY <2>3, <2>4
<1>6. CASE KindOf[c] = "energy"
  <2>1. /\ Events(c)[1] = [event |-> "energy:updated", to |-> {OwnerOf[c]}]
        /\ Len(Events(c)) = 2
    BY <1>6 DEF Events
  <2>2. P.query = "iot" /\ P.user = OwnerOf[c]
    BY <1>6 DEF Alters, listListings, listBids, listMatches
  <2>3. Reaches(c, 1, P)
    BY <2>1, <2>2, Keys DEF Reaches
  <2> QED
    BY <2>1, <2>3
<1>7. CASE KindOf[c] = "wallet"
  <2>1. /\ Events(c)[1] = [event |-> "dashboard:updated", to |-> {OwnerOf[c]}]
        /\ Len(Events(c)) = 1
    BY <1>7 DEF Events
  <2>2. P.query = "wallets" /\ P.user = OwnerOf[c]
    BY <1>7 DEF Alters, listListings, listBids, listMatches
  <2>3. Reaches(c, 1, P)
    BY <2>1, <2>2, Keys DEF Reaches
  <2> QED
    BY <2>1, <2>3
<1>8. CASE KindOf[c] = "note"
  <2>1. /\ Events(c)[1] = [event |-> "notification:new", to |-> {OwnerOf[c]}]
        /\ Len(Events(c)) = 1
    BY <1>8 DEF Events
  <2>2. P.query = "notifications" /\ P.user = OwnerOf[c]
    BY <1>8 DEF Alters, listListings, listBids, listMatches
  <2>3. Reaches(c, 1, P)
    BY <2>1, <2>2, Keys DEF Reaches
  <2> QED
    BY <2>1, <2>3
<1> QED
  BY <1>2, <1>3, <1>4, <1>5, <1>6, <1>7, <1>8 DEF Announced
-----------------------------------------------------------------------------
(* Sequences of event ids *)

LEMMA HeadAndTail ==
  ASSUME NEW s \in Seq(Id), s # <<>>
  PROVE  /\ Head(s) \in Id /\ Head(s) \in Range(s)
         /\ Tail(s) \in Seq(Id) /\ Range(Tail(s)) \subseteq Range(s)
         /\ Range(s) \subseteq {Head(s)} \cup Range(Tail(s))
<1>1. /\ Head(s) \in Id /\ Tail(s) \in Seq(Id) /\ Len(Tail(s)) = Len(s) - 1
      /\ \A i \in 1..Len(Tail(s)) : Tail(s)[i] = s[i + 1]
  BY HeadTailProperties
<1>2. Len(s) \in Nat /\ Len(s) # 0 /\ DOMAIN s = 1..Len(s) /\ DOMAIN Tail(s) = 1..Len(Tail(s))
  BY <1>1, LenProperties, EmptySeq
<1>3. Head(s) = s[1]
  OBVIOUS
<1> DEFINE t == Tail(s)
<1> HIDE DEF t
<1>4. /\ DOMAIN t = 1..(Len(s) - 1) /\ \A i \in 1..(Len(s) - 1) : t[i] = s[i + 1]
  BY <1>1, <1>2 DEF t
<1>5. Range(t) \subseteq Range(s)
  BY SMTT(30), <1>2, <1>4 DEF Range
<1>6. ASSUME NEW i \in 1..Len(s), i # 1
      PROVE  s[i] \in Range(t)
  <2>1. i - 1 \in 1..(Len(s) - 1) /\ t[i - 1] = s[i]
    BY <1>2, <1>4, <1>6
  <2> QED
    BY <1>4, <2>1 DEF Range
<1>7. Range(s) \subseteq {Head(s)} \cup Range(t)
  BY <1>2, <1>3, <1>6 DEF Range
<1>8. Head(s) \in Range(s)
  BY <1>2, <1>3 DEF Range
<1> QED
  BY <1>1, <1>5, <1>7, <1>8 DEF t

LEMMA Appended ==
  ASSUME NEW s \in Seq(Id), NEW x \in Id
  PROVE  /\ Append(s, x) \in Seq(Id) /\ Len(Append(s, x)) = Len(s) + 1 /\ Len(s) \in Nat
         /\ Range(Append(s, x)) = Range(s) \cup {x}
<1> DEFINE t == Append(s, x)
<1>1. /\ t \in Seq(Id) /\ Len(t) = Len(s) + 1
      /\ \A i \in 1..Len(s) : t[i] = s[i]
      /\ t[Len(s) + 1] = x
  BY AppendProperties
<1>2. Len(s) \in Nat /\ DOMAIN s = 1..Len(s)
  BY LenProperties
<1>3. DOMAIN t = 1..Len(t)
  BY <1>1, LenProperties
<1> HIDE DEF t
<1>4. Range(t) = Range(s) \cup {x}
  <2>1. DOMAIN t = 1..Len(s) \cup {Len(s) + 1}
    BY <1>1, <1>2, <1>3
  <2> QED
    BY <1>1, <1>2, <2>1 DEF Range
<1> QED
  BY <1>1, <1>2, <1>4 DEF t

\* A tab remembers the new id and no others than before.
LEMMA Remembered ==
  ASSUME NEW s \in Seq(Id), Len(s) <= MaxSeen, NEW x \in Id
  PROVE  /\ Remember(s, x) \in Seq(Id) /\ Len(Remember(s, x)) <= MaxSeen
         /\ Range(Remember(s, x)) \subseteq Range(s) \cup {x}
<1>1. Len(s) \in Nat /\ MaxSeen \in Nat \ {0}
  BY LenProperties, RealtimeAssumption DEF RealtimeAssumption
<1>2. CASE Len(s) = MaxSeen
  <2>1. s # <<>>
    BY <1>1, <1>2
  <2>2. /\ Tail(s) \in Seq(Id) /\ Len(Tail(s)) = Len(s) - 1
        /\ Range(Tail(s)) \subseteq Range(s)
    BY <2>1, HeadAndTail, HeadTailProperties
  <2>3. Remember(s, x) = Tail(s) \o <<x>>
    BY <1>2 DEF Remember
  <2>4. Tail(s) \o <<x>> = Append(Tail(s), x)
    BY <2>2, AppendIsConcat
  <2>5. /\ Append(Tail(s), x) \in Seq(Id)
        /\ Len(Append(Tail(s), x)) = Len(Tail(s)) + 1
        /\ Range(Append(Tail(s), x)) = Range(Tail(s)) \cup {x}
    BY <2>2, Appended
  <2> DEFINE t == Tail(s)
             r == Append(t, x)
  <2> HIDE DEF t, r
  <2>6. /\ r \in Seq(Id) /\ Len(r) = MaxSeen /\ Range(r) \subseteq Range(s) \cup {x}
    BY <1>1, <1>2, <2>2, <2>5 DEF t, r
  <2>7. Remember(s, x) = r
    BY <2>3, <2>4 DEF t, r
  <2> QED
    BY <1>1, <2>6, <2>7
<1>3. CASE Len(s) # MaxSeen
  <2>1. Remember(s, x) = Append(s, x)
    BY <1>3 DEF Remember
  <2>2. /\ Append(s, x) \in Seq(Id) /\ Len(Append(s, x)) = Len(s) + 1
        /\ Range(Append(s, x)) = Range(s) \cup {x}
    BY Appended
  <2> DEFINE r == Append(s, x)
  <2> HIDE DEF r
  <2>3. Remember(s, x) = r /\ r \in Seq(Id) /\ Len(r) = Len(s) + 1 /\ Range(r) = Range(s) \cup {x}
    BY <2>1, <2>2 DEF r
  <2> QED
    BY <1>1, <1>3, <2>3
<1> QED
  BY <1>2, <1>3

-----------------------------------------------------------------------------
(* What happens to one page *)

\* A page of the same user and query, for which whatever was accounted for is.
LEMMA SamePage ==
  ASSUME NEW P, NEW V, NEW com, NEW d, NEW e, Accounted(P, com, d),
         V.user = P.user, V.query = P.query,
         \A c \in com : Alters(c, P.query, P.user) /\ Safe(P, c, d) => Safe(V, c, e)
  PROVE  Accounted(V, com, e)
BY DEF Accounted

\* What holds a change for one page holds it for the other.
Holds(P, V) == \A c : Held(P, c) => Held(V, c)

\* Only the wire, what is remembered or the gap changes.
LEMMA SafeStays ==
  ASSUME NEW P, NEW V, NEW c \in Changes, NEW d, NEW e, Safe(P, c, d),
         V.user = P.user, V.query = P.query, Holds(P, V),
         \A n \in 1..Len(Events(c)) :
           Reaches(c, n, P) /\ Coming(c, n, P, d) => Held(V, c) \/ Coming(c, n, V, e)
  PROVE  Safe(V, c, e)
<1>1. CASE Held(P, c)
  BY <1>1 DEF Holds, Safe
<1>2. ASSUME NEW n \in 1..Len(Events(c)), Reaches(c, n, P), Coming(c, n, P, d)
      PROVE  Safe(V, c, e)
  <2>1. Reaches(c, n, V)
    BY <1>2 DEF Reaches
  <2>2. Held(V, c) \/ Coming(c, n, V, e)
    BY <1>2
  <2> QED
    BY <2>1, <2>2 DEF Safe
<1> QED
  BY <1>1, <1>2 DEF Safe

\* P as Deliver leaves it.
Heard(P, again) ==
  LET id == Head(P.wire)
      Q == [P EXCEPT !.wire = IF again THEN @ ELSE Tail(@)]
  IN  IF id \in Range(Q.seen) THEN Q
      ELSE Applied([Q EXCEPT !.seen = Remember(@, id)], id[1], Events(id[1])[id[2]].event)

LEMMA HeardOK ==
  ASSUME NEW P, NEW com, com \subseteq Changes, NEW d, PageOK(P, com, d), Accounted(P, com, d),
         P.wire # <<>>, NEW again \in BOOLEAN
  PROVE  PageOK(Heard(P, again), com, d) /\ Accounted(Heard(P, again), com, d)
<1> DEFINE id == Head(P.wire)
           w == IF again THEN P.wire ELSE Tail(P.wire)
           Q == [P EXCEPT !.wire = w]
           s == Remember(P.seen, id)
           R == [Q EXCEPT !.seen = s]
           event == Events(id[1])[id[2]].event
           V == Heard(P, again)
<1>1. P \in Page /\ P.wire \in Seq(Id) /\ P.seen \in Seq(Id) /\ Len(P.seen) <= MaxSeen
  BY DEF PageOK, Page, Id
<1>2. /\ id \in Id /\ id \in Range(P.wire) /\ w \in Seq(Id) /\ Range(w) \subseteq Range(P.wire)
      /\ \A x \in Range(P.wire) : x = id \/ x \in Range(w)
  BY <1>1, HeadAndTail
<1>3. s \in Seq(Id) /\ Len(s) <= MaxSeen /\ Range(s) \subseteq Range(P.seen) \cup {id}
  BY <1>1, <1>2, Remembered
<1>4. \A x \in Range(P.wire) \cup Range(P.seen) : Emitted(x, com, d)
  BY DEF PageOK
<1>5. V = IF id \in Range(P.seen) THEN Q ELSE Applied(R, id[1], event)
  BY <1>1 DEF Heard, Page
<1> HIDE DEF V, w, s, id, event
<1>6. /\ Q \in Page /\ Q.user = P.user /\ Q.query = P.query /\ Q.wire = w /\ Q.seen = P.seen
      /\ Q.fetch = P.fetch /\ Q.rows = P.rows /\ Q.shown = P.shown /\ Q.gap = P.gap
      /\ Q.loaded = P.loaded
  BY <1>1, <1>2 DEF Page, Id
<1>7. /\ R \in Page /\ R.user = P.user /\ R.query = P.query /\ R.wire = w /\ R.seen = s
      /\ R.fetch = P.fetch /\ R.rows = P.rows /\ R.shown = P.shown /\ R.gap = P.gap
      /\ R.loaded = P.loaded
  <2>1. Q.seen = P.seen
    BY <1>6
  <2> HIDE DEF Q
  <2> QED
    BY <1>3, <1>6 DEF Page, Id
<1>8. id[1] \in com /\ id[1] \in Changes
  BY <1>2, <1>4 DEF Emitted
<1> HIDE DEF Q, R
<1>9. CASE id \in Range(P.seen)
  <2>1. V = Q
    BY <1>5, <1>9
  <2>2. PageOK(Q, com, d)
    BY <1>1, <1>2, <1>4, <1>6 DEF PageOK
  <2>3. Holds(P, Q)
    BY <1>6 DEF Holds, Held
  <2>4. \A c \in com : Safe(P, c, d) => Safe(Q, c, d)
    <3> SUFFICES ASSUME NEW c \in com, Safe(P, c, d) PROVE Safe(Q, c, d)
      OBVIOUS
    <3>1. \A n : Coming(c, n, P, d) => Coming(c, n, Q, d)
      BY <1>2, <1>6, <1>9 DEF Coming
    <3>2. c \in Changes
      OBVIOUS
    <3> QED
      BY <1>6, <2>3, <3>1, <3>2, SafeStays
  <2> QED
    BY <1>6, <2>1, <2>2, <2>4, SamePage DEF V
<1>10. CASE id \notin Range(P.seen) /\ P.query \notin EVENT_QUERY_KEYS(event)
  <2>1. V = R
    BY <1>5, <1>7, <1>10 DEF Applied
  <2>2. PageOK(R, com, d)
    BY <1>1, <1>2, <1>3, <1>4, <1>7 DEF PageOK
  <2>3. Holds(P, R)
    BY <1>7 DEF Holds, Held
  <2>4. \A c \in com : Safe(P, c, d) => Safe(R, c, d)
    <3> SUFFICES ASSUME NEW c \in com, Safe(P, c, d) PROVE Safe(R, c, d)
      OBVIOUS
    <3>1. ASSUME NEW n \in 1..Len(Events(c)), Reaches(c, n, P), Coming(c, n, P, d)
          PROVE  Coming(c, n, R, d)
      <4>1. <<c, n>> # id
        BY <1>10, <3>1 DEF Reaches, event
      <4> QED
        BY <1>2, <1>3, <1>7, <3>1, <4>1 DEF Coming
    <3>2. c \in Changes
      OBVIOUS
    <3> QED
      BY <1>7, <2>3, <3>1, <3>2, SafeStays
  <2> QED
    BY <1>7, <2>1, <2>2, <2>4, SamePage DEF V
<1>11. CASE id \notin Range(P.seen) /\ P.query \in EVENT_QUERY_KEYS(event) /\ P.fetch # "none" /\ ~P.loaded
  <2> DEFINE G == [R EXCEPT !.gap = R.gap \cup {id[1]}]
  <2>1. V = G
    BY <1>5, <1>7, <1>11 DEF Applied, Invalidated
  <2>2. /\ G \in Page /\ G.user = P.user /\ G.query = P.query /\ G.wire = w /\ G.seen = s
        /\ G.fetch = P.fetch /\ G.rows = P.rows /\ G.shown = P.shown /\ G.gap = P.gap \cup {id[1]}
    BY <1>7, <1>8 DEF Page
  <2> HIDE DEF G
  <2>3. PageOK(G, com, d)
    BY <1>1, <1>2, <1>3, <1>4, <2>2 DEF PageOK
  <2>4. Holds(P, G)
    BY <2>2 DEF Holds, Held
  <2>5. \A c \in com : Safe(P, c, d) => Safe(G, c, d)
    <3> SUFFICES ASSUME NEW c \in com, Safe(P, c, d) PROVE Safe(G, c, d)
      OBVIOUS
    <3>1. ASSUME NEW n \in 1..Len(Events(c)), Reaches(c, n, P), Coming(c, n, P, d)
          PROVE  Held(G, c) \/ Coming(c, n, G, d)
      <4>1. CASE <<c, n>> = id
        BY <2>2, <4>1 DEF Held
      <4>2. CASE <<c, n>> # id
        BY <1>2, <1>3, <2>2, <3>1, <4>2 DEF Coming
      <4> QED
        BY <4>1, <4>2
    <3>2. c \in Changes
      OBVIOUS
    <3> QED
      BY <2>2, <2>4, <3>1, <3>2, SafeStays
  <2> QED
    BY <2>1, <2>2, <2>3, <2>5, SamePage DEF V
<1>12. CASE id \notin Range(P.seen) /\ P.query \in EVENT_QUERY_KEYS(event) /\ ~(P.fetch # "none" /\ ~P.loaded)
  <2> DEFINE A == [R EXCEPT !.fetch = "asked", !.rows = {}]
  <2>1. V = A
    BY <1>5, <1>7, <1>12 DEF Applied, Invalidated
  <2>2. /\ A \in Page /\ A.user = P.user /\ A.query = P.query /\ A.wire = w /\ A.seen = s
        /\ A.fetch = "asked"
    BY <1>7 DEF Page
  <2> HIDE DEF A
  <2>3. PageOK(A, com, d)
    BY <1>1, <1>2, <1>3, <1>4, <2>2 DEF PageOK
  <2>4. \A c : Safe(A, c, d)
    BY <2>2 DEF Safe, Held
  <2> QED
    BY <2>1, <2>3, <2>4 DEF V, Accounted
<1> QED
  BY <1>9, <1>10, <1>11, <1>12

\* A page that has only its socket changed, or its gap widened.
LEMMA WidenedOK ==
  ASSUME NEW P, NEW V \in Page, NEW com, com \subseteq Changes, NEW d,
         PageOK(P, com, d), Accounted(P, com, d),
         V.user = P.user, V.query = P.query, V.wire = P.wire, V.seen = P.seen,
         V.fetch = P.fetch, V.rows = P.rows, V.shown = P.shown, P.gap \subseteq V.gap
  PROVE  PageOK(V, com, d) /\ Accounted(V, com, d)
<1>1. PageOK(V, com, d)
  BY DEF PageOK
<1>2. Holds(P, V)
  BY DEF Holds, Held
<1>3. \A c, n : Coming(c, n, P, d) => Coming(c, n, V, d)
  BY DEF Coming
<1>4. \A c \in com : Safe(P, c, d) => Safe(V, c, d)
  <2> SUFFICES ASSUME NEW c \in com, Safe(P, c, d) PROVE Safe(V, c, d)
    OBVIOUS
  <2>1. c \in Changes
    OBVIOUS
  <2> QED
    BY <1>2, <1>3, <2>1, SafeStays
<1> QED
  BY <1>1, <1>4, SamePage

\* A page for which events of a change will not be emitted any more, which its gap takes in.
LEMMA CutOK ==
  ASSUME NEW P, NEW V \in Page, NEW com, com \subseteq Changes, NEW d, NEW e,
         d \in [Changes -> Nat], e \in [Changes -> Nat], \A c \in Changes : e[c] <= d[c],
         PageOK(P, com, d), Accounted(P, com, d),
         V.user = P.user, V.query = P.query, V.wire = P.wire, V.seen = P.seen,
         V.fetch = P.fetch, V.rows = P.rows, V.shown = P.shown, P.gap \subseteq V.gap,
         \A c \in Changes : e[c] # d[c] => c \in V.gap
  PROVE  PageOK(V, com, e) /\ Accounted(V, com, e)
<1>1. PageOK(V, com, e)
  <2>1. \A x \in Range(P.wire) \cup Range(P.seen) : Emitted(x, com, e)
    <3> SUFFICES ASSUME NEW x \in Range(P.wire) \cup Range(P.seen) PROVE Emitted(x, com, e)
      OBVIOUS
    <3>1. Emitted(x, com, d)
      BY DEF PageOK
    <3>2. x \in Id
      <4>1. P.seen \in Seq(Id) /\ P.wire \in Seq(Id)
        BY DEF PageOK, Page, Id
      <4> QED
        BY <4>1, LenProperties, ElementOfSeq DEF Range
    <3>3. x[1] \in Changes /\ x[2] \in Nat /\ Len(Events(x[1])) \in Nat
      BY <3>2, EventsAreRows DEF Id
    <3>4. e[x[1]] \in Nat /\ d[x[1]] \in Nat /\ e[x[1]] <= d[x[1]]
      BY <3>3
    <3> QED
      BY <3>1, <3>3, <3>4 DEF Emitted
  <2> QED
    BY <2>1 DEF PageOK
<1>2. Holds(P, V)
  BY DEF Holds, Held
<1>3. \A c \in com : Safe(P, c, d) => Safe(V, c, e)
  <2> SUFFICES ASSUME NEW c \in com, Safe(P, c, d) PROVE Safe(V, c, e)
    OBVIOUS
  <2>1. c \in Changes
    OBVIOUS
  <2>2. ASSUME NEW n \in 1..Len(Events(c)), Coming(c, n, P, d)
        PROVE  Held(V, c) \/ Coming(c, n, V, e)
    <3>1. CASE e[c] # d[c]
      BY <2>1, <3>1 DEF Held
    <3>2. CASE e[c] = d[c]
      BY <2>2, <3>2 DEF Coming
    <3> QED
      BY <3>1, <3>2
  <2> QED
    BY <1>2, <2>1, <2>2, SafeStays
<1> QED
  BY <1>1, <1>3, SamePage

\* A page whose events on the way are lost, for good or for those that were never emitted too.
LEMMA LostOK ==
  ASSUME NEW P, NEW V \in Page, NEW com, com \subseteq Changes, NEW d, NEW e,
         d \in [Changes -> Nat], e \in [Changes -> Nat], \A c \in Changes : e[c] <= d[c],
         PageOK(P, com, d), Accounted(P, com, d),
         V.user = P.user, V.query = P.query, V.wire = <<>>, V.seen = P.seen,
         V.fetch = P.fetch, V.rows = P.rows, V.shown = P.shown, P.gap \subseteq V.gap,
         \A x \in Range(P.wire) : x[1] \in V.gap,
         \A c \in Changes : e[c] # d[c] => e[c] = 0 /\ c \in V.gap
  PROVE  PageOK(V, com, e) /\ Accounted(V, com, e)
<1>1. PageOK(V, com, e)
  <2>1. Range(V.wire) = {}
    BY DEF Range
  <2>2. \A x \in Range(P.seen) : Emitted(x, com, e)
    <3> SUFFICES ASSUME NEW x \in Range(P.seen) PROVE Emitted(x, com, e)
      OBVIOUS
    <3>1. Emitted(x, com, d)
      BY DEF PageOK
    <3>2. x \in Id
      <4>1. P.seen \in Seq(Id)
        BY DEF PageOK, Page, Id
      <4> QED
        BY <4>1, LenProperties, ElementOfSeq DEF Range
    <3>3. x[1] \in Changes /\ x[2] \in Nat /\ Len(Events(x[1])) \in Nat
      BY <3>2, EventsAreRows DEF Id
    <3>4. e[x[1]] \in Nat /\ d[x[1]] \in Nat /\ e[x[1]] <= d[x[1]]
      BY <3>3
    <3> QED
      BY <3>1, <3>3, <3>4 DEF Emitted
  <2> QED
    BY <2>1, <2>2 DEF PageOK
<1>2. Holds(P, V)
  BY DEF Holds, Held
<1>3. \A c \in com : Safe(P, c, d) => Safe(V, c, e)
  <2> SUFFICES ASSUME NEW c \in com, Safe(P, c, d) PROVE Safe(V, c, e)
    OBVIOUS
  <2>1. c \in Changes
    OBVIOUS
  <2>2. ASSUME NEW n \in 1..Len(Events(c)), Coming(c, n, P, d)
        PROVE  Held(V, c) \/ Coming(c, n, V, e)
    <3>1. CASE <<c, n>> \in Range(P.wire)
      BY <3>1 DEF Held
    <3>2. CASE n > Len(Events(c)) - d[c]
      BY <2>1, <3>2 DEF Held, Coming
    <3> QED
      BY <2>2, <3>1, <3>2 DEF Coming
  <2> QED
    BY <1>2, <2>1, <2>2, SafeStays
<1> QED
  BY <1>1, <1>3, SamePage
\* The next event of c goes out to those it is for: to a page that is connected, or past it.
LEMMA EmittedOK ==
  ASSUME RInv, NEW c \in Changes, Emit(c), NEW p \in Pages
  PROVE  PageOK(page'[p], committed, due') /\ Accounted(page'[p], committed, due')
<1> DEFINE P == page[p]
           n == Len(Events(c)) - due[c] + 1
           id == <<c, n>>
           to == Events(c)[n].to
           wire == Append(P.wire, id)
           W == [P EXCEPT !.wire = wire]
           G == [P EXCEPT !.gap = P.gap \cup {c}]
           V == page'[p]
<1>1. /\ P \in Page /\ PageOK(P, committed, due) /\ Accounted(P, committed, due)
      /\ committed \subseteq Changes /\ due \in [Changes -> Nat] /\ c \in committed
      /\ Len(Events(c)) \in Nat /\ due[c] <= Len(Events(c)) /\ due[c] > 0
  BY EventsAreRows DEF RInv, TablesOK, Emit
<1>2. due' = [due EXCEPT ![c] = due[c] - 1]
  BY DEF Emit
<1>3. n \in 1..Len(Events(c)) /\ id \in Id /\ due'[c] = due[c] - 1 /\ n = Len(Events(c)) - due'[c]
  BY <1>1, <1>2 DEF Id
<1>4. V = IF P.user \notin to THEN P ELSE IF P.sock = "connected" THEN W ELSE G
  BY DEF Emit
<1>5. /\ P.wire \in Seq(Id) /\ P.seen \in Seq(Id)
      /\ \A x \in Range(P.wire) \cup Range(P.seen) : Emitted(x, committed, due)
  BY <1>1 DEF PageOK, Page, Id
<1>6. wire \in Seq(Id) /\ Range(wire) = Range(P.wire) \cup {id}
  BY <1>3, <1>5, Appended
<1>7. \A x \in Range(P.wire) \cup Range(P.seen) : Emitted(x, committed, due')
  <2> SUFFICES ASSUME NEW x \in Range(P.wire) \cup Range(P.seen) PROVE Emitted(x, committed, due')
    OBVIOUS
  <2>1. x \in Id
    BY <1>5, LenProperties, ElementOfSeq DEF Range
  <2>2. x[1] \in Changes /\ x[2] \in Nat /\ Emitted(x, committed, due)
    BY <1>5, <2>1 DEF Id
  <2>3. x[1] # c => due'[x[1]] = due[x[1]]
    BY <1>1, <1>2, <2>2
  <2>4. x[1] = c => x[2] <= Len(Events(c)) - due'[c]
    BY <1>1, <1>3, <2>2 DEF Emitted
  <2> QED
    BY <2>2, <2>3, <2>4 DEF Emitted
<1>8. Emitted(id, committed, due')
  BY <1>1, <1>3 DEF Emitted
<1>9. id \notin Range(P.seen)
  <2>1. ~Emitted(id, committed, due)
    BY <1>1, <1>3 DEF Emitted
  <2> QED
    BY <1>5, <2>1
<1>10. ASSUME NEW b \in committed, NEW k \in 1..Len(Events(b)), <<b, k>> # id, Coming(b, k, P, due)
       PROVE  Coming(b, k, P, due')
  <2>1. CASE b = c
    <3>1. k # n /\ k \in Nat
      BY <1>10, <2>1
    <3> HIDE DEF n
    <3> QED
      BY <1>1, <1>3, <1>10, <2>1, <3>1 DEF Coming
  <2>2. CASE b # c
    <3>1. due'[b] = due[b]
      BY <1>1, <1>2, <2>2
    <3> QED
      BY <1>10, <3>1 DEF Coming
  <2> QED
    BY <2>1, <2>2
<1> HIDE DEF n, wire, V
<1>11. CASE P.user \notin to
  <2>1. V = P
    BY <1>4, <1>11
  <2>2. PageOK(P, committed, due')
    BY <1>1, <1>7 DEF PageOK
  <2>3. Holds(P, P)
    BY DEF Holds
  <2>4. \A b \in committed : Safe(P, b, due) => Safe(P, b, due')
    <3> SUFFICES ASSUME NEW b \in committed, Safe(P, b, due) PROVE Safe(P, b, due')
      OBVIOUS
    <3>1. ASSUME NEW k \in 1..Len(Events(b)), Reaches(b, k, P), Coming(b, k, P, due)
          PROVE  Coming(b, k, P, due')
      <4>1. <<b, k>> # id
        BY <1>11, <3>1 DEF Reaches
      <4> QED
        BY <1>10, <3>1, <4>1
    <3>2. b \in Changes
      BY <1>1
    <3> HIDE DEF P
    <3> QED
      BY <2>3, <3>1, <3>2, SafeStays
  <2>5. Accounted(P, committed, due')
    BY <1>1, <2>4, SamePage
  <2> QED
    BY <2>1, <2>2, <2>5 DEF V
<1>12. CASE P.user \in to /\ P.sock = "connected"
  <2>1. V = W
    BY <1>4, <1>12
  <2>2. /\ W \in Page /\ W.user = P.user /\ W.query = P.query /\ W.wire = wire /\ W.seen = P.seen
        /\ W.fetch = P.fetch /\ W.rows = P.rows /\ W.shown = P.shown /\ W.gap = P.gap
    BY <1>1, <1>6 DEF Page, Id
  <2> HIDE DEF W
  <2>3. PageOK(W, committed, due')
    BY <1>1, <1>6, <1>7, <1>8, <2>2 DEF PageOK
  <2>4. Holds(P, W)
    BY <2>2 DEF Holds, Held
  <2>5. \A b \in committed : Safe(P, b, due) => Safe(W, b, due')
    <3> SUFFICES ASSUME NEW b \in committed, Safe(P, b, due) PROVE Safe(W, b, due')
      OBVIOUS
    <3>1. ASSUME NEW k \in 1..Len(Events(b)), Reaches(b, k, P), Coming(b, k, P, due)
          PROVE  Coming(b, k, W, due')
      <4>1. CASE <<b, k>> = id
        BY <1>6, <1>9, <2>2, <4>1 DEF Coming
      <4>2. CASE <<b, k>> # id
        <5>1. Coming(b, k, P, due')
          BY <1>10, <3>1, <4>2
        <5> QED
          BY <1>6, <2>2, <5>1 DEF Coming
      <4> QED
        BY <4>1, <4>2
    <3>2. b \in Changes
      BY <1>1
    <3> HIDE DEF P
    <3> QED
      BY <2>2, <2>4, <3>1, <3>2, SafeStays
  <2>6. Accounted(W, committed, due')
    <3> HIDE DEF P
    <3> QED
      BY <1>1, <2>2, <2>5, SamePage
  <2> QED
    BY <2>1, <2>3, <2>6 DEF V
<1>13. CASE P.user \in to /\ P.sock # "connected"
  <2>1. V = G
    BY <1>4, <1>13
  <2>2. /\ G \in Page /\ G.user = P.user /\ G.query = P.query /\ G.wire = P.wire /\ G.seen = P.seen
        /\ G.fetch = P.fetch /\ G.rows = P.rows /\ G.shown = P.shown /\ G.gap = P.gap \cup {c}
    BY <1>1 DEF Page
  <2> HIDE DEF G
  <2>3. PageOK(G, committed, due')
    BY <1>1, <1>7, <2>2 DEF PageOK
  <2>4. Holds(P, G)
    BY <2>2 DEF Holds, Held
  <2>5. \A b \in committed : Safe(P, b, due) => Safe(G, b, due')
    <3> SUFFICES ASSUME NEW b \in committed, Safe(P, b, due) PROVE Safe(G, b, due')
      OBVIOUS
    <3>1. ASSUME NEW k \in 1..Len(Events(b)), Reaches(b, k, P), Coming(b, k, P, due)
          PROVE  Held(G, b) \/ Coming(b, k, G, due')
      <4>1. CASE <<b, k>> = id
        BY <2>2, <4>1 DEF Held
      <4>2. CASE <<b, k>> # id
        <5>1. Coming(b, k, P, due')
          BY <1>10, <3>1, <4>2
        <5> QED
          BY <2>2, <5>1 DEF Coming
      <4> QED
        BY <4>1, <4>2
    <3>2. b \in Changes
      BY <1>1
    <3> HIDE DEF P
    <3> QED
      BY <2>2, <2>4, <3>1, <3>2, SafeStays
  <2>6. Accounted(G, committed, due')
    <3> HIDE DEF P
    <3> QED
      BY <1>1, <2>2, <2>5, SamePage
  <2> QED
    BY <2>1, <2>3, <2>6 DEF V
<1> QED
  BY <1>11, <1>12, <1>13 DEF V

\* A service has written c: the events that will tell of it are all to come.
LEMMA CommittedOK ==
  ASSUME RInv, NEW c \in Changes, Commit(c), NEW p \in Pages
  PROVE  PageOK(page[p], committed', due') /\ Accounted(page[p], committed', due')
<1> DEFINE P == page[p]
<1>1. /\ P \in Page /\ PageOK(P, committed, due) /\ Accounted(P, committed, due)
      /\ committed \subseteq Changes /\ due \in [Changes -> Nat] /\ Len(Events(c)) \in Nat
  BY EventsAreRows DEF RInv, TablesOK
<1>2. /\ c \notin committed /\ KindOf[c] \in Announced /\ committed' = committed \cup {c}
      /\ due' = [due EXCEPT ![c] = Len(Events(c))]
  BY DEF Commit
<1>3. due'[c] = Len(Events(c)) /\ \A b \in committed : due'[b] = due[b]
  BY <1>1, <1>2
<1>4. PageOK(P, committed', due')
  <2>1. \A x : Emitted(x, committed, due) => Emitted(x, committed', due')
    BY <1>2, <1>3 DEF Emitted
  <2> QED
    BY <1>1, <2>1 DEF PageOK
<1>5. ASSUME NEW b \in committed, Safe(P, b, due)
      PROVE  Safe(P, b, due')
  BY <1>3, <1>5 DEF Safe, Coming
<1>6. ASSUME P.user # NoOne, Alters(c, P.query, P.user)
      PROVE  Safe(P, c, due')
  <2>1. P.query \in Queries /\ P.user \in Viewers
    BY <1>1, <1>6, RealtimeAssumption DEF Page, RealtimeAssumption
  <2>2. PICK n \in 1..Len(Events(c)) : Reaches(c, n, P)
    BY <1>2, <1>6, <2>1, EventForQuery
  <2>3. Coming(c, n, P, due')
    BY <1>1, <1>3 DEF Coming
  <2> QED
    BY <2>2, <2>3 DEF Safe
<1>7. Accounted(P, committed', due')
  BY <1>1, <1>2, <1>5, <1>6 DEF Accounted
<1> QED
  BY <1>4, <1>7
-----------------------------------------------------------------------------
(* The steps *)

\* One page changes, for the same tables.
LEMMA OnePage ==
  ASSUME RInv, NEW p \in Pages, NEW V, PageOK(V, committed, due), Accounted(V, committed, due),
         page' = [page EXCEPT ![p] = V], UNCHANGED <<committed, due>>
  PROVE  RInv'
<1>1. TablesOK'
  BY DEF RInv, TablesOK
<1>2. V \in Page
  BY DEF PageOK
<1>3. page' \in [Pages -> Page]
  BY <1>2 DEF RInv
<1>4. \A o \in Pages : PageOK(page'[o], committed, due) /\ Accounted(page'[o], committed, due)
  BY DEF RInv
<1> QED
  BY <1>1, <1>3, <1>4 DEF RInv

LEMMA OfPage ==
  ASSUME RInv, NEW p \in Pages
  PROVE  /\ page[p] \in Page
         /\ PageOK(page[p], committed, due) /\ Accounted(page[p], committed, due)
         /\ committed \subseteq Changes /\ due \in [Changes -> Nat]
BY DEF RInv, TablesOK

LEMMA DeliverPreserves ==
  ASSUME RInv, NEW p \in Pages, NEW again \in BOOLEAN, Deliver(p, again)
  PROVE  RInv'
<1>1. /\ page[p].wire # <<>> /\ UNCHANGED <<committed, due>>
      /\ page' = [page EXCEPT ![p] = Heard(page[p], again)]
  BY DEF Deliver, Heard
<1> DEFINE V == Heard(page[p], again)
<1>2. PageOK(V, committed, due) /\ Accounted(V, committed, due)
  BY <1>1, OfPage, HeardOK
<1> HIDE DEF V
<1>3. page' = [page EXCEPT ![p] = V]
  BY <1>1 DEF V
<1> QED
  BY <1>1, <1>2, <1>3, OnePage

LEMMA FetchesPreserve ==
  ASSUME RInv, NEW p \in Pages, FetchRead(p) \/ FetchArrives(p) \/ FetchFails(p)
  PROVE  RInv'
<1> DEFINE P == page[p]
           read == [P EXCEPT !.fetch = "read", !.rows = Answer(p)]
           done == [P EXCEPT !.fetch = "none", !.rows = {}, !.loaded = TRUE, !.shown = P.rows]
           failed == [P EXCEPT !.fetch = "none", !.rows = {},
                               !.gap = P.gap \cup (Answer(p) \ P.shown)]
<1>1. /\ P \in Page /\ PageOK(P, committed, due) /\ Accounted(P, committed, due)
      /\ committed \subseteq Changes /\ UNCHANGED <<committed, due>>
      /\ page = [o \in Pages |-> page[o]]
  BY OfPage DEF FetchRead, FetchArrives, FetchFails, RInv
<1>2. Answer(p) \subseteq Changes
      /\ \A c \in committed : Alters(c, P.query, P.user) => c \in Answer(p)
  BY <1>1 DEF Answer
<1>3. CASE FetchRead(p)
  <2>1. page' = [page EXCEPT ![p] = read]
    BY <1>1, <1>3 DEF FetchRead
  <2>2. /\ read \in Page /\ read.user = P.user /\ read.query = P.query /\ read.wire = P.wire
        /\ read.seen = P.seen /\ read.fetch = "read" /\ read.rows = Answer(p)
    BY <1>1, <1>2 DEF Page
  <2> HIDE DEF read, P
  <2>3. PageOK(read, committed, due)
    BY <1>1, <2>2 DEF PageOK
  <2>4. Accounted(read, committed, due)
    BY <1>2, <2>2 DEF Accounted, Safe, Held
  <2> QED
    BY <1>1, <2>1, <2>3, <2>4, OnePage
<1>4. CASE FetchArrives(p)
  <2>1. page' = [page EXCEPT ![p] = done] /\ P.fetch = "read"
    BY <1>1, <1>4 DEF FetchArrives
  <2>2. /\ done \in Page /\ done.user = P.user /\ done.query = P.query /\ done.wire = P.wire
        /\ done.seen = P.seen /\ done.fetch = "none" /\ done.shown = P.rows /\ done.gap = P.gap
    BY <1>1 DEF Page
  <2> HIDE DEF done, P
  <2>3. PageOK(done, committed, due)
    BY <1>1, <2>2 DEF PageOK
  <2>4. Holds(P, done)
    BY <2>1, <2>2 DEF Holds, Held
  <2>5. \A c \in committed : Safe(P, c, due) => Safe(done, c, due)
    <3> SUFFICES ASSUME NEW c \in committed, Safe(P, c, due) PROVE Safe(done, c, due)
      OBVIOUS
    <3>1. \A n : Coming(c, n, P, due) => Coming(c, n, done, due)
      BY <2>2 DEF Coming
    <3>2. c \in Changes
      BY <1>1
    <3> QED
      BY <2>2, <2>4, <3>1, <3>2, SafeStays
  <2>6. Accounted(done, committed, due)
    BY <1>1, <2>2, <2>5, SamePage
  <2> QED
    BY <1>1, <2>1, <2>3, <2>6, OnePage
<1>5. CASE FetchFails(p)
  <2>1. page' = [page EXCEPT ![p] = failed]
    BY <1>1, <1>5 DEF FetchFails
  <2>2. /\ failed \in Page /\ failed.user = P.user /\ failed.query = P.query
        /\ failed.wire = P.wire /\ failed.seen = P.seen /\ failed.fetch = "none"
        /\ failed.shown = P.shown /\ failed.gap = P.gap \cup (Answer(p) \ P.shown)
    BY <1>1, <1>2 DEF Page
  <2> HIDE DEF failed, P
  <2>3. PageOK(failed, committed, due)
    BY <1>1, <2>2 DEF PageOK
  <2>4. Accounted(failed, committed, due)
    BY <1>2, <2>2 DEF Accounted, Safe, Held
  <2> QED
    BY <1>1, <2>1, <2>3, <2>4, OnePage
<1> QED
  BY <1>3, <1>4, <1>5

\* What Lose leaves of a page.
LEMMA LoseFacts ==
  ASSUME NEW p, page[p] \in Page
  PROVE  /\ Lose(p) \in Page
         /\ Lose(p).user = page[p].user /\ Lose(p).query = page[p].query
         /\ Lose(p).wire = <<>> /\ Lose(p).seen = page[p].seen
         /\ Lose(p).fetch = page[p].fetch /\ Lose(p).rows = page[p].rows
         /\ Lose(p).loaded = page[p].loaded
         /\ Lose(p).shown = page[p].shown /\ page[p].gap \subseteq Lose(p).gap
         /\ \A x \in Range(page[p].wire) : x[1] \in Lose(p).gap
<1> DEFINE P == page[p]
<1>1. Unheard(p) \subseteq Changes /\ \A x \in Range(P.wire) : x[1] \in Unheard(p)
  <2>1. P.wire \in Seq(Id)
    BY DEF Page, Id
  <2>2. \A x \in Range(P.wire) : x \in Id
    BY <2>1, LenProperties, ElementOfSeq DEF Range
  <2> QED
    BY <2>2 DEF Unheard, Id
<1>2. Lose(p) = [P EXCEPT !.wire = <<>>, !.gap = P.gap \cup Unheard(p)]
  BY DEF Lose
<1>3. <<>> \in Seq(Changes \X Nat)
  BY EmptySeq
<1> QED
  BY ZenonT(30), <1>1, <1>2, <1>3 DEF Page

LEMMA SocketsPreserve ==
  ASSUME RInv, NEW p \in Pages, Handshake(p) \/ Drop(p)
  PROVE  RInv'
<1> DEFINE P == page[p]
<1>1. /\ P \in Page /\ PageOK(P, committed, due) /\ Accounted(P, committed, due)
      /\ committed \subseteq Changes /\ due \in [Changes -> Nat] /\ UNCHANGED <<committed, due>>
      /\ page = [o \in Pages |-> page[o]]
  BY OfPage DEF Handshake, Drop, RInv
<1>2. CASE Handshake(p)
  <2>1. PICK status \in {"connected", "error"} : page' = [page EXCEPT ![p].sock = status]
    BY <1>2 DEF Handshake
  <2> DEFINE V == [P EXCEPT !.sock = status]
  <2>2. page' = [page EXCEPT ![p] = V]
    BY <1>1, <2>1
  <2>3. /\ V \in Page /\ V.user = P.user /\ V.query = P.query /\ V.wire = P.wire
        /\ V.seen = P.seen /\ V.fetch = P.fetch /\ V.rows = P.rows /\ V.shown = P.shown
        /\ P.gap \subseteq V.gap
    BY <1>1 DEF Page
  <2> HIDE DEF V, P
  <2>4. PageOK(V, committed, due) /\ Accounted(V, committed, due)
    BY <1>1, <2>3, WidenedOK
  <2> QED
    BY <1>1, <2>2, <2>4, OnePage
<1>3. CASE Drop(p)
  <2> DEFINE L == Lose(p)
             V == [L EXCEPT !.sock = "disconnected"]
  <2>1. page' = [page EXCEPT ![p] = V]
    BY <1>3 DEF Drop
  <2>2. /\ L \in Page /\ L.user = P.user /\ L.query = P.query /\ L.wire = <<>>
        /\ L.seen = P.seen /\ L.fetch = P.fetch /\ L.rows = P.rows /\ L.shown = P.shown
        /\ P.gap \subseteq L.gap /\ \A x \in Range(P.wire) : x[1] \in L.gap
    BY <1>1, LoseFacts
  <2> HIDE DEF L
  <2>3. /\ V \in Page /\ V.user = P.user /\ V.query = P.query /\ V.wire = <<>>
        /\ V.seen = P.seen /\ V.fetch = P.fetch /\ V.rows = P.rows /\ V.shown = P.shown
        /\ P.gap \subseteq V.gap /\ \A x \in Range(P.wire) : x[1] \in V.gap
    BY <2>2 DEF Page
  <2> HIDE DEF V, P
  <2>4. \A c \in Changes : due[c] <= due[c]
    BY <1>1
  <2>5. PageOK(V, committed, due) /\ Accounted(V, committed, due)
    BY <1>1, <2>3, <2>4, LostOK
  <2> QED
    BY <1>1, <2>1, <2>5, OnePage
<1> QED
  BY <1>2, <1>3

LEMMA SigningPreserves ==
  ASSUME RInv, NEW p \in Pages,
         \/ Close(p)
         \/ \E u \in Viewers : Open(p, u) \/ TokenChanges(p, u)
  PROVE  RInv'
<1> DEFINE P == page[p]
<1>1. /\ P \in Page /\ PageOK(P, committed, due) /\ Accounted(P, committed, due)
      /\ committed \subseteq Changes /\ due \in [Changes -> Nat] /\ UNCHANGED <<committed, due>>
      /\ page = [o \in Pages |-> page[o]] /\ MaxSeen \in Nat
  BY OfPage, RealtimeAssumption DEF Close, Open, TokenChanges, RInv, RealtimeAssumption
<1>2. <<>> \in Seq(Changes \X Nat) /\ Len(<<>>) = 0 /\ Range(<<>>) = {}
  BY EmptySeq DEF Range
<1> DEFINE C == Closed(P.query)
<1>3. C \in Page /\ C.wire = <<>> /\ C.seen = <<>> /\ C.user = NoOne
  BY <1>1, <1>2 DEF Closed, Page
<1>4. CASE Close(p)
  <2>1. page' = [page EXCEPT ![p] = C]
    BY <1>4 DEF Close
  <2> HIDE DEF C
  <2>2. PageOK(C, committed, due) /\ Accounted(C, committed, due)
    BY <1>1, <1>2, <1>3 DEF PageOK, Accounted
  <2> QED
    BY <1>1, <2>1, <2>2, OnePage
<1>5. ASSUME NEW u \in Viewers, Open(p, u)
      PROVE  RInv'
  <2> DEFINE V == [C EXCEPT !.user = u, !.sock = "connecting", !.fetch = "asked"]
  <2>1. page' = [page EXCEPT ![p] = V]
    BY <1>5 DEF Open
  <2> HIDE DEF C
  <2>2. V \in Page /\ V.wire = <<>> /\ V.seen = <<>> /\ V.fetch = "asked"
    BY <1>3 DEF Page
  <2> HIDE DEF V
  <2>3. PageOK(V, committed, due) /\ Accounted(V, committed, due)
    BY <1>1, <1>2, <2>2 DEF PageOK, Accounted, Safe, Held
  <2> QED
    BY <1>1, <2>1, <2>3, OnePage
<1>6. ASSUME NEW u \in Viewers, TokenChanges(p, u)
      PROVE  RInv'
  <2> DEFINE L == Lose(p)
             gap == IF u = P.user THEN L.gap ELSE Changes
             V == [L EXCEPT !.user = u, !.sock = "connecting", !.gap = gap]
  <2>1. page' = [page EXCEPT ![p] = V]
    BY <1>6 DEF TokenChanges
  <2>2. /\ L \in Page /\ L.user = P.user /\ L.query = P.query /\ L.wire = <<>>
        /\ L.seen = P.seen /\ L.fetch = P.fetch /\ L.rows = P.rows /\ L.shown = P.shown
        /\ P.gap \subseteq L.gap /\ \A x \in Range(P.wire) : x[1] \in L.gap
    BY <1>1, LoseFacts
  <2> HIDE DEF L
  <2>3. gap \subseteq Changes /\ (u = P.user => gap = L.gap) /\ (u # P.user => gap = Changes)
    BY <2>2 DEF Page
  <2> HIDE DEF gap
  <2>4. /\ V \in Page /\ V.user = u /\ V.query = P.query /\ V.wire = <<>>
        /\ V.seen = P.seen /\ V.fetch = P.fetch /\ V.rows = P.rows /\ V.shown = P.shown
        /\ V.gap = gap
    BY <2>2, <2>3 DEF Page
  <2> HIDE DEF V, P
  <2>5. PageOK(V, committed, due) /\ Accounted(V, committed, due)
    <3>1. CASE u = P.user
      <4>1. \A c \in Changes : due[c] <= due[c]
        BY <1>1
      <4>2. P.gap \subseteq V.gap /\ (\A x \in Range(P.wire) : x[1] \in V.gap) /\ V.user = P.user
        BY <2>2, <2>3, <2>4, <3>1
      <4> QED
        BY <1>1, <2>4, <4>1, <4>2, LostOK
    <3>2. CASE u # P.user
      <4>1. Accounted(V, committed, due)
        BY <1>1, <2>3, <2>4, <3>2 DEF Accounted, Safe, Held
      <4>2. PageOK(V, committed, due)
        BY <1>1, <1>2, <2>4 DEF PageOK
      <4> QED
        BY <4>1, <4>2
    <3> QED
      BY <3>1, <3>2
  <2> QED
    BY <1>1, <2>1, <2>5, OnePage
<1> QED
  BY <1>4, <1>5, <1>6

\* The tables and every page, as a step leaves them.
LEMMA EveryPage ==
  ASSUME TablesOK', NEW V, page' = [p \in Pages |-> V[p]],
         \A p \in Pages : PageOK(V[p], committed', due') /\ Accounted(V[p], committed', due')
  PROVE  RInv'
<1>1. \A p \in Pages : V[p] \in Page
  BY DEF PageOK
<1>2. page' \in [Pages -> Page] /\ \A p \in Pages : page'[p] = V[p]
  BY <1>1
<1>3. \A p \in Pages : PageOK(page'[p], committed', due') /\ Accounted(page'[p], committed', due')
  BY <1>2
<1> QED
  BY <1>2, <1>3 DEF RInv

LEMMA CommitPreserves ==
  ASSUME RInv, NEW c \in Changes, Commit(c)
  PROVE  RInv'
<1>1. /\ committed' = committed \cup {c} /\ due' = [due EXCEPT ![c] = Len(Events(c))]
      /\ page' = page
  BY DEF Commit
<1>2. /\ committed \subseteq Changes /\ due \in [Changes -> Nat] /\ Len(Events(c)) \in Nat
      /\ \A b \in Changes : due[b] <= Len(Events(b)) /\ (due[b] > 0 => b \in committed)
  BY EventsAreRows DEF RInv, TablesOK
<1>3. TablesOK'
  <2>1. due' \in [Changes -> Nat] /\ committed' \subseteq Changes
    BY <1>1, <1>2
  <2>2. ASSUME NEW b \in Changes
        PROVE  due'[b] <= Len(Events(b)) /\ (due'[b] > 0 => b \in committed')
    BY <1>1, <1>2
  <2> QED
    BY <2>1, <2>2 DEF TablesOK
<1>4. page = [p \in Pages |-> page[p]]
  BY DEF RInv
<1>5. \A p \in Pages : PageOK(page[p], committed', due') /\ Accounted(page[p], committed', due')
  BY CommittedOK
<1>6. page' = [p \in Pages |-> page[p]]
  BY <1>1, <1>4
<1> QED
  BY <1>3, <1>5, <1>6, EveryPage

LEMMA EmitPreserves ==
  ASSUME RInv, NEW c \in Changes, Emit(c)
  PROVE  RInv'
<1>1. /\ committed' = committed /\ due' = [due EXCEPT ![c] = due[c] - 1] /\ due[c] > 0
  BY DEF Emit
<1>2. /\ committed \subseteq Changes /\ due \in [Changes -> Nat] /\ Len(Events(c)) \in Nat
      /\ \A b \in Changes : due[b] <= Len(Events(b)) /\ (due[b] > 0 => b \in committed)
  BY EventsAreRows DEF RInv, TablesOK
<1>3. TablesOK'
  <2>1. due' \in [Changes -> Nat] /\ committed' \subseteq Changes
    BY <1>1, <1>2
  <2>2. ASSUME NEW b \in Changes
        PROVE  due'[b] <= Len(Events(b)) /\ (due'[b] > 0 => b \in committed')
    BY <1>1, <1>2
  <2> QED
    BY <2>1, <2>2 DEF TablesOK
<1>4. \A p \in Pages : PageOK(page'[p], committed', due') /\ Accounted(page'[p], committed', due')
  BY <1>1, EmittedOK
<1>5. page' = [p \in Pages |-> page'[p]]
  BY DEF Emit
<1> DEFINE V == page'
<1>6. /\ page' = [p \in Pages |-> V[p]]
      /\ \A p \in Pages : PageOK(V[p], committed', due') /\ Accounted(V[p], committed', due')
  BY <1>4, <1>5
<1> HIDE DEF V
<1> QED
  BY <1>3, <1>6, EveryPage

\* A restart loses what is on the way and what was to be emitted; the gaps take it in.
LEMMA RestartPreserves ==
  ASSUME RInv, Restart
  PROVE  RInv'
<1> DEFINE e == [c \in Changes |-> 0]
           cut == {c \in Changes : due[c] > 0}
           L(p) == Lose(p)
           sock(p) == IF L(p).sock = "connected" THEN "disconnected" ELSE L(p).sock
           W(p) == [L(p) EXCEPT !.gap = L(p).gap \cup cut, !.sock = sock(p)]
           V == [p \in Pages |-> W(p)]
<1>1. committed' = committed /\ due' = e /\ page' = V
  BY DEF Restart
<1>2. committed \subseteq Changes /\ due \in [Changes -> Nat]
  BY DEF RInv, TablesOK
<1>3. /\ e \in [Changes -> Nat] /\ \A c \in Changes : e[c] = 0 /\ e[c] <= due[c]
  BY <1>2
<1> HIDE DEF e
<1>4. TablesOK'
  <2>1. \A c \in Changes : 0 <= Len(Events(c)) /\ ~(0 > 0)
    BY EventsAreRows
  <2> QED
    BY <1>1, <1>2, <1>3, <2>1 DEF TablesOK
<1>5. ASSUME NEW p \in Pages
      PROVE  PageOK(W(p), committed, e) /\ Accounted(W(p), committed, e)
  <2> DEFINE P == page[p]
             l == L(p)
             w == W(p)
  <2>1. /\ P \in Page /\ PageOK(P, committed, due) /\ Accounted(P, committed, due)
    BY OfPage
  <2>2. /\ l \in Page /\ l.user = P.user /\ l.query = P.query /\ l.wire = <<>>
        /\ l.seen = P.seen /\ l.fetch = P.fetch /\ l.rows = P.rows /\ l.shown = P.shown
        /\ P.gap \subseteq l.gap /\ \A x \in Range(P.wire) : x[1] \in l.gap
    BY <2>1, LoseFacts
  <2>3. sock(p) \in {"idle", "connecting", "connected", "disconnected", "error"}
    BY <2>2 DEF Page
  <2> DEFINE s == sock(p)
             g == l.gap \cup cut
  <2>4. w = [l EXCEPT !.gap = g, !.sock = s] /\ g \subseteq Changes /\ cut \subseteq g
        /\ l.gap \subseteq g
    BY <2>2 DEF Page
  <2> HIDE DEF l, w, s, g
  <2>5. s \in {"idle", "connecting", "connected", "disconnected", "error"}
    BY <2>3 DEF s
  <2>6. /\ w \in Page /\ w.user = l.user /\ w.query = l.query /\ w.wire = l.wire
        /\ w.seen = l.seen /\ w.fetch = l.fetch /\ w.rows = l.rows /\ w.shown = l.shown
        /\ w.gap = g
    BY <2>2, <2>4, <2>5 DEF Page
  <2>7. /\ w.user = P.user /\ w.query = P.query /\ w.wire = <<>> /\ w.seen = P.seen
        /\ w.fetch = P.fetch /\ w.rows = P.rows /\ w.shown = P.shown /\ P.gap \subseteq w.gap
        /\ \A x \in Range(P.wire) : x[1] \in w.gap
    BY <2>2, <2>4, <2>6
  <2>8. \A c \in Changes : e[c] # due[c] => e[c] = 0 /\ c \in w.gap
    <3> SUFFICES ASSUME NEW c \in Changes, e[c] # due[c] PROVE c \in w.gap
      BY <1>3
    <3>1. c \in cut
      BY <1>2, <1>3
    <3> QED
      BY <2>4, <2>6, <3>1
  <2>9. \A c \in Changes : e[c] <= due[c]
    BY <1>3
  <2> HIDE DEF P, cut
  <2>10. PageOK(w, committed, e) /\ Accounted(w, committed, e)
    BY SMTT(30), <1>2, <1>3, <2>1, <2>6, <2>7, <2>8, <2>9, LostOK
  <2> QED
    BY <2>10 DEF w
<1>6. \A p \in Pages : V[p] = W(p)
  OBVIOUS
<1>7. page' = [p \in Pages |-> V[p]]
  BY <1>1
<1> HIDE DEF V, W
<1>8. \A p \in Pages : PageOK(V[p], committed', due') /\ Accounted(V[p], committed', due')
  BY <1>1, <1>5, <1>6
<1> QED
  BY <1>4, <1>7, <1>8, EveryPage

\* An error cuts a handler's events short; the gaps take its change in.
LEMMA ThrowsPreserves ==
  ASSUME RInv, NEW c \in Changes, Throws(c)
  PROVE  RInv'
<1> DEFINE W(p) == [page[p] EXCEPT !.gap = page[p].gap \cup {c}]
           V == [p \in Pages |-> W(p)]
           e == [due EXCEPT ![c] = 0]
<1>1. committed' = committed /\ due' = e /\ page' = V
  BY DEF Throws
<1>2. /\ committed \subseteq Changes /\ due \in [Changes -> Nat]
      /\ \A b \in Changes : due[b] <= Len(Events(b)) /\ (due[b] > 0 => b \in committed)
  BY DEF RInv, TablesOK
<1>3. /\ e \in [Changes -> Nat] /\ e[c] = 0
      /\ \A b \in Changes : b # c => e[b] = due[b]
  BY <1>2
<1> HIDE DEF e
<1>4. \A b \in Changes : e[b] <= due[b] /\ (e[b] # due[b] => b = c)
  BY <1>2, <1>3
<1>5. TablesOK'
  <2>1. Len(Events(c)) \in Nat
    BY EventsAreRows
  <2> QED
    BY <1>1, <1>2, <1>3, <2>1 DEF TablesOK
<1>6. ASSUME NEW p \in Pages
      PROVE  PageOK(W(p), committed, e) /\ Accounted(W(p), committed, e)
  <2> DEFINE P == page[p]
             w == W(p)
  <2>1. P \in Page /\ PageOK(P, committed, due) /\ Accounted(P, committed, due)
    BY OfPage
  <2>2. /\ w \in Page /\ w.user = P.user /\ w.query = P.query /\ w.wire = P.wire
        /\ w.seen = P.seen /\ w.fetch = P.fetch /\ w.rows = P.rows /\ w.shown = P.shown
        /\ w.gap = P.gap \cup {c}
    BY <2>1 DEF Page
  <2> HIDE DEF w, P
  <2>3. PageOK(w, committed, e) /\ Accounted(w, committed, e)
    BY <1>2, <1>3, <1>4, <2>1, <2>2, CutOK
  <2> QED
    BY <2>3 DEF w
<1>7. \A p \in Pages : V[p] = W(p)
  OBVIOUS
<1>8. page' = [p \in Pages |-> V[p]]
  BY <1>1
<1> HIDE DEF V, W
<1>9. \A p \in Pages : PageOK(V[p], committed', due') /\ Accounted(V[p], committed', due')
  BY <1>1, <1>6, <1>7
<1> QED
  BY <1>5, <1>8, <1>9, EveryPage

\* A silent change: the page that made it asks again, the others have no way to know of it.
LEMMA AskPreserves ==
  ASSUME RInv, NEW p \in Pages, NEW c \in Changes, Ask(p, c)
  PROVE  RInv'
<1> DEFINE com == committed \cup {c}
           G(o) == [page[o] EXCEPT !.gap = page[o].gap \cup {c}]
           own(o) == o = p /\ KindOf[c] # "challenge" /\ Alters(c, page[o].query, page[o].user)
           V == [o \in Pages |-> IF own(o) THEN Invalidated(page[o], c) ELSE G(o)]
<1>1. c \notin committed /\ committed' = com /\ due' = due /\ page' = V
  BY DEF Ask
<1>2. /\ committed \subseteq Changes /\ due \in [Changes -> Nat]
      /\ \A b \in Changes : due[b] <= Len(Events(b)) /\ (due[b] > 0 => b \in committed)
  BY DEF RInv, TablesOK
<1>3. TablesOK'
  BY <1>1, <1>2 DEF TablesOK
<1>4. ASSUME NEW W \in Page, PageOK(W, committed, due), Accounted(W, committed, due), Held(W, c)
      PROVE  PageOK(W, com, due) /\ Accounted(W, com, due)
  <2>1. \A x : Emitted(x, committed, due) => Emitted(x, com, due)
    BY DEF Emitted
  <2>2. PageOK(W, com, due)
    BY <1>4, <2>1 DEF PageOK
  <2>3. Accounted(W, com, due)
    BY <1>4 DEF Accounted, Safe
  <2> QED
    BY <2>2, <2>3
<1>5. ASSUME NEW o \in Pages
      PROVE  PageOK(V[o], com, due) /\ Accounted(V[o], com, due)
  <2> DEFINE P == page[o]
             g == G(o)
             a == [P EXCEPT !.fetch = "asked", !.rows = {}]
  <2>1. P \in Page /\ PageOK(P, committed, due) /\ Accounted(P, committed, due)
    BY OfPage
  <2>2. V[o] = g \/ V[o] = a
    BY DEF Invalidated
  <2>3. /\ g \in Page /\ g.user = P.user /\ g.query = P.query /\ g.wire = P.wire
        /\ g.seen = P.seen /\ g.fetch = P.fetch /\ g.rows = P.rows /\ g.shown = P.shown
        /\ g.gap = P.gap \cup {c}
    BY <2>1 DEF Page
  <2>4. /\ a \in Page /\ a.user = P.user /\ a.query = P.query /\ a.wire = P.wire
        /\ a.seen = P.seen /\ a.fetch = "asked"
    BY <2>1 DEF Page
  <2> HIDE DEF P, g, a, V, com
  <2>5. PageOK(g, com, due) /\ Accounted(g, com, due)
    <3>1. P.gap \subseteq g.gap
      BY <2>3
    <3>2. PageOK(g, committed, due) /\ Accounted(g, committed, due)
      BY <1>2, <2>1, <2>3, <3>1, WidenedOK
    <3>3. Held(g, c)
      BY <2>3 DEF Held
    <3> QED
      BY <1>4, <2>3, <3>2, <3>3
  <2>6. PageOK(a, com, due) /\ Accounted(a, com, due)
    <3>1. \A b : Held(a, b)
      BY <2>4 DEF Held
    <3>2. PageOK(a, committed, due)
      BY <2>1, <2>4 DEF PageOK
    <3>3. Accounted(a, committed, due)
      BY <3>1 DEF Accounted, Safe
    <3> QED
      BY <1>4, <2>4, <3>1, <3>2, <3>3
  <2> QED
    BY <2>2, <2>5, <2>6
<1>6. page' = [o \in Pages |-> V[o]]
  BY <1>1
<1> HIDE DEF V, com
<1>7. \A o \in Pages : PageOK(V[o], committed', due') /\ Accounted(V[o], committed', due')
  BY <1>1, <1>5
<1> QED
  BY <1>3, <1>6, <1>7, EveryPage

LEMMA InitRInv ==
  ASSUME RealtimeInit
  PROVE  RInv
<1>1. committed = {} /\ due = [c \in Changes |-> 0] /\ page \in [Pages -> {Closed(q) : q \in Shown}]
  BY DEF RealtimeInit
<1>2. TablesOK
  <2>1. \A c \in Changes : 0 <= Len(Events(c)) /\ ~(0 > 0)
    BY EventsAreRows
  <2> QED
    BY <1>1, <2>1 DEF TablesOK
<1>3. <<>> \in Seq(Changes \X Nat) /\ Len(<<>>) = 0 /\ Range(<<>>) = {} /\ MaxSeen \in Nat
  BY EmptySeq, RealtimeAssumption DEF Range, RealtimeAssumption
<1>4. ASSUME NEW q \in Shown
      PROVE  PageOK(Closed(q), committed, due) /\ Accounted(Closed(q), committed, due)
  <2> DEFINE C == Closed(q)
  <2>1. C \in Page /\ C.wire = <<>> /\ C.seen = <<>> /\ C.user = NoOne
    BY <1>3 DEF Closed, Page
  <2> HIDE DEF C
  <2>2. PageOK(C, committed, due) /\ Accounted(C, committed, due)
    BY <1>3, <2>1 DEF PageOK, Accounted
  <2> QED
    BY <2>2 DEF C
<1>5. \A p \in Pages : \E q \in Shown : page[p] = Closed(q)
  BY <1>1
<1>6. \A p \in Pages : PageOK(page[p], committed, due) /\ Accounted(page[p], committed, due)
  BY <1>4, <1>5
<1>7. page \in [Pages -> Page]
  <2>1. \A q \in Shown : Closed(q) \in Page
    BY <1>4 DEF PageOK
  <2> QED
    BY <1>1, <2>1
<1> QED
  BY <1>2, <1>6, <1>7 DEF RInv

LEMMA RealtimePreserves ==
  ASSUME RInv, [RealtimeNext]_realtimeVars
  PROVE  RInv'
<1>1. CASE UNCHANGED realtimeVars
  BY <1>1 DEF realtimeVars, RInv, TablesOK
<1>2. ASSUME NEW c \in Changes, Commit(c) \/ Emit(c) \/ Throws(c)
      PROVE  RInv'
  BY <1>2, CommitPreserves, EmitPreserves, ThrowsPreserves
<1>3. ASSUME NEW p \in Pages, Runs(p) \/ Deliver(p, TRUE)
      PROVE  RInv'
  <2>1. CASE \E again \in BOOLEAN : Deliver(p, again)
    BY <2>1, DeliverPreserves
  <2>2. CASE FetchRead(p) \/ FetchArrives(p)
    BY <2>2, FetchesPreserve
  <2> QED
    BY <1>3, <2>1, <2>2 DEF Runs
<1>4. ASSUME NEW p \in Pages, Handshake(p) \/ Drop(p)
      PROVE  RInv'
  BY <1>4, SocketsPreserve
<1>5. ASSUME NEW p \in Pages, FetchFails(p)
      PROVE  RInv'
  BY <1>5, FetchesPreserve
<1>6. ASSUME NEW p \in Pages, Close(p) \/ \E u \in Viewers : Open(p, u) \/ TokenChanges(p, u)
      PROVE  RInv'
  BY <1>6, SigningPreserves
<1>7. ASSUME NEW p \in Pages, NEW c \in Changes, Ask(p, c)
      PROVE  RInv'
  BY <1>7, AskPreserves
<1>8. CASE Restart
  BY <1>8, RestartPreserves
<1> QED
  BY <1>1, <1>2, <1>3, <1>4, <1>5, <1>6, <1>7, <1>8 DEF RealtimeNext

LEMMA RInvTypes == RInv => RealtimeTypeOK
<1> SUFFICES ASSUME RInv PROVE RealtimeTypeOK
  OBVIOUS
<1>1. ASSUME NEW c \in Changes
      PROVE  due[c] \in 0..Len(Events(c))
  <2>1. due[c] \in Nat /\ due[c] <= Len(Events(c)) /\ Len(Events(c)) \in Nat
    BY EventsAreRows DEF RInv, TablesOK
  <2> QED
    BY <2>1
<1>2. ASSUME NEW p \in Pages
      PROVE  page[p] \in Page /\ Len(page[p].seen) <= MaxSeen
  BY DEF RInv, PageOK
<1> QED
  BY <1>1, <1>2 DEF RealtimeTypeOK, RInv, TablesOK

LEMMA RInvFresh == RInv => QuietPageIsFresh
<1> SUFFICES ASSUME RInv, NEW p \in Pages,
                    page[p].user # NoOne, page[p].fetch = "none", page[p].wire = <<>>,
                    NEW c \in Answer(p), due[c] = 0
             PROVE  c \in page[p].shown \cup page[p].gap
  BY DEF QuietPageIsFresh
<1>1. /\ c \in committed /\ Alters(c, page[p].query, page[p].user)
      /\ c \in Changes /\ Len(Events(c)) \in Nat
  BY OfPage, EventsAreRows DEF Answer
<1>2. Safe(page[p], c, due)
  BY <1>1, OfPage DEF Accounted
<1>3. ASSUME NEW n \in 1..Len(Events(c)), Coming(c, n, page[p], due)
      PROVE  FALSE
  <2>1. Range(page[p].wire) = {}
    BY DEF Range
  <2>2. n > Len(Events(c)) - 0
    BY <1>3, <2>1 DEF Coming
  <2> QED
    BY <1>1, <2>2
<1>4. Held(page[p], c)
  BY <1>2, <1>3 DEF Safe
<1> QED
  BY <1>4 DEF Held

-----------------------------------------------------------------------------
\* Pages hold answers of their queries and ids of events; no more ids are remembered than the
\* Set of use-realtime.ts keeps, and no change has more events to come than it has.
THEOREM RealtimeTypesHold == RealtimeSpec => []RealtimeTypeOK
BY RInvTypes, InitRInv, RealtimePreserves, PTL DEF RealtimeSpec

\* A page at rest shows every change of its rows that has been announced, unless the
\* announcement could not reach it: for any users, tabs and writes, through repeated events,
\* overlapping fetches, restarts, new tokens and any size of the memory of event ids.
THEOREM QuietPageIsFreshHolds == RealtimeSpec => []QuietPageIsFresh
BY RInvFresh, InitRInv, RealtimePreserves, PTL DEF RealtimeSpec
=============================================================================
