------------------------------ MODULE Realtime ------------------------------
(***************************************************************************)
(* How a committed change reaches a page that is open: the events that the *)
(* services emit after their writes (socket/index.ts), the socket of a tab *)
(* (use-realtime.ts), and the REST query that an event makes the page ask  *)
(* again (realtime.ts, with TanStack Query as providers.tsx sets it up).   *)
(*                                                                         *)
(* A page shows one query.  What it shows is the set of changes that its   *)
(* last answer reflected; gap is the set of those it cannot have heard of.  *)
(***************************************************************************)
EXTENDS Naturals, FiniteSets, SequencesExt

CONSTANTS
    Viewers,    \* the users
    Pages,      \* the tabs
    Changes,    \* the writes of the services
    KindOf,     \* change -> what was written
    OwnerOf,    \* change -> its user: seller, buyer or owner of the row
    OtherOf,    \* change -> the other party of a trade, a match or a match on the listing, else
                \* the owner
    Shown,      \* the queries a page may show
    MaxSeen,    \* how many event ids a tab remembers
    NoOne

Announced == {"listing", "bid", "match", "trade", "energy", "wallet", "note"}

\* Changes that no event announces: reading a notification, unlinking a wallet, and the row that
\* a wallet's first challenge creates.
Silent == {"read", "unlink", "challenge"}

Queries == {"listings", "listing", "bids", "bid", "matches", "notifications", "wallets", "iot"}

ASSUME RealtimeAssumption ==
    /\ KindOf \in [Changes -> Announced \cup Silent]
    /\ OwnerOf \in [Changes -> Viewers]
    /\ OtherOf \in [Changes -> Viewers]
    /\ Shown \subseteq Queries
    /\ MaxSeen \in Nat \ {0}
    /\ NoOne \notin Viewers

VARIABLES
    committed,  \* the changes in the database
    due,        \* for each change, how many of its events are still to be emitted
    page        \* the state of each tab

realtimeVars == <<committed, due, page>>

\* sock: RealtimeStatus, and the server has joined the rooms of user while it is "connected".
Page == [user : Viewers \cup {NoOne}, query : Shown,
         sock : {"idle", "connecting", "connected", "disconnected", "error"},
         wire : Seq(Changes \X Nat), seen : Seq(Changes \X Nat),
         fetch : {"none", "asked", "read"}, rows : SUBSET Changes,
         loaded : BOOLEAN, shown : SUBSET Changes, gap : SUBSET Changes]

Closed(q) == [user |-> NoOne, query |-> q, sock |-> "idle", wire |-> <<>>, seen |-> <<>>,
              fetch |-> "none", rows |-> {}, loaded |-> FALSE, shown |-> {}, gap |-> {}]

Parties(c) == {OwnerOf[c], OtherOf[c]}

Everyone == Viewers

\* The events of a change in the order the services emit them, and who is in their rooms.
ListingEvents(c, seller) ==
    << [event |-> "listing:updated", to |-> Everyone],
       [event |-> "dashboard:updated", to |-> {seller}] >>

BidEvents(c) ==
    << [event |-> "bid:updated", to |-> {OwnerOf[c]}],
       [event |-> "dashboard:updated", to |-> {OwnerOf[c]}] >>

MatchEvents(c) ==
    BidEvents(c) \o << [event |-> "bid:matched", to |-> Parties(c)] >>
    \o ListingEvents(c, OtherOf[c])
    \o << [event |-> "match:created", to |-> Parties(c)],
          [event |-> "dashboard:updated", to |-> Parties(c)] >>

TradeEvents(c) ==
    << [event |-> "trade:confirmed", to |-> Parties(c)],
       [event |-> "dashboard:updated", to |-> Parties(c)],
       [event |-> "match:updated", to |-> Parties(c)],
       [event |-> "dashboard:updated", to |-> Parties(c)] >>

Events(c) ==
    CASE KindOf[c] = "listing" -> ListingEvents(c, OwnerOf[c])
      [] KindOf[c] = "bid" -> BidEvents(c)
      [] KindOf[c] = "match" -> MatchEvents(c)
      [] KindOf[c] = "trade" -> TradeEvents(c)
      [] KindOf[c] = "energy" -> << [event |-> "energy:updated", to |-> {OwnerOf[c]}],
                                    [event |-> "dashboard:updated", to |-> {OwnerOf[c]}] >>
      [] KindOf[c] = "wallet" -> << [event |-> "dashboard:updated", to |-> {OwnerOf[c]}] >>
      [] KindOf[c] = "note" -> << [event |-> "notification:new", to |-> {OwnerOf[c]}] >>
      [] OTHER -> <<>>

\* Mutant: the bell is left to the next page load.
EVENT_QUERY_KEYS_NoNotifications(event) ==
    CASE event = "notification:new" -> {}
      [] event \in {"energy:updated", "dashboard:updated"} -> {"iot", "wallets"}
      [] event \in {"listing:updated"} -> {"listings", "listing", "matches"}
      [] event \in {"bid:updated", "bid:matched"} -> {"bids", "bid"}
      [] OTHER -> {"matches", "bids", "listings"}

\* Which queries an event makes a page ask again.
EVENT_QUERY_KEYS(event) ==
    CASE event = "listing:updated" -> {"listings", "listing", "matches"}
      [] event = "bid:updated" -> {"bids", "bid"}
      [] event = "bid:matched" -> {"bids", "bid", "matches", "listings"}
      [] event = "match:created" -> {"matches", "bids", "listings"}
      [] event = "match:updated" -> {"matches"}
      [] event = "trade:confirmed" -> {"matches"}
      [] event = "notification:new" -> {"notifications"}
      [] event = "energy:updated" -> {"iot"}
      [] event = "dashboard:updated" ->
           {"listings", "bids", "matches", "notifications", "wallets", "iot"}

\* The rows that a list query gives to u, as far as a change alters them: all listings, the
\* bids of a buyer, the matches of either party, each with a part of its listing.
listListings(c) == KindOf[c] \in {"listing", "match"}
listBids(c, u) == KindOf[c] \in {"bid", "match"} /\ u = OwnerOf[c]
listMatches(c, u) == KindOf[c] \in {"match", "trade", "listing"} /\ u \in Parties(c)

\* Which answers a change alters, and whose.
Alters(c, q, u) ==
    \/ q \in {"listings", "listing"} /\ listListings(c)
    \/ q \in {"bids", "bid"} /\ listBids(c, u)
    \/ q = "matches" /\ listMatches(c, u)
    \/ q = "iot" /\ KindOf[c] = "energy" /\ u = OwnerOf[c]
    \/ q = "wallets" /\ KindOf[c] \in {"wallet", "unlink", "challenge"} /\ u = OwnerOf[c]
    \/ q = "notifications" /\ KindOf[c] \in {"note", "read"} /\ u = OwnerOf[c]

Answer(p) == {c \in committed : Alters(c, page[p].query, page[p].user)}

-----------------------------------------------------------------------------
(* The API *)

\* A service writes, and only then emits.
Commit(c) ==
    /\ c \notin committed
    /\ KindOf[c] \in Announced
    /\ committed' = committed \cup {c}
    /\ due' = [due EXCEPT ![c] = Len(Events(c))]
    /\ UNCHANGED page

\* emitToRooms: a socket in several rooms gets the event once, a page without one never.
Emit(c) ==
    /\ due[c] > 0
    /\ due' = [due EXCEPT ![c] = @ - 1]
    /\ LET n == Len(Events(c)) - due[c] + 1
           to == Events(c)[n].to
       IN  page' = [p \in Pages |->
             IF page[p].user \notin to THEN page[p]
             ELSE IF page[p].sock = "connected"
             THEN [page[p] EXCEPT !.wire = Append(@, <<c, n>>)]
             ELSE [page[p] EXCEPT !.gap = @ \cup {c}]]
    /\ UNCHANGED committed

Unheard(p) == {x[1] : x \in Range(page[p].wire)}

Lose(p) == [page[p] EXCEPT !.wire = <<>>, !.gap = @ \cup Unheard(p)]

\* Shutdown or crash: sockets close first, and what was still to be emitted is not.
Restart ==
    /\ due' = [c \in Changes |-> 0]
    /\ page' = [p \in Pages |->
         [Lose(p) EXCEPT !.gap = @ \cup {c \in Changes : due[c] > 0},
                         !.sock = IF @ = "connected" THEN "disconnected" ELSE @]]
    /\ UNCHANGED committed

\* Where a handler waits once more for the database, so that an error loses the events it has
\* not emitted yet: before the first one, a match between those of the bid and of the listing, a
\* trade before it reads its match.
Waits(c) ==
    LET sent == Len(Events(c)) - due[c]
    IN  \/ sent = 0 /\ KindOf[c] \in {"listing", "bid", "match", "trade", "wallet"}
        \/ sent = 3 /\ KindOf[c] = "match"
        \/ sent = 2 /\ KindOf[c] = "trade"

Throws(c) ==
    /\ due[c] > 0
    /\ Waits(c)
    /\ due' = [due EXCEPT ![c] = 0]
    /\ page' = [p \in Pages |-> [page[p] EXCEPT !.gap = @ \cup {c}]]
    /\ UNCHANGED committed

\* The handshake: the token's account is looked up, and its socket joins the two rooms.  After
\* an error of the transport the client tries again (and a refused token's socket may not).
Handshake(p) ==
    /\ page[p].sock \in {"connecting", "disconnected", "error"}
    /\ \E status \in {"connected", "error"} : page' = [page EXCEPT ![p].sock = status]
    /\ UNCHANGED <<committed, due>>

Drop(p) ==
    /\ page[p].sock = "connected"
    /\ page' = [page EXCEPT ![p] = [Lose(p) EXCEPT !.sock = "disconnected"]]
    /\ UNCHANGED <<committed, due>>

-----------------------------------------------------------------------------
(* The tab *)

\* Mutant: the oldest id is never forgotten.
Remember_Everything(seen, id) == Append(seen, id)

\* shouldApplyEvent: the id is new to this tab, as far as it remembers.
Remember(seen, id) ==
    IF Len(seen) = MaxSeen THEN Tail(seen) \o <<id>> ELSE Append(seen, id)

\* Mutant: a fetch under way is taken to be new enough.
Invalidated_JoinsFetch(P, c) ==
    IF P.fetch # "none" THEN P ELSE [P EXCEPT !.fetch = "asked", !.rows = {}]

\* invalidateQueries: a fetch under way is given up for a new one, unless it is the first one.
Invalidated(P, c) ==
    IF P.fetch # "none" /\ ~P.loaded
    THEN [P EXCEPT !.gap = @ \cup {c}]
    ELSE [P EXCEPT !.fetch = "asked", !.rows = {}]

Applied(P, c, event) ==
    IF P.query \in EVENT_QUERY_KEYS(event) THEN Invalidated(P, c) ELSE P

\* An event arrives, perhaps not for the last time.
Deliver(p, again) ==
    /\ page[p].wire # <<>>
    /\ LET id == Head(page[p].wire)
           P == [page[p] EXCEPT !.wire = IF again THEN @ ELSE Tail(@)]
       IN  page' = [page EXCEPT ![p] =
             IF id \in Range(P.seen) THEN P
             ELSE Applied([P EXCEPT !.seen = Remember(@, id)], id[1], Events(id[1])[id[2]].event)]
    /\ UNCHANGED <<committed, due>>

\* The API answers the query from what is committed; the page shows the answer when it arrives.
FetchRead(p) ==
    /\ page[p].fetch = "asked"
    /\ page' = [page EXCEPT ![p].fetch = "read", ![p].rows = Answer(p)]
    /\ UNCHANGED <<committed, due>>

FetchArrives(p) ==
    /\ page[p].fetch = "read"
    /\ page' = [page EXCEPT ![p].fetch = "none", ![p].rows = {}, ![p].loaded = TRUE,
                            ![p].shown = page[p].rows]
    /\ UNCHANGED <<committed, due>>

\* The request and its one retry fail: the page keeps what it has.
FetchFails(p) ==
    /\ page[p].fetch # "none"
    /\ page' = [page EXCEPT ![p].fetch = "none", ![p].rows = {},
                            ![p].gap = @ \cup (Answer(p) \ page[p].shown)]
    /\ UNCHANGED <<committed, due>>

\* A page marks a notification read, unlinks a wallet or asks for a wallet's challenge; only this
\* page asks its query again, after a challenge not even this one.
Ask(p, c) ==
    /\ page[p].user = OwnerOf[c]
    /\ KindOf[c] \in Silent
    /\ c \notin committed
    /\ committed' = committed \cup {c}
    /\ page' = [o \in Pages |->
         IF o = p /\ KindOf[c] # "challenge" /\ Alters(c, page[o].query, page[o].user)
         THEN Invalidated(page[o], c) ELSE [page[o] EXCEPT !.gap = @ \cup {c}]]
    /\ UNCHANGED due

\* Signing in opens the socket and enables the query.
Open(p, u) ==
    /\ page[p].user = NoOne
    /\ page' = [page EXCEPT ![p] = [Closed(page[p].query) EXCEPT
                   !.user = u, !.sock = "connecting", !.fetch = "asked"]]
    /\ UNCHANGED <<committed, due>>

\* A new access token, perhaps of another account that shares the cookie: the socket is
\* replaced, the query is not asked again.
TokenChanges(p, u) ==
    /\ page[p].user # NoOne
    /\ page' = [page EXCEPT ![p] = [Lose(p) EXCEPT
                   !.user = u, !.sock = "connecting",
                   !.gap = IF u = page[p].user THEN @ ELSE Changes]]
    /\ UNCHANGED <<committed, due>>

\* Signing out closes the socket and clears the cache.
Close(p) ==
    /\ page[p].user # NoOne
    /\ page' = [page EXCEPT ![p] = Closed(page[p].query)]
    /\ UNCHANGED <<committed, due>>

RealtimeInit ==
    /\ committed = {}
    /\ due = [c \in Changes |-> 0]
    /\ page \in [Pages -> {Closed(q) : q \in Shown}]

Runs(p) == Deliver(p, FALSE) \/ FetchRead(p) \/ FetchArrives(p)

RealtimeNext ==
    \/ \E c \in Changes : Commit(c) \/ Emit(c) \/ Throws(c)
    \/ \E p \in Pages :
         \/ Runs(p) \/ Deliver(p, TRUE) \/ Handshake(p) \/ Drop(p) \/ FetchFails(p) \/ Close(p)
         \/ \E u \in Viewers : Open(p, u) \/ TokenChanges(p, u)
         \/ \E c \in Changes : Ask(p, c)
    \/ Restart

\* The handler goes on to its next event, the tab's event loop and the API run what is ready.
RealtimeFairness ==
    /\ \A c \in Changes : WF_realtimeVars(Emit(c))
    /\ \A p \in Pages : WF_realtimeVars(Runs(p))

RealtimeSpec == RealtimeInit /\ [][RealtimeNext]_realtimeVars /\ RealtimeFairness

-----------------------------------------------------------------------------
\* Pages hold answers of their queries and events of the server, and remember only
\* delivered event ids.
RealtimeTypeOK ==
    /\ committed \subseteq Changes
    /\ \A c \in Changes : due[c] \in 0..Len(Events(c))
    /\ \A p \in Pages : page[p] \in Page /\ Len(page[p].seen) <= MaxSeen

\* A page that is at rest shows every change of its rows that has been announced, unless the
\* announcement could not reach it: no race of events with fetches, no repeated event and no
\* event missing from the tables leaves a page behind.
QuietPageIsFresh ==
    \A p \in Pages :
        LET P == page[p]
        IN  P.user # NoOne /\ P.loaded /\ P.fetch = "none" /\ P.wire = <<>>
            => \A c \in Answer(p) : due[c] = 0 => c \in P.shown \cup P.gap

\* Every page catches up again and again, through any number of further events, new tokens and
\* fetches that start over: a committed change reaches it or could not.
CaughtUp(p) ==
    page[p].user # NoOne => Answer(p) \subseteq page[p].shown \cup page[p].gap

PagesCatchUp == \A p \in Pages : []<>CaughtUp(p)
=============================================================================
