----------------------------- MODULE MCServices -----------------------------
(***************************************************************************)
(* The instance of the services beside the market that TLC checks: the     *)
(* accounts (Sessions, WebSession, Wallets), the events (Realtime) and the *)
(* answers that change nothing (Advice).  They share no state but the      *)
(* account, so an execution runs one part: what can disturb each other.    *)
(***************************************************************************)
EXTENDS WebSession, Wallets, Realtime, Advice

CONSTANTS Alice, Bob, Carol

ASSUME ServicesAssumption ==
    /\ Alice \in Accounts /\ Bob \in Accounts
    /\ Alice \in Actors /\ Carol \in Actors
    /\ {"north", "south"} \subseteq Places

VARIABLE part

mcVars == <<vars, walletVars, realtimeVars, adviceVars, part>>

Parts == {"sessions", "admins", "web", "wallets", "events", "advice", "history"}

-----------------------------------------------------------------------------
(* Accounts *)

\* Alice holds the key of every address; Bob may ask for a challenge all the same.
HolderAlice == [a \in Addresses |-> Alice]

\* Sessions, passwords and reset links of one account.  A logout is one of all its sessions (the
\* tabs of WebPart end the one of their cookie) and starts while nothing else is under way.
SessionRequest(r) ==
    \/ Login(r, Alice) \/ ChangeRead(r, Alice) \/ ForgotRead(r, Alice) \/ RegisterRead(r, Alice)
    \/ \E t \in TokenIds : RefreshRead(r, t)
    \/ \E k \in ResetIds : ResetRead(r, k)
    \/ Running = 0 /\ Logout(r, Alice, None)

\* Two administrators who switch accounts on and off, and a session of one of them.
AdminRequest(r) ==
    \/ \E actor, u \in Accounts, active \in BOOLEAN : AdminPatch(r, actor, u, active)
    \/ Unissued = TokenIds /\ Login(r, Alice)
    \/ \E t \in TokenIds : RefreshRead(r, t)

Step(r) == Serve(r) \/ Answered(r)

\* Requests are alike: the next one takes a given free slot.
Takes(r) == req[r] = Idle /\ r = CHOOSE q \in Requests : req[q] = Idle

\* A refresh token expires between two requests: its date is only read when one starts.
ApiPart ==
    /\ \/ \E r \in Requests :
            \/ Takes(r) /\ part = "sessions" /\ SessionRequest(r)
            \/ Takes(r) /\ part = "admins" /\ AdminRequest(r)
            \/ Step(r)
       \/ \E k \in Expiring :
            part = "sessions" /\ (k \in TokenIds => Running = 0) /\ Expire(k)
    /\ UNCHANGED webVars

\* Two tabs of one browser, two accounts, of which Bob's signs in while the cookie of Alice's is
\* there; a signed-out tab is not reloaded, and all that happens elsewhere is an expiry, between two
\* requests of two signed-in tabs.
SignsIn(r) == Running = 0 /\ req'[r].user = IF cookie = None THEN Alice ELSE Bob

WebPart ==
    \/ \E r \in Requests : Takes(r) /\ Sent(r) /\ (req'[r].at = "stamp" => SignsIn(r))
    \/ \E r \in Requests : Receive(r) \/ (req[r].at = "reply" /\ Lost(r))
    \/ \E b \in Tabs : tab[b].status # "unauthenticated" /\ Reload(b)
    \/ \E r \in Requests : (Step(r) /\ (req[r].at = "reply" => call[r] = NoCall))
                              /\ UNCHANGED webVars
    \/ \E k \in Expiring :
          /\ Running = 0 /\ \A b \in Tabs : tab[b].status = "authenticated"
          /\ Expire(k) /\ UNCHANGED webVars

-----------------------------------------------------------------------------
(* Events: each kind of change once; in an execution a page shows one query    *)
(* and only those changes happen that can make it stale together.              *)

KindItself == [c \in Changes |-> c]
OwnerBob == [c \in Changes |-> Bob]
SellerAlice == [c \in Changes |-> IF c \in {"match", "trade", "listing"} THEN Alice ELSE Bob]

Stales(query) ==
    CASE query = "matches" -> {{"match"}, {"trade"}, {"listing"}}
      [] query = "listings" -> {{"match"}, {"listing", "bid"}, {"energy"}}
      [] query = "wallets" -> {{"wallet", "unlink", "challenge"}}
      [] query = "notifications" -> {{"note", "read"}}

EventPart ==
    /\ RealtimeNext
    /\ \A p \in Pages : \E g \in Stales(page[p].query) : committed' \subseteq g

-----------------------------------------------------------------------------
(* The market: trades of others, an ask and a bid that stay, and a trade of  *)
(* Alice and an ask that move.                                               *)

MarketRows ==
    LET order(kind, price, kwh, place, overlaps) ==
          [kind |-> kind, price |-> price, kwh |-> kwh, place |-> place, seller |-> Bob,
           buyer |-> Alice, recency |-> 1, overlaps |-> overlaps]
    IN  [r \in Rows |->
           CASE r = "t0" -> order("trade", 5, 2, "north", TRUE)
             [] r = "a1" -> order("ask", 8, 1, "north", FALSE)
             [] r = "b1" -> order("bid", 3, 4, "north", TRUE)
             [] r = "a2" -> order("ask", 20, 30, "south", TRUE)
             [] OTHER -> [order("trade", 6, 20, "north", TRUE) EXCEPT !.buyer = Carol]]

Moving == {"t0", "a1"} \cap Rows

\* The market moves only while the question is answered: before, any state of it is the first.
AdvicePart ==
    \/ ask.at = "reading" /\ \E r \in Moving : Moves(r)
    \/ Asked(Alice, Anything, FALSE) \/ Asked(Alice, "north", TRUE) \/ Asked(Carol, "south", FALSE)
    \/ \E s \in {"pricing", "analytics"}, k \in Kinds : ReadTable(s, k)
    \/ \E o \in {"model", "fallback"} : Provider(o)
    \/ Taken

Samples4 == [s \in Samples |->
    [kwh |-> s, label |-> IF s > 2 THEN "SIMULATED" ELSE "ACTUAL", at |-> s]]

LastTwo == <<3, 4>>

-----------------------------------------------------------------------------
\* Weaker than RealtimeFairness: some handler goes on.  TLC is faster with fewer conditions.
EventFairness ==
    /\ WF_realtimeVars(part = "events" /\ \E c \in Changes : Emit(c))
    /\ \A p \in Pages : WF_realtimeVars(part = "events" /\ Runs(p))

MCInit ==
    /\ part \in Parts
    /\ Init
    /\ WalletsInit
    /\ RealtimeInit
    /\ AdviceInit
    /\ part = "sessions" <=> account[Alice] = None
    /\ account[Bob] # None
    /\ part # "events" => \A p \in Pages : page[p].query = CHOOSE q \in Shown : TRUE
    /\ IF part = "advice" THEN live \subseteq Moving \/ Rows \ Moving \subseteq live ELSE live = {}

MCNext ==
    /\ UNCHANGED part
    /\ IF part \in {"sessions", "admins"} THEN ApiPart
       ELSE IF part = "web" THEN WebPart ELSE UNCHANGED vars
    /\ IF part = "wallets" THEN WalletsNext ELSE UNCHANGED walletVars
    /\ IF part = "events" THEN EventPart ELSE UNCHANGED realtimeVars
    /\ IF part = "advice" THEN AdvicePart
       ELSE IF part = "history" THEN Metering ELSE UNCHANGED adviceVars

MCSpec == MCInit /\ [][MCNext]_mcVars /\ Fairness /\ EventFairness

-----------------------------------------------------------------------------
\* The type invariants of the five modules.
ServicesTypeOK ==
    SessionsTypeOK /\ WebTypeOK /\ WalletsTypeOK /\ RealtimeTypeOK /\ AdviceTypeOK

\* Nobody waits for ever: every request of the account services is answered, an administrator's
\* after MaxTries conflicts at most, and a page that asks for a session, or signs in, stops
\* loading one way or the other.
NothingWaitsForever == RequestsAreAnswered /\ NoTabWaitsForever
=============================================================================
