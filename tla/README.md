# EnerMesh in TLA+

This directory specifies the EnerMesh marketplace: the off-chain order book, the
settlement of its matches against a blockchain, the smart contract that holds
the money (`packages/shared`, `apps/api`, `packages/contracts`), the accounts,
wallets, events and advice around them, and the parts of the web client
(`apps/web`) that pay, sign in and stay up to date. The modules are checked with
TLC on small instances; the safety properties that matter most are proved with
TLAPS for every value of the constants.

## 1. The system and its parts

| Part | State it keeps | Operations | Hard because |
|---|---|---|---|
| Matching and quantity rules (`packages/shared/src/matching.ts`, `quantity.ts`) | none | planning a bid's fills, resizing, filling | boundaries: last lot, minimum lot, zero |
| Order book (`listing.service`, `bid.service`, `matching.service`) | Listing, Bid, Match tables | create, read, patch, cancel, bid and match, rematch | some writes are in a serializable transaction with row locks, others are plain updates justified by an earlier read |
| Settlement (`settlement.service`) | Trade table, Match.status | `POST /trades/report`: purchase, settle, reject | a chain of awaits on stale reads, unique columns, a chain that answers late, crashes between two writes, clients that repeat themselves |
| Checkout in the browser (`review-trade.tsx`, `lib/trades.ts`, `lib/ethereum.ts`) | what the panel shows, keys and on-chain trade id in localStorage | pay, settle, decline, report, wait for the receipt, reload | the wallet, the chain and the API each answer late or never, and the page may be gone by then |
| Publishing in the browser (`publish-listing-on-chain.tsx`, `lib/listings.ts`) | what the panel shows, keys in localStorage | publish, decline, report, wait for the receipt, reload | as checkout, and any wallet may be selected while the offer moves |
| Smart contract (`EnerMeshMarketplace.sol`) | listings, trades, escrow counters, money | create, update, cancel, purchase, settle, refund, pause | the payee runs code during a transfer; counters kept beside the data they count |
| Listing on-chain mapping (`listing-chain.service`) | on-chain columns of Listing | report a created listing, reject | unconditional update of a stale row |
| Sessions and accounts (`auth.service`, `user.service`, `admin.service`) | refresh tokens, reset tokens, passwords, active flags | register, login, refresh, logout, change and reset a password, deactivate | rotation against reuse, revocation against issue, two administrators at once |
| Session in the browser (`auth-store.ts`, `api.ts`, `providers.tsx`) | one cookie, one store per tab | bootstrap, timed refresh, retry after 401, sign in and out | tabs share the cookie and nothing joins their refreshes |
| Wallets (`wallet.service`, `wallet-panel.tsx`) | wallet rows with nonces | challenge, verify, unlink | nonce consumed and row verified in two writes |
| Events (`socket/index.ts`, `notification.service`, `use-realtime.ts`, `realtime.ts`) | rooms, sockets, the queries a page has cached | write, emit, deliver, fetch again | events, fetches and older answers overtake each other; sockets drop, the API restarts |
| Pricing, AI advisor, IoT history (`price.service`, `ai.service`, `iot.service`) | energy readings | recommend a price, build an insight, simulate, list and summarise | one answer made of several reads while the data move; a model that may answer anything |
| Analytics (`analytics.service`) | none | sums over trades | which rows count |
| Reports, mailer, rate limits, API docs, other pages | | | section 7 |

How they interact: `createBidAndMatch` produces Match rows in the order book; a
participant pays for a match on chain (`purchaseEnergy`) from the purchase panel,
which reports the transaction hash, waits for the receipt and reports again;
settlement asks the RPC node, writes a Trade row and moves Match.status; later
somebody calls `settleTrade` from the settle panel and that is reported too.
Purchase reports need a verified wallet and the listing's on-chain id, which the
listing mapping writes from the `createListing` transaction that the seller's
publication panel sends and reports.
Analytics adds up Trade rows; pricing reads trades, listings and bids; an insight
reads both. Every write of the market emits an event, and a page that hears it
asks the API again. The database is the only state shared by API requests; the
contract shares nothing with the API but what its events show; the tabs of a
browser share the refresh cookie and localStorage.

What makes each part correct:

- order book: nothing is sold twice or lost; statuses agree with quantities;
  a match honours both sides' terms at the instant it is made; price-time
  priority; what is closed stays closed;
- settlement: what counts as traded was verified on chain; one payment counts
  for one match, once as a purchase and once as a settlement; a report repeated, late or dead half-way does no harm, and a
  verified purchase moves its match;
- checkout: a panel claims only what succeeded on chain, offers no second payment
  beside one it has heard of, and never stays busy; what is paid counts;
- listing mapping: a stored id is the contract's id of this very listing, never
  becomes another one, and is stored in the end if the listing is reported; a page
  shows no other id;
- contract: money held is money owed, each deposit leaves once, a cancelled
  listing holds none and is never reopened;
- sessions: a token or reset link works once; a new password ends the sessions
  before it; an active administrator is left; every request is answered;
- session in the browser: no page stays loading, and opening a page signs no
  other out;
- wallets: a challenge is consumed once, and an address is verified only after its
  holder gave a good signature for it;
- events: a page with nothing on its way shows what the database holds, and a
  page that stays connected catches up;
- advice: a price rests on trades, asks or bids that were there, and is withheld
  only if there were none; an insight claims the volume that was there, and calls
  its data insufficient accordingly; a history's summary is of the range its page
  is of.

## 2. Modules

| Module | Models | State and actions |
|---|---|---|
| `Matching` | `matching.ts`, `quantity.ts` | operators only; `matchBidAgainstListings` takes (`Take`) from the sorted listings one by one, a recursive function on their number |
| `Book` | the three order-book services | `listing`, `bid`, `matches` are the tables, `now` the clock, `req` the requests between a read and the write it justifies. What runs in `withSerializableRetry` is one action; a plain update after a read is a second action, which writes whatever the row says by then |
| `Ledger` | what the book promises, abstractly | lots and demands: offer, resize, trade, close |
| `Sums` | sums over a sequence and over a finite domain, for `Ledger`, `Book` and the contract | operators only |
| `EnerMeshMarketplace` | the contract | one action per function. A revert leaves no trace, so a `require` is a guard. `sendValue` leaves a pending `frame` with the storage before the call: until the payee returns or reverts, the functions that are not `nonReentrant` stay enabled, and a revert restores the frame |
| `Escrow` | what the contract promises, abstractly | deposit, then pay out once |
| `Settlement` | `reportTrade` and its helpers, `syncMatch`, and what analytics counts | `match`, `trade` are the tables; `req` a report in flight with everything it has read; `chain` the RPC's view; `live` and `mapped` what settlement reads of the order book and of the listing mapping. One action per await: `loadMatch`, `findExisting`, `findPurchase`, `queryChain`, `persistTrade`, `syncMatch`; `dies` at any of them |
| `Checkout` (extends `Settlement`) | the purchase and settle panels, composed with the API they report to | a click starts a `submit`, which awaits its reports; `panel` is what its page shows of it, whether it is busy and the trade last heard of. The button is open during the network check and the last report, so a panel may have two submits. `view` is the match status the page was given; `keyOf`, `stored` the localStorage; `signed` the wallet's transactions. Click, network check, approve or decline in the wallet, report, receipt, two-minute timeout, reload, refetch; an answer may be lost and the API may die |
| `ListingChain` | `reportOnChainListing` and its helpers | `listing` holds the on-chain columns, `req` a report in flight with the row it read, `chain` and `nextListingId` the contract's side, `book` the offer that verification compares. `findListing`, `findOthers`, `queryChain`, `persistOnChain`, and `misled` and `dies` for what fails |
| `Publication` (extends `ListingChain`) | the publication panel, composed with the API and the contract | `submit` and `tab` are what `submit` and `panel` are in `Checkout`; the transaction encodes the offer that the page showed at the click, and may come from another wallet than the seller's; rows come in answers, in errors and in fetches |
| `Sessions` | the account services and their middleware | `account`, `token`, `reset` are the tables, `expired` the tokens past their date, `req` a request with what it has read. One action per statement, with the locks of a transaction that has not committed (below); `runSerializable` may conflict and retry up to `MaxTries` times. A password is a version number |
| `WebSession` (extends `Sessions`) | the tabs of one browser | `cookie`, `tab`, and `call`, which says what a tab waits for. A call is a step of its own, and so are the statements it runs and its answer. Several refreshes of a tab may be on their way; answers may be lost, pages reloaded |
| `Wallets` | challenge, verification, unlinking | `wallet` rows, `challenge` and `accepted` per nonce, `signed` the nonces consumed by a good signature, `busy` requests between two statements |
| `Realtime` | writes, the events after them, sockets, and what a page shows | `committed` changes, handlers that have yet to emit, a socket queue per page, the query's fetch with what it has read; `gap` is what a page cannot have heard of. A handler that awaits between two events may throw there and lose the rest. Drops, reconnections and failed handshakes that are tried again, restarts |
| `Advice` | price, insight, energy history | the rows that are live, `was` and `kept` the rows that were so at some time and all the time since the question came, the question with the reads it has finished (of the pricing service, `Take` rows at most), the provider's output, the samples and a history request between its statements |
| `MCBook`, `MCMarketplace`, `MCSettlement`, `MCSettlementParts`, `MCCheckout`, `MCListingChain`, `MCServices` | instances for TLC | `MCListingChain` holds `Publication`, `MCServices` holds `WebSession`, `Wallets`, `Realtime` and `Advice` |
| `BookProofs`, `MarketplaceProofs`, `SettlementProofs` (with `Checkout`), `ListingChainProofs` (with `Publication`), `AccountsProofs` (`Sessions`, `WebSession`, `Wallets`), `RealtimeProofs`, `ServicesProofs` (`Advice`, and the instance `MCServices`) | theorems and their proofs | |
| `SumsProofs` | the lemmas about sums, over sequences, functions and sets, and about recursion that the others cite | |

Data are abstracted to what the properties tell apart. A quantity is an
integer number of thousandths of a kWh: request schemas accept multiples of
0.001 only, columns are Decimal(18,3) and `roundKwh` follows each operation, so
the program's numbers are these integers. A price is an integer, an energy type
with a market zone is one market, a hash names the purchase it carried out, a
token names itself. Pricing's weights are the code's factors in whole numbers.

`Sessions` goes below the transaction. At READ COMMITTED, the default, each
statement has a snapshot of its own and nothing is visible before the commit. The
change of a password is therefore three or four steps: the link is consumed
(`ResetConsume`), the account is updated and its live tokens are found
(`SetPassword`), its live links are found (`SeeLinks`), and all that was written
becomes visible (`PasswordCommit`). In between the transaction holds the rows it has
written, the account, the tokens and the link: a statement of another request that
needs one of them waits, which the model says by not enabling it (`AccountFree`,
`TokensFree`, `LinksFree`), and takes up the row as the commit left it. Inserting a
token needs no such lock, and reading none. Two that wait for each other are told so
by the database, and a wait that is too long ends: `Rollback`. The activation switch
is serializable and one step, which may abort instead (`AdminCommit`, `AdminAbort`).

Definitions named `x_Something` with a comment "Mutant" are plausible mistakes
in `x`, and each property is known to be violated by one of them; no
specification uses them.

## 3. Runs

Every run is exhaustive on its instance. An instance may have parts: a variable
`part`, chosen in the initial state, selects the part that an execution runs, so
one run explores several small instances of a module instead of their product.

| Run | Instance | Shows |
|---|---|---|
| `book` | clock 0..2, at most 3 matches, 2 bids. Part `orders`: 2 listings, the first one edited, 1 edit at a time, until time 1. Part `races`: 1 listing, 2 stale writes at a time, edits that resize it and extend its window | types, quantity identities, status against quantities, sold against match rows, no fill ever aborts, terms, price-time priority, refinement of `Ledger` |
| `book_expiry` | 1 listing, 2 requests | violation: a read expires a listing whose window was extended meanwhile |
| `marketplace` | 2 accounts, one an operator and admin; 2 listings, 2 purchases, words 0..2 | escrow count, no money in a cancelled listing, status against remaining, solvency, cancellation is final, refinement of `Escrow`; deadlock is checked |
| `settlement` | 2 reports in flight. Part `one`: one match paid for twice from two tabs, under one key, and settled. Part `two`: one payment reported for two matches, and declined. Part `keys`: one payment and its settlement, each reported under two keys, in a given order, since the two are alike | what counts was verified, SETTLED was paid out, a payment counts for one match and once in each role, a row keeps its transaction |
| `settlement_reject` | 2 matches that one payment fits, rejection under the purchase's key | violation: the payment counts for two matches |
| `settlement_sync` | 1 match, 1 report at a time, fairness | violation: a verified purchase never moves its match |
| `listing_chain` | 2 reports in flight. Parts `tabs` and `repeats`: l2 is reported with l1's transaction. `tabs`: l1 published twice from two tabs while its offer changes, no failures. `repeats`: l1's second transaction reported or declined again and again, up to 2 failures; fairness. `panel`: one page, two submits, one of them from another wallet, the offer changes once, no failures but lost answers | a stored id is this listing's own, never becomes another, and is stored in the end; a page shows no other id; deadlock is checked |
| `checkout` | 1 match, 1 browser with its purchase and its settle panel, payments p1 and p2, settlement s1, 4 keys. Part `pay`: one panel, one click after the other, at most two payments; a page reads the list of trades before it has heard of any, and shows it at once. Part `twice`: a second click beside the first, each with a payment of its own, of which the first may revert; the API lives and answers, and no list of trades arrives. Part `settle`: pays once and settles, nothing declined, lists arrive late; fairness | a panel shows only what succeeded, a page up to date offers no payment beside one it heard of unless one reverted, no panel stays busy |
| `checkout_retry` | the purchase panel, one submit, two payments, a patient user: no answer is lost, no page left while it works; fairness | violation: a payment after one that reverted is never counted |
| `navigation` | 2 tabs, each with one request at a time, 3 tokens, one account that signs in once nobody is; nothing expires or is lost; fairness | violation: a page is opened in one tab, and the other, which shows the session, is signed out |
| `sessions_password` | 1 account, 2 requests, 2 refresh tokens, 1 reset link, 2 changes of the password | violation: a token stored before the new password is in force outlives it |
| `services` | see below | sessions, wallets, events, advice and history |

The parts of `services`:

| Part | Instance |
|---|---|
| `sessions` | 2 accounts, requests of one of them: register, login, refresh, password change, forgotten and reset password, logout of all sessions begun while nothing else is under way; a token expires between two requests, a link at any time; 2 requests in flight, 3 refresh tokens, 2 reset links, 2 changes of the password |
| `admins` | both accounts administrators who switch each other on and off, and the sessions that follow from one login; 3 attempts per transaction |
| `web` | 2 tabs of one browser, 2 requests, reloads except of a signed-out tab, logouts with a good access token or none, answers lost on their way back, expiry between requests while both tabs are signed in; who signs in, between requests, is the second account while there is a cookie, else the first |
| `wallets` | 2 users, 1 address, 3 nonces, 2 requests, signatures good and bad |
| `events` | 1 page of either user that shows any of four queries, and only the changes that can make it stale together, each once; 1 event id remembered; drops, reconnections, restarts, a new token |
| `advice` | a market of 11 rows of which two come and go while a question is answered: the caller's own insight, the price of one market with a window, the view of an administrator; the pricing service reads 7 rows of a table at most, of 8 trades, all but one of others than the first caller |
| `history` | 4 readings, two of them a simulation that may stop midway; any page of two, in either order |

Why the bounds are enough for the cases aimed at. In the book: the offers hold a
lot under the minimum lot (last-lot rule), two prices (priority), two windows, and
bounds no listing may have; the edits resize an offer, move one to the other
market and extend a window; the orders cross both offers or aim at one; two bids
and two requests give every order of a stale write and a locked one; the quantity
of an offer allows a partial fill, a resize and a sell-out. In the contract two
purchases on one listing tell a counter from a flag, two listings separate
correlation ids, and `MaxWord = 2` makes the refund overflow, as the seller may
have raised the rest of a listing to 2 meanwhile. A purchase's product of quantity
and price always fits with the one price of the instance: what its check is for is
left to the proofs. In settlement two reports make every stale read and every
collision on a unique column; a third would repeat one of the roles; in part
`keys` both roles of a payment have two keys, so every row that could count a
second time is tried. In checkout two payments are what a second click, a reload
or a reverted first payment can add, and the fourth key is the one a declined
prompt rotates to. In publication two submits meet in one panel, and the second
wallet and the change of the offer are what verification must tell apart. For
sessions three tokens are a login and two rotations, so that a token that was
replaced can come back while its successor is replaced; two reset links let one be
consumed while the other is stored; in the parts a free request slot is as good as
another, so the first is taken; three attempts are the code's own number
(`admin.service.ts:42`). For wallets three nonces let a row be challenged,
unlinked and challenged anew under an answer in flight. One remembered event id
makes a duplicate be forgotten and seen again. Bounds in the guards are `MaxTime`,
`MaxMatches`, `MaxListings`, `MaxTrades`, `MaxOutages`, `MaxPassword`; the sets of
keys, hashes, tokens, nonces and ids bound the rest.

`CHECK_DEADLOCK FALSE` is set where the instance really stops: the book when
time, bids and listings are used up, settlement and checkout when every row is
final, services when tokens, nonces or changes are used up. The contract can
always be paused and unpaused and a listing always reported again, so there
deadlock is checked. Symmetry is used for requests in flight in `book` and
`settlement`, which have no liveness property.

### Fairness

Steps that an event loop schedules (a continuation of a request, of a click, of
an event handler) have weak fairness, timers have it where the code sets one, and
what people, chains and networks do has none unless said here.

`settlement_sync`: `FairSpec` assumes weak fairness of the steps of a report and
of each participant reporting again. `dies` has no fairness: nothing makes a
process stop, and nothing stops it from stopping. The run shows that one crash is
enough to strand the match although its purchase is reported for ever, because
the reports return at the CONFIRMED row without `syncMatch`.

`listing_chain`: weak fairness of the steps of a report; a client that wants an
answer repeats its report, and gets its turn among the reports of others (strong
fairness of `findListing`, since the model has few places for reports and others
may fill them). Failures of the API and its node are `MaxOutages` at most: a node
that is on the wrong network for ever maps nothing. The reporter's key and
transaction must be its own (`OwnReport`): a row of another listing that holds
them refuses the report.

`checkout`: weak fairness of what the page and the API have ready, and of the
two-minute timer of `waitForReceipt`. A wallet prompt may stay open for ever, so
a panel at its prompt counts as not busy. Transactions need not be mined. The timer
is read between two questions to the wallet (`ethereum.ts:199-206`): it bounds the
wait for a wallet that answers "not yet", and not one whose `request` never
returns, which the model assumes it does.
`checkout_retry` assumes that answers arrive (`PatientFairness`), to show that
the user did everything right; the transaction is required to have succeeded
by the property itself.

`navigation` and the sessions of `services`: each request goes on to its answer,
and an answer is received or lost, which the page takes for an error. For
`events`: handlers that have committed go on to emit, and a page that has an event
or an answer to process does so; `EventFairness` asks of the handlers together
what `RealtimeFairness` asks of each, so what holds under it holds under the
other. Nothing makes a socket reconnect.

## 4. Disagreements between code and documents

1. `docs/api.md:95`: a read expires the row "if its window has passed".
   `expireIfNeeded` writes by id from an older read (`book_expiry`).
2. `docs/database.md:29`: unique keys and hashes "prevent duplicate settlement
   rows". A late rejection that read the row before its hash was stored writes
   the hash away again, `txHash ?? existing.txHash`, and frees it
   (`settlement_reject`). With keys of its own for each action, as the web client
   has, it cannot happen (`settlement`, and section 5).
3. `docs/api.md:134`: a "Verified purchase moves it to `SETTLEMENT_PENDING`".
   Not if the process stops before `syncMatch` (`settlement_sync`).
4. `docs/deployment.md:187`: a payment goes "backend `POST /trades/report`
   verifies receipt/event → DB `CONFIRMED`". A payment that follows a reverted one
   is sent under the same key, which the reverted hash still holds, and every
   report of it is refused (`checkout_retry`). Only a declined prompt rotates the
   key.
5. `providers.tsx:35`: "so sessions survive navigation". A page opened in a second
   tab while the refresh of the first is on its way sends the same cookie; one of
   the two is a reuse, which revokes every token of the account, and the tab that
   loses is signed out (`navigation`).
6. `docs/api.md:72`: "Successful reset revokes all refresh sessions", and line 45
   "Change password and revoke all refresh sessions". Both transactions run at READ
   COMMITTED and revoke what their `updateMany` finds. A login that has passed its
   own update, or a refresh between its rotation and its insert, stores its token
   after that and before the commit, and the session goes on beside the new
   password (`sessions_password`).

Two more need no interleaving to show, and have no run. `docs/architecture.md:22`
says of analytics "They never invent volume"; a settled match has a CONFIRMED and
a COMPLETED row, `COMPLETED_TRADE` takes both and `analytics.service.ts:129-132` adds
both up, so that its quantity counts twice. `CountedOnceEach` says that it is never more
than that. And the model's instruction `ai.ts:16`, "Every caveat list must remind
the reader that the output is advisory", which the code enforces by adding a
reminder, is lost when the model returns six caveats of its own without one, since
`ai.ts:198` keeps the first six; caveats are not modelled.

Behaviour worth knowing that no text of the repository contradicts, or that is
too slight for a run:

- *Listings on chain.* A late PENDING, FAILED or REJECTED report drops a confirmed
  mapping, since the row is checked when it is read and overwritten by id;
  repeating the report restores the same id (`CreatedIsMapped`,
  `MappingNeverMoves`). A fill or an edit between `createListing` and its
  verification makes the report FAILED, and publishing again reverts, since the
  correlation id is used. The publish button stays open while a publication is
  PENDING. After a reload, or when the wait for the receipt has given up, nothing
  reports that publication again: a second `createListing` reverts, its report
  overwrites the first hash, and the listing stays unmapped
  (`publish-listing-on-chain.tsx:129`).
- *Settlement.* A match can be paid twice by one browser: the button is open while
  the network is checked (`review-trade.tsx:148`), so a second click opens a
  second prompt, and after a declined prompt the second payment has a key of its
  own. When the first then reverts, the match is FAILED although the second is
  acknowledged and PENDING, and a page opened anew offers a third
  (`HeardPurchaseLocks` promises no more than that). `syncMatch` lets a late failed settlement move a SETTLED match
  back to SETTLEMENT_PENDING. An API that dies between `persistTrade` and
  `syncMatch` leaves the match PROPOSED, and a reload then reopens the button over
  a confirmed purchase; a REJECTED row that is newer hides the purchase from the
  page; the on-chain trade id is kept only by the browser that paid.
- *Sessions.* A logout with the bearer of one account and the cookie of another is
  refused. A refresh in flight during a logout leaves a live session, and so does
  one that stores its token after the reuse of its predecessor was detected,
  although "refresh reuse revokes the user token family"
  (`docs/PROJECT_STATE.md:49`): the same late insert as in `sessions_password`. A
  login that checked the old password may store its token even after a reset has
  committed. Two reset requests at once, or one beside a reset, may leave a live
  link that the other did not see. No property covers these three.
- *Wallets.* The comment at `wallet.service.ts:91`, that the nonce "is consumed
  regardless of outcome", is not so for a message with another nonce. `VerifyClear`
  clears whatever challenge the row has by then. A row that was deleted and linked
  by another account between the check and the mark is marked verified for that
  account (`VerifiedByItsOwner`, stated in `Wallets` and not run).
- *Events.* After another account signs in through the shared cookie, the rows of
  the former one stay cached. Nothing is fetched again on reconnection, so what
  was announced in the gap is missed until another event. An event during the
  first load is lost. Reading a notification, unlinking a wallet and a window that
  closes announce nothing. `gap` collects exactly these cases.
- *Advice.* An insight that the model worded is MEDIUM whatever its facts are
  (`ai.ts:191`), also without a single trade, and so is a fallback when only others
  have traded (`ai.ts:128` wants both volumes empty). A
  simulation that fails midway leaves its first readings. A
  history that was empty when counted may list later readings over an empty
  summary.

## 5. Proofs

All theorems are checked by TLAPS down to the last leaf, for all values of the
constants that satisfy the named assumptions. Every invariant and every action
property that a passing run checks is proved, and both refinements; liveness is
not.

The provers take no induction rule that has a predicate as its parameter.
`SumsProofs` therefore proves a rule about a set of numbers (`SetInduction`, from
the well-foundedness of strict inclusion on finite sets), and from it that a
function defined by recursion on the numbers up to `n` exists and is what its
definition says (`RecursionExists`), what `Total` does when a sequence grows or one
element changes, and what `SumOver` does when one value is raised. With these the
folds of the planner and the sums of the ledger and of the contract are within
reach; the modules write them as recursive functions for that reason. For the sums
that `Advice` takes over sets it proves, by induction on the parts of a finite set
(`PartInduction`), that the fold of the community modules, which removes whichever
element it chooses, adds up a function over the set (`SumsUpIsPart`), that disjoint
parts add up and that a smaller part has no greater sum.

### The order book (`BookProofs`)

Assumptions: `BookAssumption` (request bodies have passed their schemas, bounds
are naturals, the tables have finitely many ids), `NoneAssumption`.

`QuantityIdentityHolds`, `StatusTellsQuantityHolds`. The inductive
invariant `IInv` says that each listing and bid row is of its type, intact (the
identities) and that its status fits its numbers, and that each request in
flight is of its shape. `TypesHold` needs `AccountsInv` (below) as well, since it says
of every match row that its listing and its bid exist. Status and identity must be proved together: an edit
leaves the status alone, so it keeps a row sound only because an editable row
had something left and the edit asks for a positive quantity.

`NoFillAbortsHolds`, `TradeTermsHold`, `PriceTimePriorityHolds` rest on what the
planner returns (`PlanMade`): by induction on the listings looked at, each fill is
of a compatible listing, once, for the lot that was left, in the order of the
sort, and whatever was passed over could not supply what was then open.
`SoldIsMatchedHolds` adds `AccountsInv`, that rows and match rows agree in their
sums; it is inductive only beside `IInv`. `LedgerImplemented` maps each kind of
write (`Lists`, `Edits`, `Fills`, `Closes`, which every handler is shown to be one
of) to a step of `Ledger`.

### The contract (`MarketplaceProofs`)

Assumption: `MarketplaceAssumption`. `TypesHold`, `EscrowCountHolds`,
`CancelledHoldsNoEscrowHolds`, `StatusTellsRemainingHolds`, `ExternalIdHolds`. The
invariant `Good` of a storage is stated for any listings and trades, because it is
needed twice: of the storage now and of the one kept in `frame`, which a reverting
transfer restores. It strengthens the properties by positive trade quantities (a
refund must leave something in a listing it reopens), by finite sets of unsettled
trades (their number is a cardinality) and by `externalIdUsed` covering every id in
use.

`SolventHolds`, `CancelIsFinalHolds`, `EscrowImplemented` need `MoneyInv`, which
relates the two storages of a transfer: each balance accounts for the trades that
are open in it, the current one is the saved one with one open trade paid out
(`Pays`), and what the saved one had cancelled is cancelled in both. The refinement maps the committed storage,
so a transfer is one payment at the moment it returns.

### Settlement and checkout (`SettlementProofs`)

Assumptions: `SettlementAssumption` (report bodies have passed their schemas and a
settlement names a purchase), `NoneAssumption`, and `CheckoutAssumption` for the
panels. `TypesHold` and `ConfirmedIsVerifiedHolds` hold for every execution, and
`CountedOnceEachHolds` too, while `KeyKeepsHashHolds` and `OnePurchaseOneMatchHolds` hold under `RejectsHaveOwnKeys`, that
no rejection is reported under the key of a purchase or settlement. Two invariants
carry them. `IInv` says that each row was verified if it counts and that, for each
report in flight, the write it is about to make was; a report may act on what it
read long ago because success on chain is final. Beside it `UInv`, that no two rows have
a transaction in common (the unique column) and that the contract pays a purchase
out once, gives `CountedOnceEach`: two rows in one role for one payment would show
one transaction. `KInv` needs the condition: a row
has a hash exactly if its key is no rejection's, a row found by hash or key is of
the report's own match and hash, and a COMPLETED row stands beside a row of the
purchase it settles. It follows that no write changes the hash or the match of a
row (`Keeps`), which is what two racing reports could have done. The condition is
the difference between the runs `settlement` and `settlement_reject`: where it
fails, so does the theorem.

`SettledIsVerifiedHolds` holds under `SettlesAreTheirOwn`, that no settlement is
reported with the key or the transaction of anything else: a settlement that
collides on a unique column is handed the row that is there, and if that were a
confirmed purchase, `syncMatch` would move the match to SETTLED. The invariant
`SInv` adds to `IInv` that rows under a settlement's key are settlements and are
not CONFIRMED, that a settlement about to write or to move its match carries
such a row, and that a COMPLETED row in its hands was paid out (`PaidOut`).

`CheckoutIsSettlement`: every step of `Checkout` is a step of `Settlement` or leaves
its variables alone, so all of the above holds of the composition too.
`ShownIsVerifiedHolds` then has to show that no answer, from the list or from a
report that was overtaken, gives a panel a status whose transaction did not
succeed; the invariant asks it of each panel, that `newest` lists only keys that
have rows, and that a declined prompt finds a key not yet used (`KeysSuffice`).

`CheckoutKeepsHash`, `CheckoutSettledIsVerified`, `HeardPurchaseLocksHolds` need to know
what a key was made for. `HInv` says that some assignment of the keys to purchase,
settlement and rejection agrees with every browser's storage, every report in
flight and every row (`KeysInv`); that rows and reports carry transactions that were
signed, of their kind, and are FAILED for a purchase only if one reverted
(`ReportsSent`, `SubmitsPrepared`); and that once the API acknowledged a purchase the match stays
moved unless a signed purchase reverted (`MatchTells`). The first two theorems then
hold without the conditions above: the web client's keys meet them. The third is
an action property: the step that opens the button on a page up to date finds the
match moved, or a reverted purchase.

### Listings on chain (`ListingChainProofs`)

Assumptions: `ListingChainAssumption`, and `PublicationAssumption` for the pages.
`TypesHold`, `MappingIsVerifiedHolds`, `MappingNeverMovesHolds`. A report overwrites
all on-chain columns at once, so the invariant asks the same of a row and of every
write that a report in flight is about to make (`RowOK`). With it goes the
contract's promise that it creates a listing once (`ChainOK`, which
`MarketplaceProofs!ExternalIdHolds` proves of `EnerMeshMarketplace`), from which it
follows that two verified ids of one listing are the same. `ShownIdIsOwnHolds`
carries `RowOK` on to the rows that pages hold, through answers, errors that
contain a row, and fetches.
`PublicationMapping` and `PublicationNeverMoves` say of the reports
that the pages make up themselves, with keys they draw and transactions the wallet
signed, what the two theorems above say of any given set of reports.

### Accounts and wallets (`AccountsProofs`)

`SessionsAssumption` (there is an administrator, `MaxTries` is positive):
`SessionTypes`, `TokensRedeemedOnce`, `LastAdminStays`, for
any numbers of accounts, tokens and requests. The invariant adds to the types that
each id in a request's hands was issued (`Known`, `Issued`), that a token is
redeemed by at most one request, the one that found it live (`OneRedeemer`), that a
live reset link has not been used (`LinksFresh`), that a transaction which has consumed
a link is the only one that has, the link being live for all others until it
commits (`PaysOnce`), and that a transaction about to
switch an administrator off has seen another one active (`AdminsKept`).
`AdminsKept` is inductive because the transaction is serializable: it commits only
if what it counted still holds.

`WebIsSessions`, `WebTypes`: a tab presents only the cookie, which is a token that was
issued or none, so each of its steps is a request, a statement or an answer of
`Sessions`, or leaves the API alone.

`WalletsAssumption`: `WalletTypes`, `NonceConsumedOnce`, `VerifiedAfterSigning`. A nonce stored in a
row has not been consumed (`StoredIsOpen`), one not yet issued is nowhere
(`UnusedIsNew`), and a request that is about to mark an address carries the fact
that the holder's good signature of a challenge for it was accepted, which no later
unlinking takes back.

### Events (`RealtimeProofs`)

`RealtimeAssumption` (a tab remembers at least one event id; the code's number is
250). `RealtimeTypesHold`, `QuietPageIsFreshHolds`. The invariant `RInv` accounts for
every committed change that alters what a page shows (`Safe`): it is on the page or
in the answer that is on its way, the page is about to ask, it is in `gap`, or an
event of it is still to come, unemitted or in the socket's queue with an id that is
not remembered, that is sent to this user and makes this query ask. The last case
needs two facts: only emitted ids are remembered, so forgetting and repeating ids
does no harm, whatever the size of the memory; and no entry is missing from the two
tables, which is the lemma `EventForQuery`: every kind of change that alters an
answer has an event with that query among its keys and that user in its rooms.

### Advice, and the services together (`ServicesProofs`)

`AdviceAssumption` (rows and readings are finitely many, each with a positive
quantity and weight; a simulation drafts its readings in time order).
`AdviceTypes`, `PriceIsBackedHolds`, `InsightIsHonestHolds`, `HistoryIsSummarisedHolds`.
The invariants are about what each read has seen: `AskInv`, that the rows a question
has read fitted it and were live since it arrived, that the analytics have seen all
of the caller's that stood all along (`SeesOwn`) and the pricing service, which stops
after `Take`, at least one of a kind that did (`SeesSome`); `ListInv`, that readings only
come, so that those counted and those on the page are among those summarised. The rest
is arithmetic on what was read. `PriceBetween`: the weighted mean has a positive
denominator, the blend with the best ask and the best bid may leave the range of
prices and is clamped, and rounding does not leave it. `VolumeOf`: fewer rows have
no more volume, and no volume means no trade, since every quantity is positive,
so that the volume of an insight lies between those of `kept` and of `was`.
`SummaryCovers`: the labels part the readings, so their sums share the total out.

`PartsAreServices` takes the instance `MCServices` back to its components: under
`ServicesAssumption` (the named users and markets are among those of the modules)
each step of it is a step of one and leaves the others alone, so that what is proved
of `WebSession`, `Sessions`, `Wallets`, `Realtime` and `Advice` holds of what TLC
explores. Its invariant is that no tab waits for an answer in the parts without a
browser. `ServicesTypesHold` follows.

### Only model-checked

`CreatedIsMapped`, `NoPanelWaitsForever`, `NothingWaitsForever` and `PagesCatchUp`, since
liveness under fairness is out of the prover's reach; and the six violations, which
are counterexamples of one instance each.

## 6. Plan

1. A composition of book, contract and settlement on one listing: what is
   CONFIRMED off chain is in escrow or paid out on chain.
2. Profile and settings updates beside the password change they share rows with.

## 7. Not modelled

Reports, mail, rate limits, health checks, OpenAPI documents and the remaining
pages: they read the tables the modules describe or do I/O, and change nothing
the properties speak of; a report's volume is that of analytics. JSON-RPC and ABI
decoding: the chain's answers are nondeterministic, and success on chain is not
reorganised away. The audit log and the texts and counters of notifications.
Profile, preferences and a wallet's `isPrimary`, which nothing reads for a
decision. Authorisation of strangers: a request that is refused changes nothing.

In `Settlement`, a listing's window can only close; an edit already in flight that
reopens it is left out; a listing's on-chain id is there or not, and never
another one, which `MappingNeverMoves` justifies. In `ListingChain` the seller's
verified wallets do not change. In `Checkout` every wallet is verified, the node
answers truthfully and the listing is published once, so that a report fails only
for what its transaction is; amounts and gas are left out. In `Publication` the
panel is the owner's, and connecting the wallet is one step with the network
check, as in `Checkout`. In the contract, roles
are constants. In `Publication`, `persistOnChain`'s look at the row after a unique
violation is in the step of the write that failed; the instance `listing_chain` does
not reach the branch that hands the row back. In `Sessions`, hashing is exact, the
server's clock is the set of tokens that have expired, and the update of an account
and the snapshot of the statement after it are one step, which leaves nothing out,
as what is stored between the two is in the snapshot either way. In `Advice`,
percentiles, series and caveats are left out, recency is a constant weight of a row, the
spread that a confidence is scored by is taken without the weight of the window,
and an insight is of the market or of the caller, not of one listing or bid.
