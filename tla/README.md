# Verification of the MaliHub marketplace

MaliHub Kenya is a marketplace: a Next.js application (`src/src`), a FastAPI
backend for chat, commission and health (`src/backend`), one Postgres database
reached through Prisma and SQLAlchemy, and Redis. Its server code runs in
stateless request handlers that read, decide and write in separate statements,
at READ COMMITTED, so every interleaving of their statements can happen; its
pages hold state of their own and get answers late, twice or never. The modules
here model the parts where that decides whether money, stock, access and
messages come out right.

## 1. Inventory

| Component | State | Operations | What is hard | What makes it correct |
| --- | --- | --- | --- | --- |
| Order and payment state machines (`lib/order-state-machine.ts`, `lib/payment-state-machine.ts`) | none (tables) | the checks of a transition | the status checked may be stale | statuses move along the tables at the write |
| Payment settlement (`services/payment-*.ts`, `api/payments/paystack`) | `Payment`, `PaymentEvent`, `Order.status`, audits | initialize, webhook, verify | duplicated and lost callbacks, a status check racing them, crash between claim and order transition, several attempts | one effective success, PAID is backed by money, every event on record, nothing left half-way |
| Checkout, cancellation, stock (`modules/orders/service.ts`, `order-transition-service.ts`) | `Product.quantity`, `Order`, `OrderItem`, `CartItem` | `checkoutCart`, `cancelOrder`, `markOrderPaid` | double click, last unit, rollback and retry, lock order | units conserved, an order is the cart at commit, every checkout ends |
| Order handover (`order-transition-service.ts`) | `Order.status`, audits | `markOrderFulfilled` | seller, buyer and cancellation at once; death after the commit | each step once, in order, by the right side (no route or button calls it yet) |
| Cart (`services/cart-service.ts`) | `CartItem` | add, update, remove | absolute sums written from an old read | a removed line stays removed, never more than listed |
| Listings, moderation (`modules/catalog/service.ts`, `admin-service.ts`) | `Product.status`, counters, `Seller.verificationStatus` | create, edit, publish, archive, sell, delete, moderate, verify; favourite, view | unconditional writes of a status read earlier | whoever brings a listing on sale was entitled to |
| Categories and sellers (`admin-service.ts`) | `Category`, `Seller` | create, edit, delete | counted, then deleted | no dangling rows, ordered listings stay |
| Payment screen (`use-paystack-payment.ts`, `checkout-view.tsx`) | phase, popups, timers | pay, poll, check | answers out of order, several chains of timers, cancelled elsewhere | success only of collected money, polling ends |
| Supplier fulfilment and purchase (`dropshipping-fulfilment-service.ts`, `-purchase-service.ts`) | tasks, event keys, purchases, shipment | ensure, transition, purchase | used keys, retries, two services on one task | task and purchase tell one story, no item forgotten |
| Supplier returns and protection (`dropshipping-return-service.ts`) | returns, refunds, one case per order | request, decide, refund | several returns share one case | decisions are final, no case left open |
| Supplier catalogue (`api/admin/supplier*`, `api/seller/supplier-products`) | suppliers, products, verifications, snapshots | review, verify, import, recalculate | review and verification race | nothing is sold on unverified costs |
| Pricing and commission (`lib/dropshipping/pricing.ts`, `commission_service.py`) | rules by scope and date | resolve, estimate, settle | two languages, overlapping rules, rounding, signs | the figure of the settlement is one a quote may give, margins have the right sign |
| Supplier desk (`supplier-catalog-view.tsx`, `supplier-fulfilment-board.tsx`) | filters, dialog, board | search, page, preview, import, move | stale answers, lost answers | the list, the figures and "done" are of what was asked |
| Accounts, sign-in (`account-provisioning.ts`, `lib/auth`, `(auth)/actions.ts`) | `User`, `Profile`, provider identity | sign up, sign in, claim, complete, guard | two first sign-ins, database outage | fail closed, no seller without a shop |
| Session activity (`lib/auth/session-activity.ts`) | last activity | enforce | slow requests | the record is monotone |
| Account recovery (`(auth)/actions.ts`, `lib/auth/neon.ts`) | codes, reset tokens | send, resend, verify, reset | outage, lost answers, late mail | what is said is so |
| Seller invitations (`admin-seller-onboarding-service.ts`) | invitation row | activate, resend | rotation under an activation, stale claims, crash | one claimant, with the current link |
| Chat connection (`lib/chat/ws-client.ts`) | socket, timers, attempts | subscribe, connect, retry | callbacks of connections nobody owns | a listening tab is never forgotten, bounded reconnects |
| Chat hub (`chat_realtime.py`, `endpoints/chat.py`) | tickets, rooms, presence | accept, join, leave, relay | several processes, Redis keeps nothing | one socket per ticket, heard once, by all in the room |
| Chat messages (`chat-service.ts`, `chat-thread.tsx`) | rows, thread on the page | send, edit, delete, read, block, load older | events late, twice, out of order, between pages | pages join up, shown once, no false read mark |
| Rate limiting (`rate_limit.py`) | Redis sorted set | hit | clocks of callers, lost set, lost answers | at most the limit per window, refused with cause |
| Backend authentication (`security.py`, `identity.py`) | key cache | verify, resolve, gate | rotation, outages, account changed under the call | no good token gets 401, nobody else gets in |
| Backend instance (`main.py`, `health.py`, `middleware.py`) | pools, relay task | boot, probe, answer, stop | dependencies come and go | ready means ready, one answer, nothing left open |
| Picture uploads (`api/avatar/upload`, `api/uploads/images`, forms) | assets, profile picture, grid | upload, save, remove | several tabs, failed writes, old lists | a shown picture exists, grid within its limit |
| Checkout page (`checkout-view.tsx`, `api/orders`, `delivery-estimate`) | the form, fee and order requests | edit, estimate, tick, pay | late estimates, another tariff, lost answers, two tabs | the order costs the delivery that was ticked, a line is ordered once |
| Cookie consent (`lib/cookie-consent.ts`, `components/cookie-consent.tsx`) | `localStorage`, a cookie, every tab | answer, withdraw, hear | full or blocked storage, other tabs, one copy lost | the answer survives, and no tab that has read it measures against it |
| Notifications (`notifications/service.ts`, `notification-bell.tsx`, the centre) | `Notification`, the bell, the centre | notify, poll, mark, mark all | two statements of a poll, answers in flight, death before the email | an email has its notice, the bell is right in the end |
| Payment providers of the backend; supplier enquiries; search, audit, storage, backend email; other pages | rows, registries | | no protocol of their own | |

How they interact. Checkout turns a cart into PENDING orders and takes the stock.
Initialize opens a Paystack transaction for an order. Webhook and verify claim the
payment in one transaction under the order's advisory lock, and in a second one
move the order to PAID; then, best effort, they write audits and create the
supplier tasks. Cancellation competes with both for the PENDING order and gives
the stock back. The seller's and buyer's handover steps start from PAID. Sellers
get there by an account, a verification and listings, their own or imported
from the supplier catalogue. Chat messages are written over HTTP, published to
Redis, relayed by the hubs and shown by threads; every call to the backend passes
its instance, its limiter or its gate.

Interactions across modules are modelled where one component decides what another
may do: payments, orders and the creation of supplier tasks in `PaymentSettlement`;
cart, listings, orders and stock in `CheckoutInventory`; listings and seller
verification in `ListingLifecycle`; tasks, purchases and the shipment of an order in
`SupplierFulfilment`, whose transition table `SupplierDesk` builds on; session,
account and guards in `Accounts`; relay and process in `BackendInstance`.

## 2. Modules

| Module | Models |
| --- | --- |
| `LifecycleRules` | the two transition tables |
| `OrderPayment` | abstract: what the payment surface promises of one order |
| `PaymentSettlement` | the initialize, webhook and verify handlers, Paystack, cancellation, crashes |
| `CheckoutInventory` | checkout, cancellation, payment, cart and listing edits, row locks |
| `OrderFulfilment` | the steps of a paid order, their claims and announcements |
| `SupplierFulfilment`, `SupplierReturns`, `SupplierCatalog`, `DropshippingPricing`, `SupplierDesk` | dropshipping, composed in `MCDropshipping` |
| `Cart`, `ListingLifecycle`, `ListingEngagement`, `MarketDirectory`, `PaymentScreen` | the catalogue and the buyer's pages |
| `Accounts`, `SellerInvitation`, `SessionActivity`, `AccountRecovery` | people |
| `ChatConnection`, `ChatHub`, `ChatMessages`, `RateLimit` | chat |
| `BackendAuth`, `BackendInstance`, `PictureUploads` | the platform |
| `CheckoutForm`, `CookieConsent`, `Notifications` | what a buyer's browser keeps, composed in `MCStorefront` |
| `MCPaymentSettlement`, `MCCheckoutInventory`, `MCDropshipping`, `MCMarketplace`, `MCStorefront` | small instances; the last three are described in section 3 |
| `PaymentSettlement_proofs`, `CheckoutInventory_proofs`, `Dropshipping_proofs`, `Catalogue_proofs`, `People_proofs`, `Platform_proofs`, `Marketplace_proofs`, `Storefront_proofs` | theorems, for all constants |

Conventions. One action is one database statement or transaction, or one call to
another service, with everything the code does before the next such point. What a
handler has read is kept in a record with its next step, `pc`. A lost request, a
process that dies and an error that is caught are actions or disjuncts of their
own. Names are the source's.

### PaymentSettlement

`h[p]` holds a handler's next statement, the attempt it works on, how it came to the
order transition (`mode`) and what that reported (`anomaly`). `payment` and `event`
are the rows; `paystack` is what Paystack knows; `acked`, `audited`, `flags` and
`tasks` record what the outside world was told.

* `InitialiseReadOrder` ... `InitialisePersist`: the route's five steps. Lookup
  and insert are separate, with no lock in between, as in the code.
* `WebhookArrive`, `WebhookCorroborate`, `WebhookRefuse`, `WebhookClaim`,
  `WebhookRecover`: the numbered steps of `handlePaystackWebhook`. `WebhookClaim`
  is one action because event row and claim are one transaction under the
  advisory lock. Event ids are unique, so there is one event per attempt.
* `VerifyReadSnapshot`, `VerifyLoad`, `VerifyAsk`, `VerifyFail`, `VerifyClaim`: a
  status check.
* `PayReadOrder`, `PayClaimOrder`, `SettleBreadcrumbs`, `SettleFanout`: step two
  of the settlement, shared. The read of the order and its conditional update are
  two actions: under READ COMMITTED another transaction may commit in between.
* `Crash(p)` loses a handler between two statements; a failed fan-out is a fault
  of `SettleFanout`. `FaultKinds` and `MaxFaults` say which and how many.

Abstractions: amounts and currencies are only "exact" or not (`mispaid`); other
event types than `charge.success`, bad signatures and malformed bodies write
nothing and are left out; the audit write itself does not fail; one order, because
nothing of two orders meets.

### CheckoutInventory

A transaction is split into its statements. A row it has updated stays locked
until it ends and its writes become visible when it commits: the locks are read
off the progress of the transactions (`ProductHolders`, `CartHolders`,
`OrderHolders`), and `stock` holds committed values. `NextLine` is the order in
which the code updates the product rows: sorted by id, then grouped by seller.
`LoseCheckout` and `LoseCancel` roll a transaction back. `OrderNumberCollides` is
the retry of the whole transaction, at most twice. Listings are ACTIVE or not;
prices are left out.

### Dropshipping

* `SupplierFulfilment`: `ensure` walks the items in any order, skips or records an
  exception, and creates the task with its opening event. `move` reads the task and
  commits status, event key and side effects in one transaction; a key that is
  already used undoes the move and counts as done. `buy` confirms, fails or
  reconciles the purchase. A retry resets the task; the bound is `MaxRetries`.
* `SupplierReturns`: a request and a decision each read, then commit; the case is
  read with them and written without a condition. A refund is settled by Paystack.
* `SupplierCatalog`: reviews, verifications and imports in their reads and writes;
  a recalculation walks the sellers' snapshots. A cost of 0 stands for the figure a
  product was submitted with.
* `DropshippingPricing`: the estimate of the shop (TypeScript BigInt, truncating
  division) and the commission of the backend (Python `Decimal`), in cents and basis
  points, over a table of rules that changes by the day. Of several rules of one scope in
  force at once the backend takes the one that began last, the shop whichever the query
  returns first: any of them. A quote passes the product's category
  (`Estimates(TRUE)`), the recalculation after a change of cost does not.
* `SupplierDesk` EXTENDS `SupplierFulfilment` for its table. Requests under way are a
  sequence, so that `overtaken` can say that answers came in another order.

### The marketplace around the order

* `Cart`: one line of one buyer; adds, updates and removals read the listing, then
  the line, then write. A row that was deleted and made again has a new id.
* `ListingLifecycle`: every seller request is a read and an unconditional write;
  administrators may create listings without verification, and get a seller row for it
  (`StaffLists`, `ProvisionSeller`); moderators check the status they have read; `WriteVerification` and `WriteRole`
  are two statements, as in the code.
* `ListingEngagement`, `MarketDirectory`: look-up or count, then a transaction; what
  the foreign keys refuse is a disabled write.
* `PaymentScreen`: an answer is fixed when the server reads (`Answered`) and applied
  when it arrives (`...Arrives`). Timers that were overwritten still fire. A payment may be
  collected for an order that is PENDING or was cancelled (`Collected`). Left out: an order
  that is shipped while its latest attempt is a superseded one, and `router.refresh`.
* `OrderFulfilment`: read and claim are two actions because the status may change
  between; `journey` is the history of committed moves. Nothing calls `markOrderFulfilled` yet:
  it is "deliberately not wired to a route or a button" (`order-transition-service.ts:524-526`).
* `Accounts`: one email, its identities one after the other, and its row.
  `FindMapped` ... `Fill` are the statements of sign-in; `SaveProfile` is the
  transaction; the guards read and answer. The database may fail any of them.
* `SellerInvitation`: a claim is numbered instead of timed; `ClaimGrowsStale` and
  `Expire` stand for time, and `Die` for the server's death at any step.
* `SessionActivity`: a visit takes the time, reads, and writes if the row still has
  the time it read.
* `AccountRecovery`: the sign-in service acts or not, and answers or not,
  independently; an answer that is not classified becomes the fallback code of the
  operation (`Failures`); mail arrives in any order or never.
* `ChatConnection`: each connection begun is a socket with its own state; a closed
  or abandoned one still calls back, unless its handlers were removed (`deaf`).
  `retries` counts reconnects; requests for a ticket made again (`TicketFails`) are counted
  by nobody, as in the code.
* `ChatHub`: rooms per instance, one channel per pump, a publication reaches all pumps
  or none. `told` is the badge last announced.
* `ChatMessages`: published events stay in `events`: one may come again, late or never.
  A message's id is its place in the order of creation. A thread is what it loaded
  (`history`, page before page) and what came over the socket (`live`); its loads of older
  pages do not overlap (`loadingOlder`). In which order the hub hands events on is not
  assumed. A message that arrives unseen just before its recipient deletes the conversation
  is hidden with it, as in the code; an answer of his brings it back for the other only.
* `RateLimit`: a request reads its clock, and its transaction runs up to `MaxLatency`
  later. `epoch` separates what was counted before Redis lost its set. Without an answer
  a request goes by the setting: `Degraded` when Redis did nothing, `AnswerLost` when it ran
  the transaction, so that the request is in the set and counts against later ones.
* `BackendAuth`: tokens are a kind, a key and a role. The cache may keep any fetched
  key until it is dropped (`KeysExpire`). `rows` remembers every state the account
  had during the call.
* `BackendInstance`: settings are checked at boot; an answer passes the layers of
  middleware inside out, whether it is a response, an error or an exception.
* `PictureUploads`: one picture per number; `lostWrite` and `staleSave` remember the two
  ways in which the code knowingly lets a profile point at a deleted picture.

### The storefront

* `CheckoutForm`: `sheet` is the React state of the page. A fee request belongs to the
  county it was sent for and is given up (`live`) when the field changes. An order
  request prices the county again (`PriceOrder`), then turns the cart into one order per
  seller in one action, the transaction that `CheckoutInventory` takes apart
  (`PlaceOrders`); its answer arrives, is lost, or finds the page gone. Tariffs
  change by deployment (`MALIHUB_DELIVERY_COUNTY_RATES_JSON`).
* `CookieConsent`: the answer is written to `localStorage`, which takes it, refuses it
  without a word (`full`), or is not there (`blocked`), and to a cookie. Each other tab
  hears of it later, by a storage event. Visitors clear either copy. `latest`, `kept` and
  `unheard` are history: the answer, whether storage took it, and who has not read it.
* `Notifications`: row, then email, with the process's death in between; the list and the
  count of one poll are two statements in either order, and the answer is a third step.
  `quiet` is history: no row changed since the poll began.

## 3. Runs

| Run | Expectation | Shows |
| --- | --- | --- |
| `PaymentSettlement` | pass | 2 attempts, 2 initialise, 1 webhook, 1 verify, 1 fault of any kind: types, one effective success, PAID is backed, tasks only for PAID, nothing left half-way, refinement of `OrderPayment` |
| `PaymentSettlementLive` | pass | 1 attempt, 2 webhooks, 1 verify, 2 faults of all kinds: audited once, no event answered and lost, only legal moves, and a settlement that a webhook recorded still moves its order |
| `Checkout` | pass | 4 listings of 2 sellers with interleaved ids, colliding order numbers; 2 buyers and 2 cancellations, or 2 checkouts of one buyer with cart and listing edits: units conserved, stock not negative, orders are the cart at commit, every checkout ends, a circle of waiting checkouts takes listings of two sellers |
| `Dropshipping` | pass | the five dropshipping modules, one at a time, each under two concurrent requests |
| `Marketplace` | pass | the seventeen modules around the order, one at a time |
| `Storefront` | pass | the checkout page, the answer about cookies and the notices, one at a time |
| `DoubleInitialise` | violation | two attempts in flight |
| `DuplicateSkipsFanout` | violation | a PAID order without supplier tasks, nothing having failed |
| `LostVerifier` | violation | a verification dies after its claim: the webhook is ignored and the order stays PENDING |
| `CheckoutLockOrder` | violation | two checkouts deadlock when sellers' ids interleave |
| `ProtectionCase` | violation | a new return recorded under a closed case |
| `OnboardingOutage` | violation | an onboarded person sent to complete the profile during an outage |

### One run for many modules

`MCDropshipping`, `MCMarketplace` and `MCStorefront` hold modules that share no state. `focus` is
chosen in `Init` and never changes; in a behaviour only the module in focus moves
(`Focused`), so the state space is the sum of the modules' and not their product, and
since no module reads a variable of another nothing is lost. Each module keeps its own
`Init`, `Next` and `Spec`, about which the proofs are. `Calm` (and its like in
`MCDropshipping`) gives modules out of focus one initial state instead of many.
`FirstSocketFirst` restricts the hub to the first socket coming to the first instance
with the first ticket: instances, and tickets of one user, are interchangeable.
`Symmetry` swaps the two processes of dropshipping, which no definition names. Some
properties are conjunctions of a module's named parts, or of several modules':

| Property | Parts |
| --- | --- |
| `MarketTypeOK` | the modules' type invariants; with them: no cart line above what was listed, no record of the future, the socket manager open exactly when it owns a socket |
| `CatalogueSound` | counters match rows, views deduplicated; no dangling rows, ordered listings stay |
| `PeopleSound` | sign-in fails closed, no seller without a shop; a claim is of the current link; what was said to be sent was sent, what was said to be done was done |
| `ChatSound` | a listening tab is never forgotten, reconnects bounded; one socket per ticket, badges follow the last tab of the instance, heard once, heard by the room; pages of a thread join up, shown once, no false read mark, a deleted conversation comes back to whoever is written to |
| `BackendSound` | windows hold the limit, refusals have cause; ready is true, answered once, serves whole; no good token is refused as bad, admitted as stored, forgeries fail |
| `CatalogueMoves`, `PeopleMoves` | a removed line stays removed, on sale by right; claims are honoured, the record of a session is honest |
| `PicturesSound` | a shown picture exists; the grid is sound |
| `HandoverSound` | steps in order and by the right side; announced once, when taken |
| `CheckoutSound` | the fee is the one agreed, a line is ordered once, the page tells what goes on |
| `ConsentSound` | the answer survives while a copy does; it is obeyed by every tab that has read it |
| `NoticesSound` | an email has its notice; a bell in quiet times shows what there is |
| `NewsArrives` | a withdrawn consent reaches every tab; a bell in sight is right in the end |
| `PurchaseFollowsTask`, `VerifiedBeforeSold`, `MoneyAddsUp`, `DeskSound` | likewise in dropshipping |

### Bounds

Payment: a violation of `OneEffectiveSuccess` needs two attempts and two settlers; one
of the audit or event properties needs two deliveries of one event, or a delivery and
a verification, and one fault; duplicates of an attempt are independent of a second
attempt, and have a run of their own. Every fault is in both. `RecordedSettlementMoves` is of
settlements that a webhook recorded; of those that a verification claimed before it died
`LostVerifier` shows that nobody carries them on. Handlers return to `idle` and start again, so the
number of requests is not bounded, only how many run at once.

Stock: `MCCheckoutInventory` plays one of two scenes, chosen in `Init`. In `orders` two
buyers check out carts that share three listings, one of them the last unit, and two
cancellations may bring units back, once; only the orders of one buyer are paid and
cancelled, those of the other take stock. In `edits` a third buyer's double click sends two
checkouts of one cart, while one line is edited and one listing archived or saved. A lock
cycle needs two shared listings and a third to force the other order, and the ids of the
sellers interleave: in this very instance checkouts of two sellers do deadlock
(`CheckoutLockOrder` runs the same scene), so `NoDeadlockWithinSeller` is about cycles that
happen.

Elsewhere every race is one of two requests over one row, and requests start again, so
two of each kind suffice for what a single stale read can do: two tabs, two clerks, two
movers, two handlers. Where a third party matters there is one: a moderator under two
writes of the seller, an administrator who rotates a link under two activations, a
creation of tasks under two movers. Histories are bounded where they grow: three rows
of a cart line, three links and three claims of an invitation (a rotated link, and a
claim retaken after it grew stale), two messages, two events and pages of one (a page to load
while the newer message is edited, deleted or read), two events in the
hub over two instances (presence and typing meet in one socket), four hits against a
limit of two in a window of three with latency one and four ticks, seven ticks of a session's clock
with a limit of four and a write interval of two, two signing keys and two changes of
the world during a call, two flips of a dependency, two codes, two stored pictures and
a grid of two. The storefront has one seller, two counties, two order requests, one
deployment of another tariff and two lines ever; three tabs and three answers (one to
consent, one to withdraw, one in another tab), and all three kinds of storage; two notices,
a bell of one and a centre of both. `FormLeftAlone` and `OneEmail` narrow that run
only: once orders are made the buyer leaves the form alone, and one of the notices has an
email; the proofs are of the modules without them. Pricing is arithmetic: its amounts are chosen at the edges of rounding
(1, 3, 250), of the sign (a cost above the price) and of the column (`MaxInt`).

A run stops when requests and bounds are used up, hence `CHECK_DEADLOCK FALSE`: the code
has no obligation to do anything more. Handlers of one kind are symmetric in the safety
runs; the runs with liveness use no symmetry.

Conservation of stock (`StockConserved`) is stated until the first edit of a listing:
`updateListing` writes the absolute quantity of a form that may have been filled before a
sale, so units are not conserved across it. The code promises nothing else; the hazard is
listed.

## 4. Fairness

* `WF(WebhookStep)`, `WF(VerifyStep)`: a running handler takes its next step; a
  crash is a step of its own that ends it.
* `SF(Redeliver)`: Paystack repeats a delivery until it is answered 200, which its
  documentation promises and `payment-webhook-service.ts:82-87` relies on. Strong,
  because the model's handlers may be busy again and again.
* `WF(CheckoutStep)`, `WF(CancelStep)`: the requests of the scene go on. `WF(LoseCheckout)` only
  while the transaction is blocked: Prisma rolls back a transaction that waits too
  long and Postgres breaks deadlocks.
* `ScreenFairness`: a timer that was set fires, the poll window ends, and each status
  request is answered or fails. With the bound on presses that is what "a page left
  alone" means in `PollingEnds`.
* `ConsentFairness`: a browser delivers a storage event (`HearStorage`, per tab).
* `NoticesFairness`: the bell of a visible tab polls (`useNotifications`, every 45 s), the
  server answers its statements, and, strongly because the tab may be covered again and
  again and a poll may fail, some poll is answered (`PollAnswered`).
* Nothing makes a buyer pay, verify or retry, nothing makes anybody else act, and no
  fault has to happen.

## 5. Proofs

Each proof module proves, for any number of processes and any bounds, what the runs
check on a small instance. The only assumptions are the named ones of the module: that
bounds are naturals, and that processes of different kinds are different.

| Module | Theorems | of the modules |
| --- | --- | --- |
| `PaymentSettlement_proofs` | `TypeCorrect`, `OneSuccess`, `PaidBacked`, `TasksBacked`, `EventsKept`, `AuditedOnce`, `NothingForgotten`, `LegalMoves`, the refinement `Implements` | `PaymentSettlement` |
| `CheckoutInventory_proofs` | `InventoryTyped`, `RowsLockedOnce`, `OrdersAreCarts`, `StockIsConserved`, `StockStaysConserved`, `DeadlockTakesTwoSellers` | `CheckoutInventory` |
| `Dropshipping_proofs` | `PurchasesFollowTasks`, `EveryItemKept`; `NoOrphanedCase`, `DecisionsFinal`; `SoldAsVerified`, `RemovedForGood`; `MoneyOfOffersAddsUp`; `DeskTellsTheTruth`; `DropshippingTyped` | the five of dropshipping, and `MCDropshipping` |
| `Catalogue_proofs` | `NeverOvershoots`, `RemovedStays`; `OnSaleByRight`; `CountersTrue`; `DirectoryIsSound` | `Cart`, `ListingLifecycle`, `ListingEngagement`, `MarketDirectory` |
| `People_proofs` | `InvitationTyped`, `OneClaimant`, `ClaimHonoured`; `ActivityTyped`, `RecordHonest`; `AccountsAreSound`; `SuccessOnlyWhenCollected`; `RecoveryIsSound` | `SellerInvitation`, `SessionActivity`, `Accounts`, `PaymentScreen`, `AccountRecovery` |
| `Platform_proofs` | `CallersTyped`, `CallersAreSound`; `HandedOver`; `PicturesAreSound`; `InstanceIsSound`; `TabNeverForgotten`; `HubServesOnce`; `ThreadsTellTheTruth`; `LimitHolds` | `BackendAuth`, `OrderFulfilment`, `PictureUploads`, `BackendInstance`, `ChatConnection`, `ChatHub`, `ChatMessages`, `RateLimit` |
| `Marketplace_proofs` | `PartsRunAlone`, `MarketTyped`, `CatalogueIsSound`, `PeopleAreSafe`, `ChatIsSound`, `BackendIsSound`, `CatalogueMovesByRight`, `PeopleMoveByRight`, `MarketplaceSafe` | `MCMarketplace` |
| `Storefront_proofs` | `CheckoutPageSound`, `CookieConsentSound`, `NotificationsSound`; `StorefrontTyped`, `CheckoutIsSound`, `ConsentIsSound`, `NoticesAreSound` | `CheckoutForm`, `CookieConsent`, `Notifications`, `MCStorefront` |

Every module has a lemma `...Start` (the initial states have the invariant), one lemma
per action, `...Step` (a step or a stutter keeps it) and `...Shows` (it implies the
property), and the theorems put these together. The invariants, and why the
properties alone are not inductive:

* Payment. `IInv = TypeInv /\ MoneyInv /\ EventsInv /\ AuditInv`: a handler beyond the
  creation of its row works on an attempt; no two initialisers call Paystack for one
  attempt, and the attempt is unknown to Paystack before the call; a handler about to
  claim was told the exact amount was collected, and collected money stays collected; a
  handler in step two works on a settled payment, one at the fan-out has seen its order
  PAID; a handler that recovers, or has claimed, has its event on record; of all
  handlers in step two of an attempt at most one is in mode `claimed`, and none once the
  audit is written. For `NothingForgotten`: a settled payment whose order has not
  followed has a handler in step two, or a fault was counted.
* Checkout. A row that a transaction holds is held by nobody else, and still has the
  value the transaction read: that is what makes the quantity it will write the right
  one. Conservation counts, per product, the units sold by the orders that are neither
  cancelled nor undone (`UnitsSold`, a set of numbered units): a commit adds an order's
  units to it and takes as many from the row. It holds as long as no edit
  of a listing writes a quantity: `StockIsConserved` says so with a box, whatever else is
  edited, `StockStaysConserved` of every behaviour until its first edit.
  The lock order is by id within a seller: a checkout waits for a row whose id is above those
  it holds of that seller. Were all rows of a circle of one seller, the one with the
  greatest id would be held by a checkout that waits for a greater one still. Over two
  sellers there is no such order, and the run `CheckoutLockOrder` shows the circle.
* Handover. A handler at its claim read a status from which the table and the owner
  allow its step (the claim checks equality with that status only); of the handlers at
  one step's announcement there is at most one, and none once it was made.
  `HandoverInv` trades the sequence `journey` for the statuses past a step
  (`TakenIsPast`), because `Append` is cheap for the prover and quantifying over
  indices is not.
* Fulfilment. A move about to be written is legal from the status it read, and one that
  records the purchase found it confirmed, which stays on record; a purchase request
  brings nothing back to life that it read as over.
* Returns. A decision at its write was allowed from the status it read, by a refund
  status that can only have completed since; a return waiting for its refund has one.
* Supplier catalogue. Every firm figure that is shown, stored or carried by a request (a
  recalculation, an import) is of a verification on record, and verifications only
  grow: so what is written late is still backed. Whoever is about to approve found one.
* Pricing. No step changes the amounts, the weight is in lemmas of integer arithmetic:
  that a rounded division is off by half at most, that truncation keeps the sign, and
  that TypeScript's and Python's way to round are one function. No assumption is made of
  the rules: several of one scope may be in force.
* Supplier desk. The last search under way asks for the filters shown, the preview under
  way for the form in the dialog; the key of a press is the key of no other, and a key on
  record has its press applied.
* Cart. By the step a request has reached, the quantity it is about to write was
  checked against what was listed, and it writes to a row that exists.
* Listings. A request about to put a listing on sale read a verified seller, an
  administrator, or a listing that was on sale. Views: those a viewer has, and those his requests are about
  to write, are together no more than there are requests at once. Directory: typing
  and the property, which the transactions keep.
* People. Invitations: claims of living activations differ, the row's link is the
  newest, and the claim on the row was made with the row's link. Activity: a request at
  its write read a record older than its own time. Accounts: once there is a row it
  stays, and once onboarded it stays so; what a request found is therefore still true
  when it writes. Payment screen: a status answer that is shown as a success was read when a
  payment had been collected, and money once collected stays so (`taken`), whatever
  becomes of the order. Recovery: numbers of codes and links are issued
  upwards, so what an answer says of a number is true of every later state.
* Platform. Gate: by the step a call has reached, what its token must be, which roles
  it may carry, and that `rows` holds every account state since it came. Pictures: a
  picture just stored is known to its tab alone until the profile is written, and the
  one it replaced is shown nowhere when it is deleted. Instance: the probe has found
  well only what answered while it ran, and each layer a response has passed is one
  that stands inside the next.
* Chat. Connection: the socket the manager keeps has its handlers, so its end will be
  told; an inactive manager with a listener has a timer or no attempts left. Hub: what
  is on its way to an instance none of its sockets was sent, and whoever is meant by a
  publication has it or has it coming. Conversation: whatever a page, an event or a
  request says of a row is true and stays true, because reading and deleting are not
  undone; what a thread has loaded is a stretch of the conversation that ends where its
  first page did, a page on its way is the stretch before it (`StretchesMeet`), and who
  has deleted the conversation and not got it back was written to by nobody since. Limiter:
  every request of the window that was counted since the set was lost, its answer lost
  or not, is in the set, which holds none from before; clocks are behind the set's by
  `MaxLatency` at most.

* Checkout page. The estimate shown is of the county in the field; a request under way
  carries the fee that was ticked and, once priced, the same fee; a line is in the cart
  or in an order and never in both, and ids are given out upwards (`LinesFresh`), so a
  cart refilled after a lost answer has lines no order has.
* Consent. While storage took the last answer (`kept`), each of the two copies is that
  answer or removed, and both are removed exactly when the answer was cleared; a blocked
  storage holds nothing (`CopiesSound`). A closed tab has nothing, a tab measures exactly
  while it shows "all", a tab that has heard a kept answer shows it, and one that still
  shows "all" after a withdrawal has an event on its way (`PagesSound`).
* Notices. A poll that nothing disturbed has in hand what the rows are now (`PollSound`);
  any change of a row takes `quiet` away from poll and bell at once.

Composition. In `MCDropshipping` the conjunction of the five invariants is inductive
(`DropshippingInvariant`), in `MCStorefront` that of the three (`StorefrontInvariant`). In `MCMarketplace` no part writes a variable of another, so
every step is, for every part, a step of that part or none (`StepOfEach`), and the
specification of the marketplace implies that of each part, with the fairness of the
payment page (`PartsRunAlone`). Everything proved of a part alone, action properties
included, then holds of the composition without a further invariant.

Only model-checked: liveness under fairness (`RecordedSettlementMoves`, `EveryCheckoutEnds`,
`PollingEnds`, `NewsArrives`), which with `ENABLED` is out of the prover's reach, and the violated
properties, which are false. Every other property that a passing run checks is the
statement of a theorem. No module declares a RECURSIVE operator; what has to be
counted is the cardinality of a set, which the provers can follow step by step while
induction over data is out of their reach (`CountersMatchRows`, `StockConserved`).

## 6. What the documents say and the code does not do

The violation runs are disagreements between a comment or document and the code; each
property quotes the sentence, and `PROJECT.json` lists them as findings:

* two initialise requests of one order open two Paystack transactions;
* a duplicate delivery can win the order transition and leave the paid order without
  supplier tasks;
* sorting product ids does not order the locks, because rows are grouped by seller;
* a return asked for while a decision closes the order's case is recorded under a
  closed case;
* a guard takes "could not read" for "not onboarded";
* a verification that dies after its claim leaves the order PENDING for good: the webhook
  is ignored, and a status check does not ask about a payment that is SUCCESS.

Others the models have as behaviour, and no run states. Of the modules around the order:

* of overlapping commission rules of one scope the shop takes the first row
  (`pricing.ts:134`, rows in no order), the settlement the latest, as
  `commission_service.py:28-32` wants of both (`Estimates`, `ResolveRule`); and the
  recalculation of a listing leaves out the category (`dropshipping-pricing-service.ts:213`)
  and stores a profit by another rule than the listing was made by;
* money collected for a cancelled order is shown as "Your order has been paid."
  (`checkout-client.ts:305`, `payment-result/page.tsx:81`), where
  `docs/PAYMENTS-PAYHERO.md:234-240` says that a human must resolve it (`PhaseOf`);
* a poll under way takes back a success that another request brought
  (`use-paystack-payment.ts:119`), although polling "stops the moment the attempt or the
  order reaches a terminal state" (lines 30-31; `TickArrives`);
* an unclassified 500 or an empty answer of the sign-in service is told as an expired code
  or link (`neon.ts:291`, `errors.ts:119`), which `errors.ts:129-132` means to avoid
  (`Failures`);
* requests for a chat ticket are repeated without end (`ws-client.ts:304`), although
  lines 25-27 bound the attempts and 211-212 say "retry once" (`TicketFails`).

And, some of them notes of the hazards: the cap on payment
attempts is enforced nowhere; a success after a recorded failure is audited by nobody;
a settler that loses the order to another of the same payment flags an anomaly for a
PAID order; a failed creation of tasks is not retried; a corroboration that fails for a
moment refuses the event for good; a recovered delivery writes no `payment.success`
audit; unarchiving or a stale save undoes a suspension; an older message whose event is as late
as a page is shown twice, because the page is put in front of the thread unchecked
(`chat-thread.tsx:94`); an edit restores the text of a message deleted meanwhile; in
development an unreachable Redis is reported as degraded when no database is
configured (`health.py`), because the first dependency that is not ready decides; the margin of an estimate is the one
figure `pricing.ts` does not hold against the column it is stored in (`asNumber`, and
`marginBps` in `schema.prisma`); the total of the checkout page leaves out the delivery
that the order charges (`checkout-summary.ts:46`, `orders/service.ts:397`); a fee the
server refuses stays on the page, ticked, until the county is edited; a storage that is
full refuses a withdrawal without a word and goes on answering "all"
(`cookie-consent.ts:37`); "Mark all" also reads notices that came after the press, and is
hidden when the only unread ones are older than the page's fifty, which the bell counts.

## 7. Not modelled, and what is left

Not modelled: the backend's payment providers (a registry nothing calls to collect
money); supplier enquiries, reports of listings, duplicating a listing, archiving a
chat (single inserts or updates); search, audit, storage and the backend's email
(queries and best-effort I/O, whose failure the modelled callers ignore as the code
does); the rate limiter of the shop, whose algorithm is a library's; layout and
wording; the checks of chat frames and the leaked entry of a socket that dies before
its first frame. Real time is order only: timeouts are steps that may come at any time.

Left for later, in this order:

1. Archiving and the message limit in `ChatMessages`, duplicates and reports in
   `ListingLifecycle`, the chats-per-socket limit in `ChatHub`.
2. An abstract specification of chat delivery that `ChatHub` and `ChatMessages`, composed,
   implement.
