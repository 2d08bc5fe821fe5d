# NeoMarket B2C: specifications, checks and proofs

This directory models the B2C backend of NeoMarket (FastAPI, SQLAlchemy,
PostgreSQL): the shop window, the carts, the orders and their way to the
warehouse, which a second service, the B2B, owns. The models are TLA+ modules,
checked by TLC on small instances; every safety property the passing runs check
is also proved by TLAPS for instances of any size, some under a hypothesis that
section 4 names. Paths below are relative to `src/src/`.

## 1. The system

One process serves HTTP requests on one event loop and runs two background
tasks. Every request has a database session of its own; nothing is shared in
memory. Three things make the code hard to test:

* **Every `await` is a point where anything else may run.** Handlers read rows,
  await the B2B, and then commit what they computed from the rows they read.
  There are no row locks, no version columns and no serialisable transactions:
  PostgreSQL runs at READ COMMITTED and what protects the tables is unique
  indexes alone.
* **The B2B and the database cannot be changed together.** A call may be applied
  and its answer lost, or arrive after its timeout; a commit may fail after the
  call; the process may die in between. Background workers retry.
* **A commit writes the columns that changed.** SQLAlchemy compares each
  attribute with the value it loaded; what compares equal is not written. This
  both saves the code (stale copies do not overwrite columns they did not touch)
  and breaks it (a list changed in place is never written).

### Inventory

| Component | State it keeps | Operations | Talks to | What makes it correct |
|---|---|---|---|---|
| checkout (`modules/orders/service.py:80`) | `orders` | `create_order` | cart rows, B2B reads, B2B reserve | one order per idempotency key; what is stored is what was priced, shown and reserved; numbers unique; what fails after the reservation is reported as a 5xx |
| cancellation and workers (`orders/service.py:299-477`) | `orders` | `cancel_order`; every 10 s `process_cancel_pending`, `process_fulfill_pending` | B2B unreserve, fulfill | an order stored as cancelled or settled really is; none stays half done |
| operator (`modules/operator/service.py`) | `orders`; `operators` | `advance_status`, `cancel_order`; login | B2B fulfill, unreserve | statuses go forward; the goods go where the status says |
| cart (`modules/cart/service.py`) | `cart_items` | add, update, delete, clear, merge; list, validate | B2B stock and products | quantities within stock; one row per owner and SKU; a merge loses nothing |
| events (`modules/events/`) | `event_idempotency_keys`, `cart_items.unavailable_reason` | `receive_b2b_event` | cart rows, B2B products | an acknowledged event has had its effect |
| catalog (`modules/catalog/service.py`) | `collections` (read only) | lists, cards, tree, breadcrumbs, collections, facets | B2B reads | no answer shows a broken hierarchy; price of goods in stock; paging misses nothing |
| lists of orders (`orders/service.py:55`, `operator/service.py:66`) | none | `get_orders` of a buyer and of the operator, with filters and pages | order rows | paging shows all that was there and nothing else |
| favorites (`modules/favorites/service.py`) | `favorites`, `product_subscriptions` | add, remove, list, subscribe, unsubscribe | B2B products | one mark per user and product, whoever races; answers tell the truth; no page hides a product |
| banners (`modules/banners/service.py`) | `banners`, `banner_events` | create, list active, record a batch of events | | a batch is stored whole or not at all; a late click on a shown banner counts |
| identity (`operator/auth.py`, five dependencies of the routers) | none | from the headers of a request to a user, a session, an operator or a 401 | | a person is the same person everywhere |
| database session, configuration, migrations, exceptions, `main.py` | | | | |

Interactions: checkout reads the cart, and refuses rows that events have marked;
the operator, the buyer and both workers write the same order row; merge and the
other cart handlers and the events write the same cart rows; catalog, cart,
checkout and favorites all read the B2B, which changes between two reads.

Hard behaviours, each with its line, are listed under `hazards` in
`PROJECT.json`; the properties of the models were chosen for them.

## 2. The modules

| Module | What it is |
|---|---|
| `OrderStatus` | abstract specification: what the shop promises about the status of an order |
| `OrderLifecycle` | the life of a placed order: handlers, workers, B2B calls, faults; implements `OrderStatus` where requests on one order do not overlap |
| `OrderLifecycleProofs` | theorems about `OrderLifecycle`, the safety part of the refinement included |
| `Checkout` | placing an order, by racing attempts |
| `CheckoutProofs` | theorems about `Checkout` |
| `Cart` | the cart rows, their handlers, merge, events, validation |
| `CartProofs` | theorems about `Cart` |
| `Catalog` | the read side: tree, breadcrumbs, cards, collections |
| `CatalogProofs` | theorems about `Catalog` |
| `Filters` | the query string of a listing and of its facets, and what the B2B is asked |
| `OrderList` | lists of orders, paged while orders are placed and move on |
| `OrderListProofs` | theorems about `OrderList` |
| `ProductMarks` | abstract specification: one set of marks (favourites, subscriptions), changed and read in one step |
| `Favorites` | the two tables and the handlers that race on them; implements `ProductMarks` |
| `FavoritesProofs` | theorems about `Favorites`, the refinement included |
| `Banners` | banners, their windows and the events reported about them |
| `BannersProofs` | theorems about `Banners` |
| `Identity` | the five dependencies that read the headers, as functions |
| `RequestProofs` | theorems about what is read off a request: `Identity` and `Filters` |
| `MC...` | constants for TLC; the `.cfg` files are named `<MC module>_<run>.cfg` |

Common conventions. An action is the code between two awaits: a `SELECT` with
the guards and early returns after it, the return of a B2B call, a `COMMIT` with
the assignments before it. A coroutine is a record in `req`, `att`, `worker` or
`delivery`: its `phase` says which await it is in, its other fields are its local
variables, and above all the row *as it was read*. A `SELECT` that fails before
anything has been changed ends a request like one that was never sent, and is not
an action. In `Checkout`, where two of them come after a change (the count after
the reservation, the read-back after the commit), every statement may fail. The
read-backs of the other handlers change nothing but the answer, which those
modules do not follow; `Favorites`, which does, has it lost (`Leaves`). Ids drawn
with `uuid4` are model values that are never used twice. Logging, message texts, titles, images and timestamps are left out.

### OrderLifecycle

* State: `row` (the columns `status`, `b2b_fulfilled` and the status history;
  `cancel_reason`, `updated_at` and `delivered_at` are written along with the
  status and decide nothing), `reservation` (what the B2B did with the goods),
  `late` (calls nobody waits for any more and the B2B may still apply), one
  coroutine per request and per worker, and the number of `faults`.
* `BuyerCancel`, `OperatorCancel`, `Advance` are the `SELECT` and guards of the
  three handlers; `HandlerAnswered` is the return of `unreserve` or `fulfill`;
  `CommitCancel` and `CommitAdvance` what they store. `Advance` makes a call only
  on the step to `DELIVERED`.
* `CallReturns` is the one `try/except` all callers share: 2xx, a refusal or lost
  connection, or a timeout that leaves the call on its way (`ApplyLate`).
* `Flushed` is the unit of work: columns that compare unequal to what was loaded.
  `AppendedInPlace` is `history_list.append(...)` on the list inside the loaded
  JSON value, which changes what the session remembers as loaded.
* `Scan`, `WorkerAnswered`, `WorkerCommit` are a round of a worker. Rows of a
  batch are processed from the list it read, whatever happens to them meanwhile.
  `WorkerCommitFails` ends the whole round: the rollback expires the other rows,
  whose attributes can then no longer be read, outside the inner `try`.
* Placing an order is `Init`: `Checkout` models how it gets there.
* `SerialSpec` restricts the interleavings to those in which two *requests* on
  one order do not overlap. Workers, late calls and faults still race.
* `CancelledIsReleased` says that a cancelled order's goods are no longer reserved,
  not that they are back on the shelf: where an advance overlaps a cancellation they
  may have been written off. `WrittenOffIsDelivered` excludes that, for `SerialSpec`.
  `GoodsAreHeld` is about runs in which nothing has failed: a commit of a
  cancellation that fails after the B2B released the goods breaks it, and the code
  has no remedy.
* External: that the B2B applies a repeated call without a second effect, which
  the retries of the workers take for granted.

### Checkout

* State: `orders`, the B2B's reservations by order id (`b2b`), timed-out reserve
  calls (`late`), the carts and prices, and the coroutine of every attempt.
  An attempt is one `POST /orders` of some buyer; its order id is drawn by `uuid4`
  in the handler, so the attempt itself stands for it.
* `Lookup`, `LoadCart`, `Enrich`, `Reserved`, `CountOrders`, `Commit`, `Refresh`
  are the sections of `create_order` between its awaits. `Enrich` stands for the B2B
  reads and every check that follows them, the comparison with the snapshot
  included; availability and stock of a line are a free choice, since no
  property here depends on why a line was refused. `RequestsEqual` is
  `_requests_equal`; the request's other fields are one value, `rest`. The code
  sorts both snapshots and compares them position by position; `SortedAlike`
  says the same by a matching of their lines.
* `Admits` is the pair of unique indexes; a violated one is an uncaught
  `IntegrityError`, answered with a 500.
* `Keyed` says whether the B2B answers a repeated `Idempotency-Key` without
  reserving again. The handler sends the client's key with a *new* order id, so
  the two kinds of B2B differ in what is reserved; this repository does not say
  which one it talks to, and the runs check each.
* A key is looked up without its buyer (`orders/service.py:89`), and
  `_requests_equal` compares bodies, which do not name the buyer. Two buyers who
  send one key with equal bodies share an order: the second is answered 201 with
  the order of the first, and nothing is placed for it. So `AnswerMatchesRequest`
  says two things: the order given was placed for a body that asks for the same,
  always; and it is the buyer's own *provided no other buyer uses the key*
  (`OwnKey`). Without that premise TLC finds the stranger's order.
* Statements that fail: before the reserve call nothing is left behind; a count
  that fails (`CountOrders`) leaves the goods reserved with no order; a read-back
  that fails (`Refresh`) answers 500 for an order that is stored, which a retry
  under the same key then finds.
* `KeyIsReserved` is what remains for a B2B that folds keys: some attempt under
  the key has goods. It does not say under which id; if it is the id of an earlier
  attempt, unreserve and fulfill will not find them.

### Cart

* State: `table` (rows by id), the coroutines of cart requests and of event
  deliveries, the stored event keys, and `status` and `stock` in the B2B.
* `Stored` is the commit of a transaction: nothing at all if an `UPDATE` meets no
  row (`StaleDataError`) or a unique index is violated, both a 500.
* Merge keeps the rows as it read them, in two `SELECT`s; a row returned by both
  is one object of the session's identity map and keeps the values of the first
  read (`MergeSelectUser`), so it can be its own counterpart (`Counterparts`).
* `ValidForCheckout` is the verdict of `validate_cart`, `Orderable` what
  `create_order` asks of `enrich_cart_items`.
* An event is applied and its key stored in two transactions; `EventSaved` covers
  both the first and a repeated store of the key, since either way the key is
  there and the sender will not be heard again.
* The body of an event comes in an old and a new form (`Body`): `TypeOf`,
  `ProductOf` and `SkusIn` say which field counts. `AcceptedIsMarked` speaks of
  the SKUs named in any of them.

### Catalog

* State: what the B2B says (`cats`: category to path of ids; `onSale`), the one
  request being served, its answer, and the progress of a client that pages
  through a collection. The component stores nothing, so requests cannot disturb
  each other; the B2B changing between two calls, or two pages, can.
* The B2B keeps a tree: `CategoryMoved` changes the paths of a whole branch,
  `CategoryRemoved` leaves the paths below naming a category that is gone, which
  is what the orphan checks are for.
* What a batch returns is put back in the order of the ids that were asked for
  (`Kept`, with `Ascending` for the places that remain). In a collection it may
  return any part of what is on sale (`known`): a 404 of the whole batch counts
  as an empty one, and a product that cannot be mapped is passed over; both end
  among the unavailable.
* Left out: product lists (passed through), the list of collections, slugs and
  texts. Paths are never empty here.

### Filters

* State: the nested dictionaries `parse_filters` has built of the parameters read
  so far, laid out flat by path (`bound`), and, to judge them by, the values given
  for each path (`asked`) and for the parameters it passes over (`direct` for
  `filters[..]`, `plain` for `category_id`). A step (`Parse`, `PassOver`) is a round
  of the loop, for any next parameter; a query is a sequence of such steps.
* Paths have any length. A path that runs through a name with a value, at whatever
  depth, is a `TypeError` (`raised`, a 500); a value for a name that is already a
  dictionary makes a list of the dictionary and the value.
* `ListingScalars`, `ListingAttributes`, `FacetCategory` and `FacetAttributes` are
  what `get_products` and `get_facets` send once the query has been read, each
  translated from its own lines: the code spells the attributes out twice. What is
  neither a text nor, for a characteristic, a list is sent as its `str()`
  (`Printed`, one value for whatever that shows).
* `FiltersAreForwarded` and `FacetsAreForwarded` each compare what is sent with what
  was asked, not with each other, and say exactly where the two part: a scalar
  given twice, or with names below it, is sent as a text nobody wrote; all
  characteristics are dropped where `attributes` has a value of its own. Facets
  take the category from `category_id` first, and ask for no price, seller or text,
  so they need not count what the listing lists.

### OrderList

* State: `orders`, in the order of `created_at`, with their buyer and status, and
  one client that pages through one list. Both services build the same `WHERE`
  (`Matching`), count, and select a page; the buyer's list is one whose filter
  always names a buyer.
* An order has its time (`Begun`) before it is stored (`Placed`), so it may turn
  up behind orders that are already there. `Moved` abstracts `OrderLifecycle`:
  any status other than `PAID`.
* `Counted` and `PageSelected` are two statements, between which orders come and
  go. A page is the set of orders whose place (`Rank`, from 1, newest first) is
  behind the offset and within the limit (`Slice`). The client goes on until a
  page is not full.

### Favorites and ProductMarks

* `ProductMarks`: `marked` is a set of pairs (here of table, user and product);
  a request begins, acts in one step (`Act`) and replies, and may be lost. Its
  answer says what was so when it acted.
* `Favorites`: the rows of the two tables, the coroutine of each request, what
  the B2B shows, and a client that pages. `list` tells the tables apart and
  `sets` an add from a removal; the handlers have the same steps: `Asked` and
  `Checked` (the product, from the B2B), `Selected` (a row that is there makes an
  add a 200 and a subscription a 409), `Inserted` (the unique index),
  `Refreshed` (reads the row back, and is a 500 if it is gone), `Deleted` (by the
  id of the row that was read) and `Replied`. `Leaves` is also a restart.
* `seen` is what was so at the moments since a request was sent: a history
  variable, by which the answers are judged.
* The refinement maps a row to a mark and a coroutine to its request, which has
  acted once its commit, or the read that decides, is behind it.
* The pages: `PageSelected` reads every row, `PageAnswered` asks the B2B, filters
  and cuts (`Page`). A row carries the moment it was added, and a page is the set
  of rows whose place among the visible ones, newest first, is within its bounds
  (`Visible`, `Place`, `Cut`).
* What a scan is owed: `Loses` says that the user's list has lost a favourite, or
  one that could be seen, since the scan began. A removal counts even if the
  favourite was hidden when it happened: the list the client is cutting pages
  from may have been read before, and the product may have come back in between,
  so that its row pushed others behind the offset and then went away.
* `OneWriterBesideAScan` limits the run, not the specification, to one request
  while a client pages.

### Banners

* State: banners with a window and an active flag, stored events, one report
  (a batch of events that a viewer sends), the clock, and what has been shown.
* `Looked` is the query that finds the banners a batch names, active or not;
  `Recorded` the one transaction. A batch is a set of events here, which is what
  the check looks at.

### Identity

* No state: functions from the headers to an answer. Signature, expiry and form
  of a token are one choice among kinds of tokens. `CartIdentity` and
  `MergeIdentity` take the session header as well.

## 3. What the runs check

| Run | Instance | Distinct states | Shows |
|---|---|---|---|
| `lifecycle_racing` | 1 order, 2 requests, 2 faults | 39 thousand | `CancelledIsReleased`, `FulfilledIsSettled`, `FulfilledIsKept`, and the liveness properties `PendingCancelIsResolved`, `DeliveredIsSettled`, whatever races |
| `lifecycle_serial` | 2 orders, 2 requests, 1 fault | 24 thousand | `KeepsOrderPromise`: the refinement of `OrderStatus` with its liveness; `WrittenOffIsDelivered`, `GoodsAreHeld` |
| `checkout_race` | 3 attempts of 2 buyers, 2 keys, 1 crash, B2B folds keys | 867 thousand | `SameKeySameOrder`, `AnswerMatchesRequest`, `NumbersAreDense`, `KeyIsReserved` |
| `checkout_snapshot` | 2 attempts, 2 SKUs, 2 prices, 2 changes, 1 crash, B2B does not | 467 thousand | `StoredIsReserved`, `SnapshotHonoured`, `OrphanIsReported` |
| `cart_writes` | 1 user, 1 session, 1 SKU, 2 requests, 3 rows, stock of 0 to 2, 1 change in the B2B | 228 thousand | `StockIsRespected`, `MergeLosesNothing`, `MergeTakesMax` |
| `cart_events` | 2 deliveries, 1 request, 2 rows, stock of 0 to 2, 1 crash | 959 thousand | `AcceptedIsMarked` |
| `catalog_answers` | 3 categories, 3 products, pages of 2; or 2 banners, 1 report of 2 events; or queries of up to 3 parameters; or 3 orders in pages of 1 | 297 thousand | `TreeIsComplete`, `CrumbsAreUnbroken`, `PriceIsInStock`, `ScanSeesAll`; `LateClicksCount`, `WholeOrNothing`; `FiltersAreForwarded`, `FacetsAreForwarded`; `ListTellsTheTruth`, `TotalFitsPages` |
| `favorites_marks` | 2 users, 2 products, 2 requests, 2 rows, pages of 1, 2 changes of what is on sale | 275 thousand | `KeepsMarksPromise`: the refinement of `ProductMarks`; `ScanMissesNothing`; `OnePersonEverywhere`, `MergeJoinsTheirCarts` |

Why these bounds are enough to meet the interesting cases:

* *Lifecycle.* Handlers and workers touch one order at a time, so one order with
  two requests and both workers has every race on a row; two faults allow a
  failure and one more during the recovery from it. A second order is needed
  where a worker's batch matters (a failed commit spoils the rest of a round), in
  `lifecycle_serial`. Forward-only chains have four steps, and requests are slots
  that are used again, so behaviours are not limited to two requests.
* *Checkout.* Three attempts, two buyers, two keys: a retry of one client and
  another client racing it for the order number or using its key. Two attempts, two
  SKUs and two prices are enough for every way a cart can differ from a snapshot:
  longer, shorter, other price, other order of lines.
* *Cart.* Every operation is about one SKU, or treats SKUs one by one; two
  writers and three rows (the guest's, the user's, one inserted late) meet every
  stale read. The stock is any number up to `MaxStock` at first, so that
  `StockIsRespected` asks for more than the bound in `TypeOK`; `MaxQuantity` is
  larger than `MaxStock` so that refusals happen.
  The passing runs use `OneMergeSpec`, in which merges do not overlap, and one
  identity header per request: what happens otherwise is a finding, below.
* *Catalog.* Three categories give chains, forks and holes at every place; pages
  of two over three products have a full, a partial and an empty page. The
  other parts of the run share no state with the catalog and are exercised one
  at a time (`part` in `MCCatalog`), each with all of its own bounds.
* *Filters.* Three parameters, of two scalars, two attributes, `attributes` itself
  and a name below a scalar and below an attribute, over three values, the empty one
  among them, have every repetition and every order of a value and a name below it.
* *Lists of orders.* Three orders in pages of one: one read, one placed or moved
  meanwhile, before or behind it, and one still to be read.
* *Favorites.* A request touches one pair of user and product, so two requests
  on one pair meet every race; two rows allow a row to be deleted and another
  inserted for the same pair.

`CHECK_DEADLOCK FALSE` is set for the checkout runs only: there an attempt is
used once, and when all of them have ended the system rightly stands still.

### Fairness

Only `OrderLifecycle` has liveness properties. `Fairness` assumes weak fairness
of a coroutine's next step (the event loop runs whatever can run; every HTTP
call has a timeout, so it returns or raises; the workers' `while True` catches
exceptions and sleeps for a fixed time), and strong fairness of a 2xx answer to
a call a worker repeats for ever: the B2B may fail any number of times, but not
always. Nothing is assumed about people (no fairness on new requests), about
lost calls arriving, or about faults, of which there are finitely many.

### Findings: what the code does not keep

Each is a run with one property that TLC finds violated; the trace is the
scenario.

* `lifecycle_forward`, `StrictlyForward`. Two overlapping requests on one order:
  the commit of the one that read first puts the status back, for example
  `ASSEMBLING` over `DELIVERING`, or `CANCEL_PENDING` over `CANCELLED`. The
  descriptions of the pull request and of the endpoint say statuses only move
  forward. This is why the refinement of `OrderStatus` is claimed for
  `SerialSpec` only.
* `lifecycle_history`, `HistoryIsCurrent`. The entry appended to the status
  history is never written: after any change the stored history still ends with
  `PAID`. One request suffices.
* `cart_merge_twice`, `MergeLosesNothing`. Of two overlapping merges of one
  session, the second can find the row the first has transferred and delete it.
* `cart_validate`, `ValidIsOrderable`. `validate_cart` does not look at
  `unavailable_reason`, checkout does, and nothing ever clears it.

Behaviours met while modelling for which there is no run, most of them a hazard
with a note in `PROJECT.json`:

* Orders and carts: of two buyers who use one idempotency key with equal bodies
  the second is given the order of the first; a row added with both identity headers is deleted by a merge;
  a snapshot that repeats a line passes the comparison with a cart that has
  another item; a repeated `POST /orders` that overlaps the first ends in a 500
  instead of the first one's result; a failed commit of a cancellation leaves an
  order `PAID` without goods; an add that is stored but whose cart cannot be
  priced is a 503, and a retry adds again.
* Events: one that names only its product is acknowledged for good when its SKUs
  cannot be resolved, and marks nothing; the time of an event is not compared.
* Favorites: a second simultaneous add of one favourite, and an add that is
  removed before it is read back, are a 500.
* Banners: a time with an offset does not fit its column, a 500 at every retry.
* Identity: a token of an operator whose `sub` is no UUID is a 500, not a 401.
* Filters: with a value for `filter[attributes]` itself, attributes are dropped
  or are a 500, by their order; a scalar filter given twice reaches the B2B as the
  `str()` of a list; `filters[..]` narrows facets but not the listing, and prices,
  seller and text narrow the listing but not the facets.
* Lists: collection rows of equal `ordering`, and orders of equal `created_at`,
  have no stable order between pages; a client that stops by `total_count`
  instead of a short page misses an order placed between count and page; a
  collection that is switched off is not listed, but opens by its id.

## 4. What is proved

Every theorem is for every value of the constants that satisfies the module's
`ASSUME`; what goes beyond it is a hypothesis of the theorem and named here.

| Theorem | Property | Hypothesis |
|---|---|---|
| `OrderLifecycleProofs!TypeCorrect`, `SettlementHolds`, `FulfilledKept` | `TypeOK`, `CancelledIsReleased`, `FulfilledIsSettled`, `FulfilledIsKept` | |
| `OrderLifecycleProofs!CopiesAreCurrent`, `GoodsFollowStatus` | `WrittenOffIsDelivered`, `GoodsAreHeld` | requests on one order do not overlap (`SerialSpec`) |
| `OrderLifecycleProofs!KeepsOrderPromiseSafely` | `OS!SafeSpec`, the safety half of `KeepsOrderPromise` | the same |
| `OrderLifecycleProofs!ForwardWhenSerialised` | `StrictlyForward` (refuted of `Spec`) | the same |
| `CheckoutProofs!TypeCorrect`, `OneOrderPerKey`, `NumberedDensely`, `OrphansAreReported` | `TypeOK`, `SameKeySameOrder`, `NumbersAreDense`, `OrphanIsReported` | |
| `CheckoutProofs!StoredAreReserved` | `StoredIsReserved` | a B2B that does not fold repeated keys |
| `CheckoutProofs!AnswersMatch` | `AnswerMatchesRequest` | for the half about the buyer, in the property itself: no other buyer uses the key (`OwnKey`) |
| `CheckoutProofs!KeysAreReserved` | `KeyIsReserved` | |
| `CheckoutProofs!SnapshotsAreHonoured` | `SnapshotHonoured` | no snapshot repeats a line |
| `CartProofs!TypeCorrect`, `StockRespected` | `TypeOK`, `StockIsRespected` | |
| `CartProofs!AcceptedAreMarked` | `AcceptedIsMarked` | events name their SKUs and type in one place (`Plain`) |
| `CartProofs!OneMergeLosesNothing` | `MergeLosesNothing` | one merge at a time (`OneMergeSpec`), one header per cart request (`OneHeaderEach`) |
| `CartProofs!MergeLeavesTheLarger` | `MergeTakesMax` | `OneHeaderEach` |
| `FavoritesProofs!TypeCorrect`, `PromiseKept`, `ScansAreComplete` | `TypeOK`, `KeepsMarksPromise`, `ScanMissesNothing` | |
| `CatalogProofs!TreesAreComplete`, `CrumbsLeadThere`, `PricesCanBePaid` | `TreeIsComplete`, `CrumbsAreUnbroken`, `PriceIsInStock` | |
| `CatalogProofs!PagingSeesAll`, `TypeCorrect` | `ScanSeesAll`, `TypeOK` | no two rows of a collection have the same `ordering` (`Distinct`) |
| `BannersProofs!TypeCorrect`, `LateClicksAlwaysCount`, `BatchesAreWhole` | `BannersTypeOK`, `LateClicksCount`, `WholeOrNothing` | |
| `RequestProofs!SamePersonEverywhere`, `MergesJoinTheirCarts` | `OnePersonEverywhere`, `MergeJoinsTheirCarts` | |
| `RequestProofs!FiltersReachTheB2B`, `FacetsReachTheB2B` | `FiltersAreForwarded`, `FacetsAreForwarded` | |
| `OrderListProofs!ListsTellTheTruth`, `TotalsFitPages` | `ListTellsTheTruth`, `TotalFitsPages` | |

The hypotheses are not for convenience. Each names something the code neither
checks nor needs most of the time, and without it the property is false:

* `SerialSpec`: nothing locks an order's row, and `racing`, `forward` and
  `history` show what overlapping requests do to each other.
* `OwnKey`: the lookup does not ask whose order it finds (section 2).
* A snapshot that repeats a line: `create_order` compares the number of lines and
  looks up each line of the snapshot in the cart, so a line named twice stands in
  for one the client never saw.
* `Plain`: a payload with SKUs both beside and inside `payload`, or with two type
  fields that disagree, is read from one of the two places only.
* One merge at a time: `merge_twice` is the finding.
* `OneHeaderEach`: a row added with a token and a session header is at once the
  guest's and the user's; the merge takes it for its own counterpart and deletes it.
* `Distinct`: no constraint makes `ordering` unique, and PostgreSQL may return
  rows of equal ordering differently on every page.

### OrderLifecycle

Assumption: the bound on faults is a natural number. Orders, requests and
workers' rounds are any.

`TypeCorrect` includes that a handler past its guards holds a row whose status
they allow. `SettlementHolds` is not inductive: a commit trusts an answer received
earlier. The invariant `Settlement` adds `Confirmed`: whoever is about to commit
on a positive answer, handler or worker, addresses an order whose goods are no
longer reserved. It is kept by every other actor because the B2B never goes back
to `reserved` (`CallReturnsMonotone`). For `FulfilledKept`: a stale copy writes
the column only if it changed it, and nothing changes it to false.

The second half is about `SerialSpec`. The invariant `InStep` says why copies do
not go stale there although nothing locks a row: a request and the two workers
each hold orders in statuses that only they move on.

| Part | Says |
|---|---|
| `Serialised` | two requests in flight are about two orders |
| `ReadIsCurrent` | what a request has read of the status is still so |
| `BatchIsDue` | all that a worker has left of its batch is still due |
| `LastStepCalls` | a handler that calls to write goods off is on the last step |
| `RowsMakeSense` | no row is `CREATED`; a row marked settled is `DELIVERED` |

With it every commit is one step of `OrderStatus` or a stutter
(`KeepsOrderPromiseSafely`) and moves forward (`ForwardWhenSerialised`).
`GoodsFollowStatus` needs one more part, `LateFits`: a call nobody waits for any
more, applied however late, still fits the order it arrives at.

### Checkout

Assumptions: attempts and SKUs are finitely many, carts are functions from SKUs
to numbers, snapshots are sequences, and `None` is neither an attempt nor a row.
The inductive invariant `Settled` is a conjunction of six parts:

| Part | Says | Needed because |
|---|---|---|
| `Typed` | shape of variables; what an attempt knows in each phase | |
| `Owned` | an order was stored by its own attempt, with its lines | an id must not be stored twice |
| `Answered` | a 201 names a stored order under the attempt's own key | relates an answer to the table |
| `KeysOnce` | no key has two orders | the unique index, as an invariant |
| `Numbered` | numbers are 1 .. n, and a number already computed is at most n + 1 | a count taken earlier can only fall behind, as orders are never deleted: so what the index admits is exactly n + 1 |
| `Accounted` | goods are held, or about to be, only for attempts beyond the reserve call | orphans and reservations of stored orders |

Each action has its lemma; `QuietSettles` and its like collect the steps that
change only one coroutine. A second invariant, `Honoured`, holds beside it and is
about what an order owes to the requests under its key:

| Part | Says |
|---|---|
| `Matched` | an attempt answered 201 asked for what the order's own attempt asked for, which was an attempt under the same key; so where one buyer alone uses the key, it is that buyer's |
| `AsShown` | lines that were compared with a snapshot agree with it from then on |
| `Filled` | no empty cart gets past `LoadCart`, so a reservation names goods |
| `Backed` | once a reserve call under a key was answered, goods are held for some attempt under it: nothing takes them back |

### Cart

Assumptions: bounds are natural numbers, `None` is no id, SKU or reason, requests
are finitely many, a cart request has a user or a session, a merge has both.

* `StockRespected`: a quantity is checked, or read, awaits before it is written, and
  to another row than it was read from. `WithinStock` bounds what requests hold (the
  stock an add was told, what adds and updates are about to write, both snapshots
  of a merge) as well as the rows; `Addressed` says that the row they will write,
  if it is still there, is of the SKU they hold the quantity of, because no place
  in the table is used twice (`NeverUnused`) and no row changes its SKU.
* `AcceptedAreMarked`: `MarksStay` says that from the `UPDATE` of an event to the
  commit of its key, the rows that were there when it arrived keep the mark. No
  writer clears the column, and no row is inserted in the place of a deleted one;
  `RowsChange` is the lemma that a step does to a row nothing else than the code
  does (delete, insert, write quantity or mark, or give it to the user).
* `OneMergeLosesNothing` and `MergeLeavesTheLarger`: `Reads` says what a merge may
  still rely on of the rows it read two statements ago: that those which still
  exist are still the guest's or the user's, and for the same SKU.

### Favorites and ProductMarks

Assumptions: the size of a page and the bounds are natural numbers, the size not
zero.

* `PromiseKept`: the invariant `Inv` is `TypeOK` with `Remembers`: among the
  moments a waiting request has seen are the present and what its phase stands
  for, such as that a request about to reply to a removal has seen its mark
  absent. `TypeOK` alone says nothing of why an answer is true, because the answer
  is given several awaits after the step that decides it. Each action has one
  lemma, that it is one abstract step or a stutter. The harder cases are a
  `DELETE` that meets no row (the abstract call acts without effect, since it has
  seen its mark absent) and an insert the index refuses (a 500 that is allowed
  because the mark was absent and then present).
* `ScansAreComplete`: `Dated` says that the rows of a list have different times,
  so that places are dense and a page that is not full is the last; `Scanning`,
  that whatever is now in front of the offset and was owed has been seen, as long
  as nothing was lost. The proof shows why a loss has to count favourites that
  were hidden when they were removed (section 2).

### Catalog

Assumptions: categories and products are finitely many, orderings, prices,
discounts and quantities are integers, the size of a page is positive.

* `Truthful` adds `Hierarchy` to the three properties: paths that name the same
  category agree down to it, which is true of every forest (`ForestIsHierarchy`) and
  kept when a category is removed or moved between the two calls of a request. The order `build_tree` meets the categories in, and
  which of several cheapest SKUs `min` returns, are arbitrary.
* `PagingSeesAll`: rows that differ in their ordering are sorted in one way only
  (`SetToSeqs` has one element), so what a client has seen when it asks for a page
  is what lies before it (`Reading`), each row once, among the items or among the
  unavailable. Where an induction over the length of a sequence would be natural,
  the proof takes the least counterexample (`LeastOf`).

### Banners, requests, lists of orders

* `Banners` (assumptions: the last moment is a natural number, and no answer at
  all is not the answer 201): the invariant `Counting` says what a report knows
  between its awaits (`Viewed`, `Checked`) and that until its commit none of its
  events is stored (`Untouched`).
* `Identity` (assumption: a missing header is no subject and no bad id): by the
  kinds of token, for any subjects.
* `Filters` (assumptions: no scalar filter is named `attributes`, `category_id` is
  one, the paths are closed under beginnings, and what is printed is no value of the
  client): the invariant `Parsed` says what a path is bound to (`Expected`) by the
  values read for it and by whether names below it were given any; a dictionary
  under a value must have come first. It holds for queries of any length, as
  `Parse` is a step. Listing and facets follow from it separately.
* `OrderList` (assumptions: the size of a page is positive, the bound on orders a
  natural number): ranks are dense
  (`RanksAreDense`), so a page that is not full is the last (`SliceIsFull`). The
  invariant `Paging` says that an order which was there throughout, and now stands
  in front of the offset, has been told: orders that come in meanwhile only push
  others back.

### What is only model-checked

`PendingCancelIsResolved`, `DeliveredIsSettled` and the liveness half of
`KeepsOrderPromise`: fairness and `ENABLED` are outside what the prover can do.
The four properties that are expected to be violated are false, and TLC's
counterexamples are the findings. Every other property of a run has a theorem
above.

## 5. Not modelled

* The password hash and the token `login` issues: no other state depends on them.
* The list of collections: one page of a static table, with nothing to race but
  the date; `OrderList` has the same question with more to go wrong. Slugs, the
  cards of a listing and the filters of a category are formatting.
* The responses of the routers beyond what a client can tell apart.
* Prices at the time of adding, titles, images, addresses, payment methods.
* Migrations and configuration.
* The B2B itself: what is assumed of it is marked `external` in the map of
  `PROJECT.json` and said in the modules where it matters.

## 6. Plan

Done: order lifecycle, checkout, cart and events, catalog, favorites, banners,
identity, filters and lists of orders, with the proofs above. Left, most
important first:

1. `OrderLifecycle` and `Checkout` composed: the history of one order from its
   first attempt to its settlement, with one B2B. What either assumes of the
   other (an order starts `PAID` with its goods reserved under its own id) is
   `Init` of the one and `StoredIsReserved` of the other, both of which are
   proved; the composition would state that they meet.
2. Event acceptance as liveness: a sender that retries is heard in the end.
3. What the findings leave true where requests do overlap, as theorems of `Spec`
   rather than of `SerialSpec`: for example which statuses a lost update can
   return to.
