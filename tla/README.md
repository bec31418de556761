# MarketCore in TLA+

MarketCore is a marketplace: sellers (organizations) publish products, a buyer fills one cart
with products of several sellers, one checkout turns it into one order per seller, a payment
settles the checkout, and a worker cancels the checkouts nobody paid for. It is a TypeScript
monorepo: a NestJS API (`src/apps/api`), a worker process (`src/apps/worker`), a Next.js web
application whose server holds the session cookies (`src/apps/web`), and shared packages
(`src/packages/domain`, `contracts`, `database`, `runtime`). All shared state is in PostgreSQL,
used at READ COMMITTED through Prisma; the processes share nothing else.

This directory holds TLA+ modules that model the parts of it whose correctness depends on the
order in which concurrent calls reach the database, the TLC configurations that check small
instances, and TLAPS proofs for instances of every size. `PROJECT.json` lists the runs, the
mutants each property is known to detect, the source lines of every definition, the hazards and
the theorems.

    tlc -workers 2 -config MCPlacement_contention.cfg MCPlacement
    tlapm PlacementProofs.tla

## 1. Inventory

| Component | State it keeps | Operations | Talks to | Hard part | Correct when |
|---|---|---|---|---|---|
| Checkout placement (`apps/api/src/orders`) | `checkouts`, `orders`, `order_items`, `idempotency_keys` | `POST /checkouts` | cart, inventory, catalog rows, inside one transaction | double clicks, retries after a lost response, rows locked by others, bounded retry of aborted transactions | one key, one checkout; all or nothing; no oversell; no deadlock; every call answered |
| Cart (`apps/api/src/cart`) | `carts`, `cart_items` | get, set line, remove line | the cart row that checkout locks | an edit while a checkout decides | the cart emptied is the cart ordered |
| Payment capture (`apps/api/src/payments`) | `payments`, the provider's charge store | `pay` | checkout rows, the provider between two transactions | overlapping attempts, a process that dies between the charge and its record, a charge whose answer is lost, cancellation meanwhile | charged once; paid or refunded, never both; truthful answers |
| Auto-cancel worker (`apps/worker`) | none of its own, a timer | cancel a batch and restock, schedule, stop | checkouts, orders, inventory | several workers, death in mid-batch, stop racing a run | stock restored exactly once, every overdue checkout eventually cancelled |
| Catalog and inventory (`apps/api/src/catalog`) | `products`, `inventory` | create, update, publish, unpublish, set inventory | read by cart and checkout | each service reads, decides and writes without a lock | nothing published breaks the publication rule |
| Sessions, API (`apps/api/src/auth`) | `sessions`, `refresh_tokens` | login, refresh, logout | web application | one token presented twice, refresh racing logout | one live token per session, replay ends the session |
| Sessions, web (`apps/web/src/lib/session`) | the last rotation, the one in flight, cookies | ensure a fresh session, log in, log out | API sessions | many requests with one cookie, lost responses, several sessions in one process | no honest browser is taken for a thief |
| Organizations and access (`apps/api/src/organizations`, `security`) | `organizations`, `memberships` | create, add, remove, list, guards | every seller endpoint | two owners removing each other; a role checked before it is used | an organization keeps an owner; nothing of a tenant changes from outside it |
| Web cart and checkout pages (`apps/web/src/app/(shop)`, `lib/storefront`) | one page per tab: the cart it shows, its attempt key, what it awaits | load, edit a line, tick, place, follow a link, reload | cart and placement | a second click while the first is under way, answers out of order, prices that change behind the page | one mount of the review step makes one checkout, at the prices shown |
| Operator console (`apps/web/src/app/(dash)`, `lib/session/client.tsx`) | the session view and product list of each tab, the organization cookie of the browser | open, choose an organization, found one, list and add products | web sessions, organizations, catalog | no request names a tenant; one cookie for all tabs; a choice takes two requests | the page names the tenant its requests act in |
| Reads (`storefront`, buyer and seller orders) | none | lists and details | | | |
| HTTP infrastructure (`app.setup`, filters, health) | none | | | | |
| Other pages, contracts, generated client | none | | | | |

How they interact. Placement, cart, the worker, payment and the sellers' inventory edits meet on
PostgreSQL rows; what orders them is the lock each statement takes. The order is: idempotency
entry, cart row, inventory rows in bytewise product order (placement); checkout rows, then
inventory rows in the same order (worker); the checkout row alone (payment). The web application
reaches the API over HTTP, so any response may be lost and any call repeated, and its pages act on
what they were last told.

## 2. Modules

| Module | Models | State |
|---|---|---|
| `CheckoutTables` | the data shared by the checkout modules, and the pure operators on it: lines of a body, the orders a body becomes, restocking | constants only |
| `AtomicCheckout` | what checkout promises, without transactions: place, cancel, pay, edit the cart, set a count, each in one step | 5 tables |
| `Placement` | the implementation at the grain of row locks; implements `AtomicCheckout` | 8 tables, 5 variables per call, the rows and checkouts each transaction has locked |
| `MCPlacement` | instances of `Placement` | |
| `PlacementProofs` | its inductive invariant and theorems | |
| `OnePayment` | what payment promises, without attempts | 2 variables per checkout |
| `Payment` | `PaymentService.pay` at the grain of awaits, the simulated provider, process deaths, the worker's cancellation; implements `OnePayment` | checkout, orders and payment rows, the charge store, one control point per attempt |
| `MCPayment` | instances of `Payment` | |
| `PaymentProofs` | its inductive invariant and theorems | |
| `Sessions` | refresh and logout at the API, at the grain of awaits | sessions, refresh tokens, one control point per call |
| `MCSessions`, `SessionsProofs` | its instances; its inductive invariant and theorems | |
| `WebSession` | the web process: coordinator, `loadSession`, sign-out, cookies, responses; its API is an instance of `Sessions` | that of `Sessions`, the coordinator's two variables, a cookie per browser, one control point per request |
| `MCWebSession`, `WebSessionProofs` | instances of `WebSession`; its invariants and theorems, over an instance of `SessionsProofs` | |
| `AutoCancel` | the worker processes: start, signal, death, the scheduler's chain of ticks, the batches in the order of `placedAt`, the width of the stock column | the due checkouts and their order, `available`, six variables per process |
| `MCAutoCancel`, `AutoCancelProofs` | its instance; its invariant and theorems | |
| `Organizations` | the organizations controller and the two guards, one statement at a time | `organizations.status`, memberships, one control point per call |
| `Catalog` | the products controller behind those guards; extends `Organizations` | `products`, `inventory`, the row each handler read |
| `MCCatalog`, `SellerProofs` | an instance of both; the invariants and theorems of both | |
| `Shopping` | the cart page and the review step in a buyer's tabs; its API is an instance of `AtomicCheckout` | the tables of `AtomicCheckout`, prices, a page per tab, the requests under way |
| `MCShopping`, `ShoppingProofs` | its instance; its invariant and theorems | |
| `Console` | the operator's shell, switcher, first-run screen and products page, over the BFF routes | memberships, products, the organization cookie, a session view and a page per tab, the requests under way |
| `MCConsole`, `ConsoleProofs` | its instance; its invariant and theorems | |

How they compose. `AtomicCheckout` stands in the middle: `Placement` implements it (checked and
proved), and `Shopping` uses it as its API, so what the pages do need not be checked against row
locks (`UsesCheckout` proves the fit). `Catalog` extends `Organizations`: a products call stands at `handle` once the guards let it
through. `WebSession` drives `Sessions` the same way, which is proved (`UsesTheApi`), so the theorems of
`SessionsProofs` hold under it.

### Placement and the code

A `Request` is one HTTP call; a retry or a second click is another `Request` with the same buyer
and key. `pc` names the statement its handler is at:

| `pc` | the code is about to | action |
|---|---|---|
| `idle` | receive the body and read the currencies (`checkout.service.ts` 30-46) | `Submit` |
| `claim` | `INSERT ... ON CONFLICT DO NOTHING` of the key (`idempotency.repository.ts`) | `Claim` |
| `cart` | `SELECT ... FOR UPDATE` of the cart row | `LockCart` |
| `compare` | compare the cart with the body | `Compare` |
| `stock` | lock inventory rows one by one, re-read products, decide | `LockRow`, `Decide` |
| `write` | decrement, insert, clear the cart, complete the key, commit | `Place` |
| `reply` | read the checkout back and answer | `Reply` |

Statements that only touch rows the transaction has already locked are merged with the step that
follows, and writes appear at the commit: under READ COMMITTED no other transaction can tell the
difference, except by waiting, and the waiting is modelled (`KeyFree`, `CartFree`, `RowFree`,
`CheckoutFree`). `Abort` is a deadlock or serialization failure, which `withTransactionRetry`
repeats up to `Retries` times; `Fail` is everything else that can happen to a call, after which
its transaction is rolled back or, if it had committed, its answer is lost. A `Worker` is one run
of the job: `ClaimExpired` (`FOR UPDATE SKIP LOCKED`), `LockRow`, `Restock`, `FailRun`.

What is abstracted: `placedAt` (any pending checkout may be overdue), the reason attached to a
conflict, totals and names, and the price a cart line remembers. A body is a function from
products to quantities and prices, so equality of bodies is equality of the fingerprints of
`idempotency.ts`, in which the order of lines is lost. `Close` in `Refuse` covers `release`: the
claim was never visible to anybody, so nothing remains of it.

### Payment and the code

`claim` is transaction A, `lookup`/`refund` the path of a checkout found cancelled, `find` and
`record` the two statements of the simulated provider, `settle` and `fail` transaction B. Each
transaction locks the checkout row first and contends for nothing else, so it is one step;
`refundCancelled`, which locks no checkout row, is one statement. `Crash` may strike a `Mortal`
attempt at any await. The provider's verdict is a function of the checkout's total, fixed at
placement, so it is a variable chosen initially and never changed.

### Sessions, WebSession and the code

In `Sessions` a `Call` is one `POST /auth/refresh` or `/auth/logout` with any token at all. The
token is loaded and judged in one step (`Refresh`, `Logout`), and written in another: `rotate` is
`claimAndRotate`, `reuse` and `revoke` are `revokeSession`, `subject` is `findUserIdBySession`.
Nothing is locked between them, so the verdict may be stale when it is used; the only guard is the
`usedAt IS NULL` of the rotation. Token expiry needs no state: a token's is never before its
session's, because both spans are `REFRESH_TOKEN_TTL_MS` and the session's starts first.

`WebSession` holds `Api == INSTANCE Sessions` and drives it: a request carries the cookie of its
browser (`jar`), tries the access token (`read`), asks the coordinator (`refresh`: `Recall` from
`lastRotation`, `Join` a running exchange, or `Exchange`), waits for the exchange to settle
(`wait`, `Settle`), tries the new access token (`reread`) and sets or clears the cookie when its
response arrives (`Respond`), if it does (`LoseResponse`). `Restart` ends the web process: the
coordinator's two variables, which are module state, start empty and the requests under way are lost,
but not what the API was asked; `cut` remembers the browsers it left without a rotation they needed,
which are the ones `NoHonestReplay` excepts. An access token is named by the refresh
token issued with it; `Age` makes it stale. The one assumption about time is in `Age`: a request
does not take fifteen minutes, so those under way when a token goes stale were sent with it.

### AutoCancel and the code

A process is `up`, has its Prisma client `open`, a `timer` armed or not, and at most one `run`:
`started` (`cancelExpired` begins), `claimed` (its `UPDATE ... SKIP LOCKED` has its rows), `settled`
(the job's promise resolved, perhaps after a failure it logged). `Tick` and `Finish` are the two
halves of `scheduler.ts`'s `tick`; `Signal` is `stop()` up to its `await`, `Disconnect` what follows
it in `main.ts`, `Exit` the `process.exit`. `Start` ticks at once, as `startInterval` does. Time is
`Age`: it makes unpaid checkouts overdue, oldest first. `Overflow` is the `increment` that leaves
the INTEGER column: PostgreSQL aborts the statement, and the batch with it. What a run does row
lock by row lock beside placements and payments is in `Placement`.

### Organizations, Catalog and the code

A `Call` is one HTTP request with a valid token. `Arrive` routes it; `ReadMembership` and `Admit`
are the two queries of `OrganizationGuard`, with `RolesGuard` (`MayHandle`) after the second, on the
role the first one read. Then one action per statement: `Lookup`, `Insert` (`addMember`), `Lock`,
`Count`, `Delete` (`removeKeepingAnOwner`, whose `FOR UPDATE` of the organization row an insert
waits for), `Create`; and in `Catalog` `CheckPrice`, `Reprice` (`update`), `Plan`, `Transition`
(`publish`, `unpublish`), `SetStock`, `ReadBack` (`setInventory`), `CreateProduct`, `Read`. `InScope`
is `tenantScope`, composed into every query. A write answers what it did or, when the process or the
connection dies at or after the commit, nothing the caller can use (`Committed`, `Written`: `OK` or
`ERROR`); `Fail` is the loss before it, rolled back. `SetStatus` stands for the operator who disables an
organization, which no code does.

### Shopping and the code

A page is one mount of a React component, named by the idempotency key it mints. A request that is
under way is a record in `call`: who awaits it (`tab`, `page`), what it asks, and its answer once the
API has given it. A request outlives its page (`Mounted` guards every set-state), and a request that
failed for the page may still be carried out (`Break`, then the API's action, then `Vanish`). Each
statement of the API is a step: `PriceLine` and `SetLine` are the two of `setLine`, `ReadCart` the
read behind every cart answer, `Place` and `RefuseOrReplay` are `POST /checkouts` as
`AtomicCheckout` promises it. `Pushed` gives the button back before the navigation has happened, as
the `finally` of `place` does; `Arrive` is the navigation. `overlapped`, `old`, `wrote` and `made`
are history.

### Console and the code

A `Call` is one async function of a page from its first `fetch` to its last: `choose` is `Choose`,
`Remember`, `GotSelect` (which sends the session request it awaits), `ReadSession`, `GotSession`;
`submit` of the products page is `Submit`, `Resolve`, `CreateProduct`, `GotCreated`, then the list it
awaits. `jar` is the cookie the request carries, read when it is sent, as the browser does. `Resolve`
is the BFF's `loadSession` with `resolveActiveOrganization`, `Products` and `CreateProduct` the call
to the API that follows, between which a membership may go. `List` is `load`: the effect runs it
whenever the session's active organization is another, and nothing aborts an earlier list. `Lose` is
a rejected `fetch`: the request goes on for nobody. The session itself stands here (its tokens are
`WebSession`'s). `clean`, `overtaken`, `named` and `added` are history: they say which changes were
somebody else's, and which list was answered after a newer one.

## 3. Runs

| Run | Instance | Question |
|---|---|---|
| `double_click` | one buyer, one key, 2 calls, 2 products in 2 currencies, 2 bodies, one worker run, one retry, fair | idempotency: can repeats, changed bodies, losses and rollbacks give one key two checkouts or an answer that is not so? Is every call answered? |
| `contention` | 2 buyers, 2 calls, 2 products of 2 sellers, 2 worker runs, sellers changing everything | deadlock, oversell, units created or lost, and refinement of `AtomicCheckout` |
| `currency` | 1 call, 2 products in 2 currencies, publication at any time | finding 1 |
| `attempts` | 3 attempts on one checkout and on another buyer's, any may die anywhere, fair | all safety of payment, refinement of `OnePayment`, and does the attempt after a lost charge resolve it? |
| `forgotten` | one attempt | finding 2 |
| `rotation` | one session, 4 tokens, 3 calls | do racing refreshes, replays and logouts leave one live token, and a revoked session dead? |
| `one_browser` | one browser, 4 requests, 3 calls to the API, 4 tokens, restarts at any time | is an honest browser ever taken for a replay, forgotten, or left with a spent token? |
| `two_browsers` | two browsers, 3 requests | finding 3 |
| `worker` | 2 processes, 3 checkouts, batches of 2, a column that holds 3, one failure, fair | do runs overlap or outlive their connection, is any overdue checkout left for good, does a stopped process leave? |
| `sellers` | 3 calls of 3 users, 2 organizations, one product, 16 kinds of request | does an organization keep an owner, do answers account for the rows though some are lost, can a giveaway be published, can anything change from outside its tenant? |
| `browser` | one tab and another device, 2 requests at a time, 2 keys, one product whose price may rise once | one mount, one checkout, at the prices shown; is a quiet cart page up to date? |
| `tenants` | 2 tabs, 2 organizations, one product, 2 calls, one trouble | does a tab at rest name the organization its requests act in, is the newest list of its page that one's, is a product filed where the page said? |

Bounds. In `double_click` the second call repeats, races or follows the first, and one retry lets a
claim be rolled back under the other's wait; two products are the least with a lock order to get
wrong, and two calls with two worker runs the least that can wait in a cycle of calls and runs; one
unit of stock makes every pair of orders conflict. `MaxQty` is 1 because a line's size matters only
against the stock. `CheckoutId` holds two uuids: a third checkout would need a third buyer, key or
cart. `Retries` is 0 or 1: a retry starts from the same statement with nothing left of the last, so
a second one repeats the first. Three attempts of `pay` are the least with which one dies after the
charge, a second settles and a third is late. Three session calls are the least with two in a race
and a third that ends the session between them; four tokens let every one of them rotate. Four
requests of a browser give one that rotates, one that shares the exchange, one that is late, and one
of the next generation.

Three checkouts in batches of two (`worker`, 49,664 states) are the least with which one waits while
others arrive; ids are used again, so arrivals never end and a batch that is not oldest-first
starves somebody. `MaxInt` 3 lets a seller's count leave room for none, one or two units.
`MaxFaults` is 1 because a failure leaves nothing behind in memory. Three calls (`sellers`) are two
that race and one between them; `MCAsk` holds each operation from an owner, a member and a
stranger where that differs, and any of the three may lose its answer (2.9 million states). One tab (`browser`, 1.5 million states) loses nothing of one page's
races, since a page that was left goes on in the same tab; the other device edits the same cart.
Two tabs and two calls (`tenants`, 2.6 million states) are the least with a choice in one and a
request of the other; `MaxTrouble` bounds the failures, lost connections and changes of membership
to 1, and 2 were explored once (12.7 million states) with no other result.

In the placement, worker and console runs deadlock is checked; the payment, session, `sellers` and
`browser` runs stop when all attempts, calls, requests, keys or uuids are used up, which is why they
say `CHECK_DEADLOCK FALSE`.

Symmetry is used in the safety runs only, over sets whose members no assumption tells apart.

Each property is known to fail when the code it is about is wrong: `PROJECT.json` names for each
a mutation of one mapped definition (the lookup without the unique index, the row order of the
request, a settlement that does not lock, a charge recorded twice, a tick armed after `stop`, a
removal that locks nothing, a key per click, a switcher that does not read the session again, ...).
The mutated forms are the definitions marked `Mutant` in the modules; no specification uses them.

### Fairness

`Placement`: a handler runs on (weak fairness of the steps that wait for nothing) and a row lock
that becomes free again and again is got (strong fairness of `Claim`, `LockCart`, `LockRow`),
because PostgreSQL serves the waiters of a row in order. Buyers, sellers, payments, aborts, losses
and the start of worker runs are not fair. `Payment`: weak fairness of each attempt's next step;
placements, cancellations, calls and deaths are not fair. `AutoCancel`: weak fairness of each
process's next step, its start included: that a worker which is down is started again is the
deployment's part, of which the repository says nothing but that a restarted worker catches up
(`docs/failure-scenarios.md:30`); without it nothing promises that anybody cancels. Arrivals,
payments, sellers and signals owe nothing, and failures are finitely many (`MaxFaults`), without
which every batch could fail. The other modules state no liveness: their next steps are a user's.

## 4. Proofs

Everything here holds for any finite or infinite number of calls, workers, buyers, products and
attempts, from the assumptions named in the modules (`ProductsOrdered`: products are linearly
ordered, with a last one; `BasketsAreBodies`: no empty body; `RequestFacts`, `PayFacts`;
`TablesHaveOwners`: the memberships found at the start give every organization with members an
owner; `NoneIsNoPage`, `NoneIsNothing`, `NoneIsNobody`: the value for "none" is none of the others).
Two theorems have a hypothesis of their own, `OneCurrencyUnlessPublished` and `NoReplayOfOneBrowser`,
and say so below.

`PlacementProofs`. None of the invariants is inductive alone: that `write` finds enough stock
depends on nobody having written a row that is locked, which depends on locks being exclusive,
which depends on what each transaction holds at each statement. The inductive invariant `IInv`
is the conjunction of `TypeOK`, `Staged` (what a transaction has, and may count on, at each
statement: its uuid is its own, its cart is compared, its rows are those of its body, its lines
stand), `Locked` (no two transactions hold one key, cart, inventory or checkout row) and `InOrder`
(rows are held in ascending order: whatever is still needed is above everything held). From it:

- `TypeCorrect`: in particular `available` stays natural (INV-1, the CHECK constraint never fires).
- `DecisionsHold`: from decision to commit nothing takes the stock or changes the cart.
- `NoDeadlock`: every transaction in a waiting set waits for something that ranks above all it
  holds; the holder of the highest-ranked thing waits for nobody in the set.
- `CheckoutIsAtomic`: each step is a step of `AtomicCheckout` or changes none of its tables.
- `OrdersFollow`, `KeysNameCheckouts`, `AnswersAgree`: the tables agree with each other and with
  everything clients were told, each by its own induction on top of `IInv`.
- `UnitsAreConserved` (INV-15). `Units` counts pairs of an order and a number up to its quantity, so
  that a sum over orders is a cardinality and needs no induction over sets: the units of what is
  restocked and of what is kept are two disjoint finite sets (`UnitsSplit`), those of a new checkout
  one per unit of its body (`PlacedUnits`). That a restock gives back all a checkout held and
  nothing a paid one holds is `OrdersFollow`: the orders of a checkout have one status, its own.
- `OneCurrencyUnlessPublished`. `OneCurrency` is false (finding 1); it follows under the one
  condition finding 1 breaks, that no product is published between the read before the locks and
  the write of a call with a line for it (`NoneIsPublishedMeanwhile`, an action formula): what was
  visible then is, row by row, all that is written.

`SessionsProofs`. `IInv` is `TypeOK`, what the two tables are to each other (`Rows`, of which
`OneLiveToken` is a part), what each call may count on at each await and what its answer meant
(`Stage`), and that rotations share neither the token they spend nor the one they issue
(`Issued`). From it `OneTokenLives`, `PairsChain`, `SecondUseEnds`, and `RevocationEnds` by a
second induction on `DeadEnd`: once a session is revoked, a token issued into it can be presented
but never gets past the verdict.

`PaymentProofs`. `IInv` is `TypeOK`, the books of each checkout (what its status, its payment row,
the charge store and the verdict may be together), the stage of each attempt (what the row and the
store must be while an attempt stands at each await, although other attempts and the worker may
have moved since), and that at most one attempt was told `PAID`. Its stability under other
attempts' steps is `StageStands`: rows only grow. From it `TypeCorrect`, `AtMostOneCharge`,
`MoneyFollows`, `ChargesAreRecorded`, `AnswersHold`, `MovesAreLegal` and `PaymentIsOne`.

`AutoCancelProofs`. The invariant is `TypeOK`, that runs hold disjoint batches of pending checkouts,
and what the scheduler's flags are to each other: an armed timer excludes a run, `stopped` excludes
a timer, a closed connection excludes both. From it `TypeCorrect` (with the overflow guard, the
column never leaves its width), `OneRunAlways`, `NoRunAfterDisconnectAlways`, `RunsDivideTheDue`.

`SellerProofs`. That the last owner stays is not inductive: `Delete` acts on what `Count`
saw. The strengthening says that one call at a time stands between `Lock` and its commit in an
organization, and that at `delete` the target is not the only owner still; inserts and guards add
nobody who matters. `OwnerAlways` follows for any number of users and calls. `AnswersAccount` relates
the row of a user to how many calls were told they added or removed it. Some that were not told did it
too: their answer was lost after the commit, and no variable says which. `Books` therefore claims that
some set of failed calls exists which, with those that were told, accounts for every row (`Booked`); a
step that writes adds its call to the set whatever it answers, and a refusal or a rollback leaves the
set alone (`Joined`, `Left`, `Refused`). What makes a write count once is that an insert finds no row,
by the unique index, and that the row `delete` takes was seen under the lock, which inserts respect
and other removals wait for (`Answering`). `UsesOrganizations` (each step of `Catalog` is one of `Organizations` or
leaves its variables alone) carries both over to the products controller, where `TenantAlways` is
INV-9 as an action property, and `GiveawaysOnlyByRaces` says that an update that writes a price below
the minimum has seen a draft, and a publication a price that may be published, so one of them acts
on a row that has changed.

`ShoppingProofs`. `IInv` says of each record on its own what a step may count on: a page that is
not elsewhere has a key, a view has a price beside every line, a placement under way carries its
page's key and what its button had asked for (`Clicked`); and of the tables that a checkout's page is
one whose key was spent on it (`Made`). `UsesCheckout` is a refinement: every step of the pages and
their requests is a step of `AtomicCheckout` or leaves its tables alone, which needs `Clicked` (what
is placed is a body the API admits). Since a step changes one or two records, the step lemmas are
short; since the API spends a key once, `OneMountOneCheckout` follows from `Made`, and
`ChargedAsShown` from `Clicked` and the comparison of prices in `Place`. `AnyBasket` assumes that the
bodies include whatever a page can show. `QuietPagesAreFresh` is about order, so `IInv` cannot give
it; `Conversations` adds, per tab, that keys tell pages apart (a request of a page that was left is
never taken for one of the page in its place), that a page which edits one line at a time has one
request under way whose answer is as new as any, and that what it shows is old only until that one answers.

`WebSessionProofs`. `UsesTheApi` is a refinement: every step of the browsers and of the web process is
a step of `Sessions` or leaves its variables alone. `Web` then says what is known of the tokens: those
in a cookie or a request are of their browser's session, and the call that issued them was answered
(`Hands`); the memory is the pair of an answered call (`Memory`); an exchange under way presents the
token its waiters brought (`Exchanges`). `QuietCookieIsLive` holds for any number of browsers. Its strengthening `InStep` says of
a browser that lost no response: once the access token of its live token is stale, nothing else is in
its hands (`Latest`); if its cookie is replaced then a request is bringing the replacement (`Brought`);
no answer on its way carries a replaced token (`Answered`); and if it still holds a token that was
replaced, what replaced it was not (`Linked`). `ForgottenOnlyWhenOver` adds `Remembers`: whatever clears
a cookie has read the end of the session or is a sign-out, or the browser lost a response before, which
is where `InStep` is needed again.
`NoReplayOfOneBrowser` assumes that there is one browser and is false with two (finding 3); its
invariant `Honest` says what a memory of one entry is good for: each replaced token in the browser's
hands is one that the memory, or the exchange under way, replaces by a live one (`AllCovered`), there is
at most one such token (`OneReplaced`, `Together`), and a live token that went stale is all there is in
hand, or what the memory will answer with (`Traced`), so no rotation evicts an entry that is needed. A
rotation for another browser does, which breaks `AllCovered`.

`ConsoleProofs`. `Inv` has a part for each tab and one for each submission. `TabInv` says which
requests a tab awaits (`Waits`: a loading page or shell has one; `Alone`: outside the shell there is
at most one; `OneSwitch`), what a session request that nothing has overtaken will be answered with
(`Read`: it carries the cookie of now, or was answered from the memberships of now; one that has been
overtaken makes its tab and lists so), and what is on the screen because of it (`Shown`, `Listed`,
`Paged`, around `Aim`, the organization the tab acts in or will once its session is read). `New` says
that a submission's product is its own and in no catalog before it is created, `Named` that a clean
submission resolves to the organization its page named. A step of another tab changes nothing of
this beyond marking the tab overtaken (`AsideKeeps`), and a route of the BFF changes only the request
it serves (`RouteKeeps`); what remains are the tab's own actions, a lemma each. From it `Typing`,
`FiledWherePageSays`, `QuietPageNamesItsTenant` and `LatestListIsOfTheTenant`, for any number of tabs,
organizations and calls and any `MaxTrouble`. The last is about the newest list only: a list answered
after a newer one is of whatever organization it was asked for.

Proved, and checked by no run of their own: `DecisionsHold`, `OrdersFollow`, `MovesAreLegal`,
`PairsChain`, `RunsDivideTheDue`.

Model-checked only. Liveness (`EveryCallIsAnswered`, `RetryResolves`, `LateButNeverLost`,
`StopEnds`) needs `ENABLED` and fairness. `OneCurrency` as it stands, `CaptureAfterCancelIsRefunded`, and
`NoHonestReplay` with several browsers are false: they are the findings below. Every other property
of a run is a theorem.

## 5. Findings

1. `currency`. The comment at `checkout.repository.ts:205` says one currency is guaranteed because
   the service refused a mixed request before any lock. That read counts only public products; a
   draft in another currency, published between it and the locked re-read, is placed in the same
   checkout under the first line's currency. No other step does it (`OneCurrencyUnlessPublished`).
2. `forgotten`. `docs/failure-scenarios.md:31` says a capture after auto-cancel is refunded in
   full. When the provider charged and its answer was lost, only another call of `pay` by the
   buyer finds the charge; if none comes the money stays taken.
3. `two_browsers`. The coordinator's memory is one entry for the whole process. Another browser's
   rotation evicts it, and a late request with the superseded token ends its own session, which
   `docs/adr/011-web-session-and-token-storage.md:30` says the memory prevents. With one browser it
   does (`one_browser`).

Met while modelling, and not run:

- `refresh.ts:40`: the memory hands out a pair of any age. A browser that lost the response of a
  rotation and returns after the new access token expired is signed out with a live refresh token
  in hand, although the comment at `session.ts:63` says a second 401 means the token is finished.
  `ForgottenMeansOver` excepts every browser that lost a response, and this case with it.
- `catalog.service.ts:49`: a repricing below the minimum and a publication that cross publish a
  product nobody can order; `GiveawaysAreRaces` says that only such a race does it.
- `auto-cancel.repository.ts:57`: one count at the top of the column makes every batch that holds
  its product fail, at every run; `LateButNeverLost` excepts it (`Poisoned`), while
  `docs/failure-scenarios.md:30` promises only lateness.
- `organization.service.ts:63`: of two additions of one user the loser's unique violation becomes an
  internal error, not `ALREADY_A_MEMBER`.
- `review-view.tsx:15`: a box ticked for one set of prices still stands after the cart is loaded
  again with others; the order is then placed at prices ticked for, but not these.
- `logout/route.ts:33`: a load that rotated before the sign-out and answers after it sets its cookies
  again; the session is revoked all the same.
- `account/orders/page.tsx:30`: "more" is not disabled while a page loads; two clicks append the same
  page twice. `p/[slug]/page.tsx:31`: the answer for the previous slug is not discarded.
- `admin/products/page.tsx:41`: `load` neither aborts nor discards an earlier list. In one tab, with
  no failure: the list of A is asked for, B is chosen and its session read, the list of B is asked for
  and answered, and then the list of A is answered. At rest the page shows A's products under B's name,
  although e2e `web-journey.spec.ts:213` says it "lists the products of the organization the session acts
  in". `LatestListIsTheTenants` excepts a list that a newer one overtook (`clean`); without that
  conjunct TLC finds these steps in `tenants`.
- `cart/page.tsx:24`: the answers of two requests of the cart page are rendered in the order they
  arrive, so two quick edits may leave the older cart on screen. `QuietPageIsFresh` excepts a page
  with two requests under way (`overlapped`); without that conjunct TLC finds it in `browser`.
- `organization-switcher.tsx`, `client.tsx:133`: `selectOrganization` does not look at the status of the
  answer, so a refused choice shows no error. A product submitted in one tab is filed where the cookie
  points by then, which another tab may have moved. `FiledWhereNamed` excepts that, a membership that
  changed meanwhile, and a product submitted while its own tab is switching.

## 6. Not modelled, and the plan

Not planned: reads (storefront, order lists, pagination), which keep and change no state; the error
envelope, validation, health checks, logging; the sign-in and registration pages, which send one
request; presentational components, contracts, the generated client, the generators of the design
documents under `docs/`, build and lint configuration. Most of the repository's lines are of these
kinds, and a model of them would say nothing.

Left out of modelled parts: registration, passwords and access tokens (`Sessions`); a second sign-in
of a browser, and a sign-in whose answer is lost (`WebSession`); several buyers in `Shopping`, and its inventory edits beyond one count.

What remains to prove or to state, in this order:

| What | Content |
|---|---|
| Action properties | a rotation that is under way is never evicted from its own exchange (`WebSession`); a switch that is under way is the only one of its tab (`Console`, today a part of the invariant) |
| Hazards without a property | those with a note and no property in `PROJECT.json`. Four are what the code does (an old remembered pair, the crossing of a repricing and a publication, the poisoned batch, the cart out of order) and stand under findings; two are about what a person meant by what they saw, and need a history variable for it |
