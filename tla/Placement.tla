----------------------------- MODULE Placement ------------------------------
(***************************************************************************)
(* The checkout transaction and everything that contends with it for a     *)
(* row, at the grain of row locks.                                         *)
(*                                                                         *)
(* A Request is one call of POST /checkouts: a retry or a second click is  *)
(* another Request with the same buyer and key.  Its transaction takes the *)
(* idempotency entry, the buyer's cart row, then inventory rows one by one *)
(* in product order; statements that only read rows it has locked are one  *)
(* step, and its writes become visible at commit (READ COMMITTED).  A      *)
(* Worker is one run of the auto-cancel job, in any worker process.        *)
(* Transactions that lock one row and commit (cart writes, setAvailable,   *)
(* the payment settlement) are atomic and wait for the row to be free.     *)
(*                                                                         *)
(* Left to other modules: conflict reasons and totals, `placedAt` (any     *)
(* pending checkout may be past the cutoff), and what a payment does       *)
(* before it settles.                                                      *)
(***************************************************************************)
EXTENDS CheckoutTables

CONSTANTS
  Request, BuyerOf, KeyOf,   \* HTTP calls, who makes them, with which key
  Worker,                    \* concurrent runs of the auto-cancel job
  BatchSize,                 \* checkouts one run may cancel
  Retries,                   \* TRANSACTION_RETRIES
  Stock,                     \* counts a seller may set
  Visibility                 \* what onSale may be: {TRUE} fixes every product

ASSUME RequestFacts == /\ BuyerOf \in [Request -> Buyer]
                       /\ KeyOf \in [Request -> Key]
                       /\ Request \cap Worker = {}
ASSUME LimitFacts == /\ BatchSize \in Nat \ {0}
                     /\ Retries \in Nat
                     /\ Stock \subseteq Nat
                     /\ Visibility \subseteq BOOLEAN

VARIABLES
  \* committed rows
  available,  \* inventory.available
  price,      \* products.priceMinor
  onSale,     \* the product is PUBLISHED and its organization ACTIVE
  cartRow,    \* buyers that have a cart row
  cart,       \* cart_items: quantity by buyer and product
  keys,       \* idempotency_keys by (buyer, key)
  status,     \* checkouts.status, ABSENT for an id no checkout has
  orders,     \* orders with their items
  \* calls in flight
  pc,         \* where each request's handler stands
  basket,     \* each request's body
  minted,     \* the uuid of the open transaction, once its claim is in
  tries,      \* transactions a retryable error has aborted so far
  answer,     \* what the handler answers
  rows,       \* inventory rows each open transaction holds FOR UPDATE
  batch       \* checkout rows each worker run has updated, uncommitted

tables == <<available, price, onSale, cartRow, cart, keys, status, orders>>
calls  == <<pc, basket, minted, tries, answer>>
vars   == <<tables, calls, rows, batch>>

Slot(r) == <<BuyerOf[r], KeyOf[r]>>

CheckoutStatus == {"ABSENT"} \cup OrderStatus

InTx == {"claim", "cart", "compare", "stock", "write"}

Answers == {"NONE", "PLACED", "REPLAYED", "KEY_REUSED", "CART_CHANGED",
            "REJECTED", "MIXED_CURRENCY", "CONTENDED", "LOST"}

TypeOK ==
  /\ available \in [Product -> Nat]
  /\ price \in [Product -> Price]
  /\ onSale \in [Product -> Visibility]
  /\ cartRow \subseteq Buyer
  /\ cart \in [Buyer -> Quantities]
  /\ keys \in [Buyer \X Key -> [basket: Basket, id: CheckoutId] \cup {None}]
  /\ status \in [CheckoutId -> CheckoutStatus]
  /\ orders \subseteq Order /\ IsFiniteSet(orders)
  /\ pc \in [Request -> {"idle", "reply", "done"} \cup InTx]
  /\ basket \in [Request -> Basket \cup {None}]
  /\ minted \in [Request -> CheckoutId \cup {None}]
  /\ tries \in [Request -> 0..Retries]
  /\ answer \in [Request -> [kind: Answers, id: CheckoutId \cup {None}]]
  /\ rows \in [Request \cup Worker -> SUBSET Product]
  /\ batch \in [Worker -> SUBSET CheckoutId]

Init ==
  /\ available \in [Product -> Stock]
  /\ price \in [Product -> Price]
  /\ onSale \in [Product -> Visibility]
  /\ cartRow = {}
  /\ cart = [b \in Buyer |-> NoLines]
  /\ keys = [s \in Buyer \X Key |-> None]
  /\ status = [id \in CheckoutId |-> "ABSENT"]
  /\ orders = {}
  /\ pc = [r \in Request |-> "idle"]
  /\ basket = [r \in Request |-> None]
  /\ minted = [r \in Request |-> None]
  /\ tries = [r \in Request |-> 0]
  /\ answer = [r \in Request |-> [kind |-> "NONE", id |-> None]]
  /\ rows = [x \in Request \cup Worker |-> {}]
  /\ batch = [w \in Worker |-> {}]

-----------------------------------------------------------------------------
(***************************************************************************)
(* Who holds which row.                                                    *)
(***************************************************************************)
HoldsKey(r)  == pc[r] \in {"cart", "compare", "stock", "write"}
HoldsCart(r) == pc[r] \in {"compare", "stock", "write"}

\* Mutants: the key is looked up, then written, with no unique index to arbitrate;
\* cart writes and checkout do not share a lock.
KeyLookedUp(r) == TRUE
CartUnlocked(b) == TRUE
StockUnlocked(p) == TRUE

KeyFree(r)  == \A q \in Request : HoldsKey(q) => Slot(q) # Slot(r)
CartFree(b) == \A q \in Request : HoldsCart(q) => BuyerOf[q] # b
RowFree(p)  == \A x \in Request \cup Worker : p \notin rows[x]
CheckoutFree(id) == \A w \in Worker : id \notin batch[w]

\* The inventory rows a transaction locks before it writes.
Needs(x) == IF x \in Request
              THEN IF pc[x] = "stock" THEN Lines(basket[x]) ELSE {}
              ELSE HeldBy(orders, batch[x])

\* Mutant: rows are locked in whatever order the request lists them.
AnyRow(x, p) == p \in Needs(x) \ rows[x]

\* ORDER BY "productId" COLLATE "C" FOR UPDATE: the lowest row not held yet.
NextRow(x, p) == /\ p \in Needs(x) \ rows[x]
                 /\ \A q \in Needs(x) \ rows[x] : p <= q

LockRow(x, p) == /\ NextRow(x, p)
                 /\ RowFree(p)
                 /\ rows' = [rows EXCEPT ![x] = @ \cup {p}]
                 /\ UNCHANGED <<tables, calls, batch>>

-----------------------------------------------------------------------------
(***************************************************************************)
(* A request.                                                              *)
(***************************************************************************)
Goto(r, l) == pc' = [pc EXCEPT ![r] = l]

\* The transaction ends: its locks go and its uuid is forgotten.
Close(r) == /\ rows' = [rows EXCEPT ![r] = {}]
            /\ minted' = [minted EXCEPT ![r] = None]

Answer(r, kind, id) == answer' = [answer EXCEPT ![r] = [kind |-> kind, id |-> id]]

\* The handler refuses; a refusal after the claim also releases it (D98), and
\* since the claim was never visible nothing is left of it.
Refuse(r, kind) == /\ Goto(r, "done")
                   /\ Answer(r, kind, None)
                   /\ Close(r)

\* CheckoutService.place: the currencies of the lines a buyer can see, read
\* before the transaction.
Submit(r, b) ==
  /\ pc[r] = "idle"
  /\ basket' = [basket EXCEPT ![r] = b]
  /\ \/ /\ Cardinality({CurrencyOf[p] : p \in {q \in Lines(b) : onSale[q]}}) > 1
        /\ Refuse(r, "MIXED_CURRENCY")
     \/ /\ Cardinality({CurrencyOf[p] : p \in {q \in Lines(b) : onSale[q]}}) <= 1
        /\ Goto(r, "claim")
        /\ UNCHANGED <<answer, rows, minted>>
  /\ UNCHANGED <<tables, tries, batch>>

\* A uuid nothing committed or in flight carries.
Fresh(id) == /\ status[id] = "ABSENT"
             /\ \A q \in Request : minted[q] # id

\* Mutant: a spent key is replayed whatever body it comes with.
ClaimAnyBody(r) ==
  /\ pc[r] = "claim"
  /\ KeyFree(r)
  /\ LET entry == keys[Slot(r)] IN
     \/ /\ entry = None
        /\ \E id \in CheckoutId : Fresh(id) /\ minted' = [minted EXCEPT ![r] = id]
        /\ Goto(r, "cart")
        /\ UNCHANGED <<answer, rows>>
     \/ /\ entry # None
        /\ Goto(r, "reply")
        /\ Answer(r, "REPLAYED", entry.id)
        /\ UNCHANGED <<rows, minted>>
  /\ UNCHANGED <<tables, basket, tries, batch>>

\* INSERT … ON CONFLICT DO NOTHING: waits for an uncommitted entry with the
\* same buyer and key, then inserts, or reads the committed entry it hit.
Claim(r) ==
  /\ pc[r] = "claim"
  /\ KeyFree(r)
  /\ LET entry == keys[Slot(r)] IN
     \/ /\ entry = None
        /\ \E id \in CheckoutId :
             /\ Fresh(id)
             /\ minted' = [minted EXCEPT ![r] = id]
        /\ Goto(r, "cart")
        /\ UNCHANGED <<answer, rows>>
     \/ /\ entry # None
        /\ entry.basket # basket[r]
        /\ Refuse(r, "KEY_REUSED")
     \/ /\ entry # None
        /\ entry.basket = basket[r]
        /\ Goto(r, "reply")
        /\ Answer(r, "REPLAYED", entry.id)
        /\ UNCHANGED <<rows, minted>>
  /\ UNCHANGED <<tables, basket, tries, batch>>

\* SELECT … FOR UPDATE on the cart row; without a row there is nothing to lock.
LockCart(r) ==
  /\ pc[r] = "cart"
  /\ \/ /\ BuyerOf[r] \notin cartRow
        /\ Refuse(r, "CART_CHANGED")
     \/ /\ BuyerOf[r] \in cartRow
        /\ CartFree(BuyerOf[r])
        /\ Goto(r, "compare")
        /\ UNCHANGED <<answer, rows, minted>>
  /\ UNCHANGED <<tables, basket, tries, batch>>

\* sameLines: the request must be the cart (SRS-FR-CHK-006).
Compare(r) ==
  /\ pc[r] = "compare"
  /\ \/ /\ cart[BuyerOf[r]] # basket[r].qty
        /\ Refuse(r, "CART_CHANGED")
     \/ /\ cart[BuyerOf[r]] = basket[r].qty
        /\ Goto(r, "stock")
        /\ UNCHANGED <<answer, rows, minted>>
  /\ UNCHANGED <<tables, basket, tries, batch>>

\* One line of evaluateCheckoutLines, on the state read under the locks.
LineStands(r, p) == /\ onSale[p]
                    /\ available[p] >= basket[r].qty[p]
                    /\ price[p] = basket[r].price[p]

\* Every row is locked: products are re-read and the decision is taken.
Decide(r) ==
  /\ pc[r] = "stock"
  /\ rows[r] = Lines(basket[r])
  /\ \/ /\ \A p \in Lines(basket[r]) : LineStands(r, p)
        /\ Goto(r, "write")
        /\ UNCHANGED <<answer, rows, minted>>
     \/ /\ \E p \in Lines(basket[r]) : ~LineStands(r, p)
        /\ Refuse(r, "REJECTED")
  /\ UNCHANGED <<tables, basket, tries, batch>>

\* Mutant: the cart is not emptied with the order it became.
PlaceKeepingCart(r) ==
  /\ pc[r] = "write"
  /\ available' = [p \in Product |-> available[p] - basket[r].qty[p]]
  /\ status' = [status EXCEPT ![minted[r]] = "PENDING_PAYMENT"]
  /\ orders' = orders \cup OrdersFor(minted[r], BuyerOf[r], basket[r])
  /\ keys' = [keys EXCEPT ![Slot(r)] = [basket |-> basket[r], id |-> minted[r]]]
  /\ Goto(r, "reply")
  /\ Answer(r, "PLACED", minted[r])
  /\ Close(r)
  /\ UNCHANGED <<price, onSale, cartRow, cart, basket, tries, batch>>

\* Step 6 and the commit: stock, checkout, orders, cart and the key together.
Place(r) ==
  /\ pc[r] = "write"
  /\ available' = [p \in Product |-> available[p] - basket[r].qty[p]]
  /\ status' = [status EXCEPT ![minted[r]] = "PENDING_PAYMENT"]
  /\ orders' = orders \cup OrdersFor(minted[r], BuyerOf[r], basket[r])
  /\ cart' = [cart EXCEPT ![BuyerOf[r]] = NoLines]
  /\ keys' = [keys EXCEPT ![Slot(r)] = [basket |-> basket[r], id |-> minted[r]]]
  /\ Goto(r, "reply")
  /\ Answer(r, "PLACED", minted[r])
  /\ Close(r)
  /\ UNCHANGED <<price, onSale, cartRow, basket, tries, batch>>

\* The checkout is read back and the response reaches the client.
Reply(r) == /\ pc[r] = "reply"
            /\ Goto(r, "done")
            /\ UNCHANGED <<tables, basket, minted, tries, answer, rows, batch>>

\* Mutant: the retries are not counted.
AbortForever(r) == /\ pc[r] \in InTx
                   /\ Goto(r, "claim")
                   /\ Close(r)
                   /\ UNCHANGED <<answer, tries, tables, basket, batch>>

\* A deadlock or serialization failure rolls the transaction back and
\* withTransactionRetry runs it again; the last one is answered 409 CONTENDED.
Abort(r) ==
  /\ pc[r] \in InTx
  /\ \/ /\ tries[r] < Retries
        /\ tries' = [tries EXCEPT ![r] = @ + 1]
        /\ Goto(r, "claim")
        /\ Close(r)
        /\ UNCHANGED answer
     \/ /\ tries[r] = Retries
        /\ Refuse(r, "CONTENDED")
        /\ UNCHANGED tries
  /\ UNCHANGED <<tables, basket, batch>>

\* Any other failure (a timeout, a lost connection, a crash of the process)
\* before the response arrives: an open transaction is rolled back, a
\* committed one stands, and the client knows neither.
Fail(r) == /\ pc[r] \in InTx \cup {"reply"}
           /\ Refuse(r, "LOST")
           /\ UNCHANGED <<tables, basket, tries, batch>>

RequestStep(r) ==
  \/ \E b \in Basket : Submit(r, b)
  \/ Claim(r) \/ LockCart(r) \/ Compare(r)
  \/ \E p \in Product : LockRow(r, p)
  \/ Decide(r) \/ Place(r) \/ Reply(r)
  \/ Abort(r) \/ Fail(r)

-----------------------------------------------------------------------------
(***************************************************************************)
(* A run of the auto-cancel job.                                           *)
(***************************************************************************)
\* Mutant: two runs may both claim one checkout.
ClaimTwice(w) ==
  /\ batch[w] = {}
  /\ \E ids \in SUBSET {id \in CheckoutId : status[id] = "PENDING_PAYMENT"} :
       /\ ids # {}
       /\ Cardinality(ids) <= BatchSize
       /\ batch' = [batch EXCEPT ![w] = ids]
  /\ UNCHANGED <<tables, calls, rows>>

\* UPDATE … WHERE id IN (SELECT … LIMIT batchSize FOR UPDATE SKIP LOCKED):
\* pending checkouts no other run has locked.
ClaimExpired(w) ==
  /\ batch[w] = {}
  /\ \E ids \in SUBSET {id \in CheckoutId : status[id] = "PENDING_PAYMENT"
                                              /\ CheckoutFree(id)} :
       /\ ids # {}
       /\ Cardinality(ids) <= BatchSize
       /\ batch' = [batch EXCEPT ![w] = ids]
  /\ UNCHANGED <<tables, calls, rows>>

\* The increments and the commit, once every row is locked.
Restock(w) ==
  /\ batch[w] # {}
  /\ rows[w] = Needs(w)
  /\ status' = [id \in CheckoutId |-> IF id \in batch[w] THEN "CANCELLED" ELSE status[id]]
  /\ orders' = Moved(orders, batch[w], "CANCELLED")
  /\ available' = Restocked(available, orders, batch[w])
  /\ batch' = [batch EXCEPT ![w] = {}]
  /\ rows' = [rows EXCEPT ![w] = {}]
  /\ UNCHANGED <<price, onSale, cartRow, cart, keys, calls>>

\* The run fails or its process dies: rolled back, tried again next interval.
FailRun(w) == /\ batch[w] # {}
              /\ batch' = [batch EXCEPT ![w] = {}]
              /\ rows' = [rows EXCEPT ![w] = {}]
              /\ UNCHANGED <<tables, calls>>

WorkerStep(w) == \/ ClaimExpired(w) \/ Restock(w) \/ FailRun(w)
                 \/ \E p \in Product : LockRow(w, p)

-----------------------------------------------------------------------------
(***************************************************************************)
(* The buyers' carts, the sellers' catalogs, and payment.                  *)
(***************************************************************************)
\* GET /cart: ensureCart.
OpenCart(b) == /\ b \notin cartRow
               /\ cartRow' = cartRow \cup {b}
               /\ UNCHANGED <<available, price, onSale, cart, keys, status, orders, calls, rows, batch>>

\* touchCart locks the row a checkout locks, and creates it if need be.  The
\* product's visibility is read just before; nothing else reads the line, so
\* that read and this write are one step.
SetLine(b, p, q) == /\ onSale[p]
                    /\ CartFree(b)
                    /\ cartRow' = cartRow \cup {b}
                    /\ cart' = [cart EXCEPT ![b][p] = q]
                    /\ UNCHANGED <<available, price, onSale, keys, status, orders, calls, rows, batch>>

RemoveLine(b, p) == /\ CartFree(b)
                    /\ cartRow' = cartRow \cup {b}
                    /\ cart' = [cart EXCEPT ![b][p] = 0]
                    /\ UNCHANGED <<available, price, onSale, keys, status, orders, calls, rows, batch>>

\* setInventory: one absolute UPDATE, which waits behind a checkout's lock.
SetAvailable(p, n) == /\ RowFree(p)
                      /\ available' = [available EXCEPT ![p] = n]
                      /\ UNCHANGED <<price, onSale, cartRow, cart, keys, status, orders, calls, rows, batch>>

\* Nothing locks product rows: a price, a publication or a suspension may
\* change at any moment (how a seller gets there is module Catalog's subject).
SetPrice(p, x) == /\ price' = [price EXCEPT ![p] = x]
                  /\ UNCHANGED <<available, onSale, cartRow, cart, keys, status, orders, calls, rows, batch>>

SetOnSale(p, on) == /\ onSale' = [onSale EXCEPT ![p] = on]
                    /\ UNCHANGED <<available, price, cartRow, cart, keys, status, orders, calls, rows, batch>>

\* Mutant: the settlement does not lock the checkout row.
SettleUnlocked(id) == /\ status[id] = "PENDING_PAYMENT"
                      /\ status' = [status EXCEPT ![id] = "PAID"]
                      /\ orders' = Moved(orders, {id}, "PAID")
                      /\ UNCHANGED <<available, price, onSale, cartRow, cart, keys, calls, rows, batch>>

\* PaymentRepository.settle: the checkout row is locked, so a run that has it
\* is waited for; the order's own guard is in the WHERE.
Settle(id) == /\ status[id] = "PENDING_PAYMENT"
              /\ CheckoutFree(id)
              /\ status' = [status EXCEPT ![id] = "PAID"]
              /\ orders' = Moved(orders, {id}, "PAID")
              /\ UNCHANGED <<available, price, onSale, cartRow, cart, keys, calls, rows, batch>>

Environment ==
  \/ \E b \in Buyer : OpenCart(b)
  \/ \E b \in Buyer, p \in Product : RemoveLine(b, p) \/ \E q \in 1..MaxQty : SetLine(b, p, q)
  \/ \E p \in Product : \/ \E n \in Stock : SetAvailable(p, n)
                        \/ \E x \in Price : SetPrice(p, x)
                        \/ \E on \in Visibility : SetOnSale(p, on)
  \/ \E id \in CheckoutId : Settle(id)

Next == \/ \E r \in Request : RequestStep(r)
        \/ \E w \in Worker : WorkerStep(w)
        \/ Environment

Spec == Init /\ [][Next]_vars
-----------------------------------------------------------------------------
(***************************************************************************)
(* Safety.                                                                 *)
(***************************************************************************)
\* A checkout's orders as they were placed, whatever became of them since.
AsPlaced(os, id) ==
  {[o EXCEPT !.status = "PENDING_PAYMENT"] : o \in {x \in os : x.checkout = id}}

\* INV-2 and D97: every committed idempotency key names one placed checkout
\* whose orders are exactly those of the body the key was first used for, and
\* every checkout is named by one key: repeats, double clicks, retries after a
\* lost response and rolled-back claims never leave a second or an orphan one.
KeysNameTheirCheckouts ==
  /\ \A id \in CheckoutId : status[id] # "ABSENT" =>
       \E s \in Buyer \X Key : keys[s] # None /\ keys[s].id = id
  /\ \A s, t \in Buyer \X Key :
       keys[s] # None /\ keys[t] # None /\ keys[s].id = keys[t].id => s = t
  /\ \A s \in Buyer \X Key : keys[s] # None =>
       /\ status[keys[s].id] # "ABSENT"
       /\ AsPlaced(orders, keys[s].id) = OrdersFor(keys[s].id, s[1], keys[s].basket)

\* INV-11 and the order state machine: an order exists only under a checkout and
\* always has its status, whichever of a placement, a worker run and a payment
\* moved the pair last.
OrdersFollowTheirCheckout == \A o \in orders : o.status = status[o.checkout]

\* What a client is told stays true: a placed or replayed id is the one its key
\* names, for the body it sent, so two calls with one key can never be given
\* two checkouts; KEY_REUSED is said only of a key spent on another body.
AnswersAgreeWithKeys ==
  \A r \in Request :
    /\ answer[r].kind \in {"PLACED", "REPLAYED"} =>
         keys[Slot(r)] = [basket |-> basket[r], id |-> answer[r].id]
    /\ answer[r].kind = "KEY_REUSED" =>
         keys[Slot(r)] # None /\ keys[Slot(r)].basket # basket[r]

\* INV-1 and SRS-FR-CHK-006: between the decision and the commit nothing can
\* take the stock or change the cart the decision was taken on, so no decrement
\* reaches the CHECK (available >= 0) and the cart emptied is the cart ordered.
DecisionHolds ==
  \A r \in Request : pc[r] = "write" =>
    /\ \A p \in Product : available[p] >= basket[r].qty[p]
    /\ cart[BuyerOf[r]] = basket[r].qty

\* x waits for a row y's transaction holds.
WaitsFor(x, y) ==
  \/ /\ {x, y} \subseteq Request /\ x # y
     /\ \/ pc[x] = "claim" /\ HoldsKey(y) /\ Slot(x) = Slot(y)
        \/ pc[x] = "cart" /\ HoldsCart(y) /\ BuyerOf[x] = BuyerOf[y]
  \/ \E p \in rows[y] : NextRow(x, p)

\* "no two transactions can each hold a row the other is waiting for", and no
\* larger set of them either: key entry, cart row, inventory rows in product
\* order is an order every transaction that holds a row keeps.
NoCircularWait ==
  \A S \in (SUBSET (Request \cup Worker)) \ {{}} :
    \E x \in S : \A y \in S : ~WaitsFor(x, y)

\* A product's units, on the shelf and in checkouts that were not cancelled.
UnitsOf(p) ==
  available[p] + Units(orders, {id \in CheckoutId : status[id] \in {"PENDING_PAYMENT", "PAID"}}, p)

\* INV-15: placing, cancelling, paying, retrying and crashing all conserve every
\* product's units; only the seller's own setAvailable changes them.  A restock
\* done twice, or for a checkout that was paid, would create units.
UnitsConserved ==
  [][\/ \A p \in Product : UnitsOf(p)' = UnitsOf(p)
     \/ \E p \in Product, n \in Stock : SetAvailable(p, n)]_vars

\* The checkout as a whole is an atomic operation: every behaviour of the
\* locking implementation is one of the abstract specification.
Atomic == INSTANCE AtomicCheckout
ImplementsAtomicCheckout == Atomic!Spec

\* "A checkout holds one currency": checkout.repository.ts guarantees it by the
\* read the service makes before any lock.
OneCurrency ==
  \A id \in CheckoutId :
    Cardinality({CurrencyOf[p] : p \in HeldBy(orders, {id})}) <= 1

-----------------------------------------------------------------------------
(***************************************************************************)
(* Progress.  A handler's steps and a worker's are taken unless the        *)
(* process dies (Fail, FailRun); row-lock queues are served in order, so a *)
(* lock that is free again and again is got.  Clients, sellers, new worker *)
(* runs and failures owe nothing.                                          *)
(***************************************************************************)
Fairness ==
  /\ \A r \in Request :
       /\ SF_vars(Claim(r)) /\ SF_vars(LockCart(r))
       /\ SF_vars(\E p \in Product : LockRow(r, p))
       /\ WF_vars(Compare(r)) /\ WF_vars(Decide(r)) /\ WF_vars(Place(r)) /\ WF_vars(Reply(r))
  /\ \A w \in Worker :
       /\ SF_vars(\E p \in Product : LockRow(w, p))
       /\ WF_vars(Restock(w))

FairSpec == Spec /\ Fairness

\* Every call that is sent is answered, whatever contends with it.
EveryCallIsAnswered == \A r \in Request : pc[r] # "idle" ~> pc[r] = "done"
=============================================================================
