--------------------------- MODULE CheckoutTables ---------------------------
(***************************************************************************)
(* The data the checkout modules share: who sells what in which currency,  *)
(* what a client may ask for, and the rows a placement writes.             *)
(*                                                                         *)
(* A request body is a basket: for every product the quantity asked for    *)
(* (0 when the request has no line for it) and the unit price the buyer    *)
(* confirmed.  Equality of baskets is equality of fingerprints             *)
(* (packages/domain/src/checkout/idempotency.ts): the order of the lines   *)
(* is already lost, everything else counts.                                *)
(*                                                                         *)
(* Products are naturals; < is the bytewise lock order `byLockOrder`.      *)
(***************************************************************************)
EXTENDS Integers, FiniteSets

CONSTANTS
  Buyer, Seller, Currency,
  Key,           \* values of the Idempotency-Key header
  Product,       \* product ids, ordered as byLockOrder orders them
  SellerOf,      \* the organization that owns a product
  CurrencyOf,    \* a product's currency, fixed when it is created
  Price,         \* unit prices a published product may have
  MaxQty,        \* bound: units of one product in one cart line
  Basket,        \* the request bodies clients send
  CheckoutId,    \* the uuids randomUUID may mint
  None           \* no row, no id, no body

Quantities == [Product -> 0..MaxQty]

NoLines == [p \in Product |-> 0]

\* There is a last row to lock.
ASSUME ProductsOrdered == /\ Product \subseteq Nat
                          /\ \E m \in Product : \A p \in Product : p <= m
ASSUME ProductFacts == /\ SellerOf \in [Product -> Seller]
                       /\ CurrencyOf \in [Product -> Currency]
ASSUME QtyIsNat == MaxQty \in Nat
\* CheckoutRequestSchema refuses a body without lines before any handler runs.
ASSUME BasketsAreBodies ==
  /\ Basket \subseteq [qty: Quantities, price: [Product -> Price]]
  /\ \A b \in Basket : b.qty # NoLines
ASSUME NoneIsNothing == /\ None \notin CheckoutId
                        /\ None \notin Basket
                        /\ None \notin [basket: Basket, id: CheckoutId]

-----------------------------------------------------------------------------
\* The products a basket has a line for.
Lines(b) == {p \in Product : b.qty[p] > 0}

OrderStatus == {"PENDING_PAYMENT", "PAID", "CANCELLED"}

Order == [checkout: CheckoutId, seller: Seller, buyer: Buyer,
          status: OrderStatus, items: Quantities]

\* groupBySeller, then one order per group with its items (D56).
OrdersFor(id, buyer, b) ==
  {[checkout |-> id, seller |-> s, buyer |-> buyer, status |-> "PENDING_PAYMENT",
    items |-> [p \in Product |-> IF SellerOf[p] = s THEN b.qty[p] ELSE 0]] :
     s \in {SellerOf[p] : p \in Lines(b)}}

\* Orders move with their checkout; only a PENDING_PAYMENT order ever moves.
Moved(os, ids, to) ==
  {IF o.checkout \in ids /\ o.status = "PENDING_PAYMENT"
     THEN [o EXCEPT !.status = to] ELSE o : o \in os}

\* Units of p in the orders of these checkouts, counted one by one: the worker's
\* groupBy, and its `_sum.quantity ?? 0`.
Units(os, ids, p) ==
  Cardinality({u \in os \X (1..MaxQty) : u[1].checkout \in ids /\ u[2] <= u[1].items[p]})

\* The products those orders hold units of: the rows a cancellation restocks.
HeldBy(os, ids) ==
  {p \in Product : \E o \in os : o.checkout \in ids /\ o.items[p] > 0}

\* The shelf after a cancellation: every product the orders held is incremented.
Restocked(shelf, os, ids) ==
  [p \in Product |-> IF p \in HeldBy(os, ids)
                       THEN shelf[p] + Units(os, ids, p) ELSE shelf[p]]
=============================================================================
