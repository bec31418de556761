--------------------------- MODULE AtomicCheckout ---------------------------
(***************************************************************************)
(* What checkout promises, with no transactions in it: a placement, a      *)
(* cancellation and a payment each happen in one step, on the state they   *)
(* find.  A placement needs a key its buyer has not spent, a cart equal to *)
(* the body, and the stock; it spends all three.  A cancellation gives the *)
(* stock back, once.  Module Placement implements this with row locks.     *)
(***************************************************************************)
EXTENDS CheckoutTables

CONSTANT Stock      \* counts a seller may set

VARIABLES available, cart, keys, status, orders

vars == <<available, cart, keys, status, orders>>

Init == /\ available \in [Product -> Stock]
        /\ cart = [b \in Buyer |-> NoLines]
        /\ keys = [s \in Buyer \X Key |-> None]
        /\ status = [id \in CheckoutId |-> "ABSENT"]
        /\ orders = {}

Place(b, k, body, id) ==
  /\ keys[<<b, k>>] = None
  /\ status[id] = "ABSENT"
  /\ cart[b] = body.qty
  /\ \A p \in Product : available[p] >= body.qty[p]
  /\ available' = [p \in Product |-> available[p] - body.qty[p]]
  /\ cart' = [cart EXCEPT ![b] = NoLines]
  /\ keys' = [keys EXCEPT ![<<b, k>>] = [basket |-> body, id |-> id]]
  /\ status' = [status EXCEPT ![id] = "PENDING_PAYMENT"]
  /\ orders' = orders \cup OrdersFor(id, b, body)

Cancel(ids) ==
  /\ \A id \in ids : status[id] = "PENDING_PAYMENT"
  /\ status' = [id \in CheckoutId |-> IF id \in ids THEN "CANCELLED" ELSE status[id]]
  /\ orders' = Moved(orders, ids, "CANCELLED")
  /\ available' = Restocked(available, orders, ids)
  /\ UNCHANGED <<cart, keys>>

Pay(id) == /\ status[id] = "PENDING_PAYMENT"
           /\ status' = [status EXCEPT ![id] = "PAID"]
           /\ orders' = Moved(orders, {id}, "PAID")
           /\ UNCHANGED <<available, cart, keys>>

EditCart(b, p, q) == /\ cart' = [cart EXCEPT ![b][p] = q]
                     /\ UNCHANGED <<available, keys, status, orders>>

SetAvailable(p, n) == /\ available' = [available EXCEPT ![p] = n]
                      /\ UNCHANGED <<cart, keys, status, orders>>

Next ==
  \/ \E b \in Buyer, k \in Key, body \in Basket, id \in CheckoutId : Place(b, k, body, id)
  \/ \E ids \in SUBSET CheckoutId : Cancel(ids)
  \/ \E id \in CheckoutId : Pay(id)
  \/ \E b \in Buyer, p \in Product, q \in 0..MaxQty : EditCart(b, p, q)
  \/ \E p \in Product, n \in Stock : SetAvailable(p, n)

Spec == Init /\ [][Next]_vars
=============================================================================
