-------------------------- MODULE PlacementProofs ---------------------------
(***************************************************************************)
(* Theorems about Placement, for any number of buyers, calls, products,    *)
(* workers and retries.                                                    *)
(*                                                                         *)
(* The locks do the work: Locked says that no row has two holders, Staged  *)
(* what each transaction has established by the point it has reached, and  *)
(* InOrder that inventory rows are taken in product order.  Their          *)
(* conjunction with TypeOK is inductive.                                   *)
(***************************************************************************)
EXTENDS Placement, FiniteSetTheorems, WellFoundedInduction, TLAPS

\* No row has two holders.
Locked ==
  /\ \A x, y \in Request \cup Worker : x # y => rows[x] \cap rows[y] = {}
  /\ \A q, r \in Request : q # r /\ HoldsKey(q) /\ HoldsKey(r) => Slot(q) # Slot(r)
  /\ \A q, r \in Request : q # r /\ HoldsCart(q) /\ HoldsCart(r) => BuyerOf[q] # BuyerOf[r]
  /\ \A v, w \in Worker : v # w => batch[v] \cap batch[w] = {}

\* What a request's transaction has established at each point: its entry and its
\* checkout are not there yet, its cart is the body, its rows cover its lines.
Stage(r) ==
  /\ pc[r] # "idle" => basket[r] \in Basket
  /\ HoldsKey(r) <=> minted[r] # None
  /\ HoldsKey(r) => /\ status[minted[r]] = "ABSENT"
                    /\ keys[Slot(r)] = None
  /\ pc[r] \notin {"stock", "write"} => rows[r] = {}
  /\ pc[r] = "stock" => rows[r] \subseteq Lines(basket[r])
  /\ pc[r] = "write" => rows[r] = Lines(basket[r])
  /\ pc[r] \in {"stock", "write"} => cart[BuyerOf[r]] = basket[r].qty
  /\ pc[r] = "write" => \A p \in Lines(basket[r]) : available[p] >= basket[r].qty[p]

\* A worker run has claimed pending checkouts and locks only what they hold.
Staged ==
  /\ \A r \in Request : Stage(r)
  /\ \A q, r \in Request : q # r /\ minted[q] # None => minted[q] # minted[r]
  /\ \A w \in Worker : /\ \A id \in batch[w] : status[id] = "PENDING_PAYMENT"
                       /\ rows[w] \subseteq HeldBy(orders, batch[w])

\* Every row held comes before every row still needed.
InOrder == \A x \in Request \cup Worker :
             \A p \in rows[x], q \in Needs(x) \ rows[x] : p < q

IInv == TypeOK /\ Locked /\ Staged /\ InOrder

-----------------------------------------------------------------------------
(***************************************************************************)
(* What the rows are made of.                                              *)
(***************************************************************************)
\* The orders a placement writes are well-formed rows (groupBySeller and the
\* order.create loop).
LEMMA OrdersForType ==
  ASSUME NEW id \in CheckoutId, NEW buyer \in Buyer, NEW b \in Basket
  PROVE  OrdersFor(id, buyer, b) \subseteq Order
<1>1. b.qty \in [Product -> 0..MaxQty]
  BY BasketsAreBodies DEF Quantities
<1>2. ASSUME NEW s \in {SellerOf[p] : p \in Lines(b)}
      PROVE  [checkout |-> id, seller |-> s, buyer |-> buyer, status |-> "PENDING_PAYMENT",
              items |-> [p \in Product |-> IF SellerOf[p] = s THEN b.qty[p] ELSE 0]] \in Order
  <2>1. s \in Seller
    BY ProductFacts DEF Lines
  <2>2. [p \in Product |-> IF SellerOf[p] = s THEN b.qty[p] ELSE 0] \in Quantities
    BY <1>1, QtyIsNat DEF Quantities
  <2> QED BY <2>1, <2>2 DEF Order, OrderStatus
<1> QED BY <1>2 DEF OrdersFor

\* Moving orders with their checkout leaves them well-formed.
LEMMA MovedType ==
  ASSUME NEW os \in SUBSET Order, NEW ids, NEW to \in OrderStatus
  PROVE  Moved(os, ids, to) \subseteq Order
BY DEF Moved, Order

\* A status change leaves every checkout holding the units it held.
LEMMA MovedHeld ==
  ASSUME NEW os \in SUBSET Order, NEW ids, NEW to, NEW S
  PROVE  HeldBy(Moved(os, ids, to), S) = HeldBy(os, S)
<1> DEFINE move(o) == IF o.checkout \in ids /\ o.status = "PENDING_PAYMENT"
                        THEN [o EXCEPT !.status = to] ELSE o
<1>1. \A o \in os : move(o).checkout = o.checkout /\ move(o).items = o.items
  BY DEF Order
<1>2. Moved(os, ids, to) = {move(o) : o \in os}
  BY DEF Moved
<1>3. \A p : (\E o \in Moved(os, ids, to) : o.checkout \in S /\ o.items[p] > 0)
          <=> (\E o \in os : o.checkout \in S /\ o.items[p] > 0)
  <2> HIDE DEF move
  <2> QED BY <1>1, <1>2
<1> QED BY <1>3 DEF HeldBy

\* A placement adds nothing to what other checkouts hold.
LEMMA PlacedHeld ==
  ASSUME NEW os, NEW id, NEW buyer, NEW b, NEW S, id \notin S
  PROVE  HeldBy(os \cup OrdersFor(id, buyer, b), S) = HeldBy(os, S)
BY DEF OrdersFor, HeldBy

\* A placement and a status change write finitely many orders.
LEMMA OrdersForFinite ==
  ASSUME NEW id, NEW buyer, NEW b \in Basket
  PROVE  IsFiniteSet(OrdersFor(id, buyer, b))
<1> DEFINE o(s) == [checkout |-> id, seller |-> s, buyer |-> buyer, status |-> "PENDING_PAYMENT",
                    items |-> [p \in Product |-> IF SellerOf[p] = s THEN b.qty[p] ELSE 0]]
           f == [p \in Lines(b) |-> o(SellerOf[p])]
<1>1. PICK m \in Product : \A p \in Product : p <= m
  BY ProductsOrdered
<1>2. Lines(b) \in SUBSET Nat /\ m \in Nat /\ \A p \in Lines(b) : p <= m
  BY <1>1, ProductsOrdered DEF Lines
<1>3. IsFiniteSet(Lines(b))
  BY <1>2, FS_BoundedSetOfNaturals
<1>4. OrdersFor(id, buyer, b) = {o(SellerOf[p]) : p \in Lines(b)}
  BY DEF OrdersFor
<1>5. f \in Surjection(Lines(b), OrdersFor(id, buyer, b))
  <2> HIDE DEF o
  <2> QED BY <1>4 DEF Surjection
<1> QED BY <1>3, <1>5, FS_Surjection

LEMMA MovedFinite ==
  ASSUME NEW os, IsFiniteSet(os), NEW ids, NEW to
  PROVE  IsFiniteSet(Moved(os, ids, to))
<1> DEFINE move(o) == IF o.checkout \in ids /\ o.status = "PENDING_PAYMENT"
                        THEN [o EXCEPT !.status = to] ELSE o
           f == [o \in os |-> move(o)]
<1>1. Moved(os, ids, to) = {move(o) : o \in os}
  BY DEF Moved
<1>2. f \in Surjection(os, Moved(os, ids, to))
  <2> HIDE DEF move
  <2> QED BY <1>1 DEF Surjection
<1> QED BY <1>2, FS_Surjection

\* The units of p in the orders of these checkouts.
Each(os, ids, p) == {u \in os \X (1..MaxQty) : u[1].checkout \in ids /\ u[2] <= u[1].items[p]}

LEMMA UnitsAreFinite ==
  ASSUME NEW os, IsFiniteSet(os), NEW ids, NEW p
  PROVE  /\ IsFiniteSet(Each(os, ids, p))
         /\ Units(os, ids, p) = Cardinality(Each(os, ids, p))
         /\ Units(os, ids, p) \in Nat
<1>1. IsFiniteSet(1..MaxQty)
  BY FS_Interval, QtyIsNat
<1>2. IsFiniteSet(os \X (1..MaxQty))
  BY <1>1, FS_Product
<1>3. IsFiniteSet(Each(os, ids, p))
  BY <1>2, FS_Subset DEF Each
<1>4. Units(os, ids, p) = Cardinality(Each(os, ids, p))
  BY DEF Units, Each
<1> QED BY <1>3, <1>4, FS_CardinalityType

\* A restock returns a natural number of units of each product.
LEMMA RestockedType ==
  ASSUME NEW shelf \in [Product -> Nat], NEW os, IsFiniteSet(os), NEW ids
  PROVE  /\ Restocked(shelf, os, ids) \in [Product -> Nat]
         /\ \A p \in Product : Restocked(shelf, os, ids)[p] >= shelf[p]
<1>1. \A p \in Product : Units(os, ids, p) \in Nat
  BY UnitsAreFinite
<1> QED BY <1>1 DEF Restocked

\* A line has a positive quantity; a product without one has quantity 0.
LEMMA LinesOfABody ==
  ASSUME NEW b \in Basket
  PROVE  /\ b.qty \in Quantities
         /\ Lines(b) \subseteq Product
         /\ \A p \in Product : /\ b.qty[p] \in Nat
                               /\ p \notin Lines(b) => b.qty[p] = 0
BY BasketsAreBodies, QtyIsNat DEF Quantities, Lines

-----------------------------------------------------------------------------
(***************************************************************************)
(* Each part of the invariant survives each step.                          *)
(***************************************************************************)
\* A refusal leaves the call's own variables typed.
LEMMA RefuseType ==
  ASSUME TypeOK, NEW r \in Request, NEW kind \in Answers, Refuse(r, kind)
  PROVE  /\ pc' \in [Request -> {"idle", "reply", "done"} \cup InTx]
         /\ minted' \in [Request -> CheckoutId \cup {None}]
         /\ answer' \in [Request -> [kind: Answers, id: CheckoutId \cup {None}]]
         /\ rows' \in [Request \cup Worker -> SUBSET Product]
BY DEF TypeOK, Refuse, Goto, Answer, Close

\* The types survive every step; a placement's decrement stays natural because
\* the transaction still holds the rows it decided on.
LEMMA TypeStep == ASSUME IInv, [Next]_vars PROVE TypeOK'
<1> USE DEF IInv
<1>1. ASSUME NEW r \in Request, NEW b \in Basket, Submit(r, b) PROVE TypeOK'
  <2>1. CASE Refuse(r, "MIXED_CURRENCY")
    BY <1>1, <2>1, RefuseType DEF TypeOK, Submit, Answers, tables
  <2>2. CASE Goto(r, "claim") /\ UNCHANGED <<answer, rows, minted>>
    BY <1>1, <2>2 DEF TypeOK, Submit, Goto, InTx, tables
  <2> QED BY <1>1, <2>1, <2>2 DEF Submit
<1>2. ASSUME NEW r \in Request, Claim(r) PROVE TypeOK'
  <2>1. CASE keys[Slot(r)] = None
    BY <1>2, <2>1 DEF TypeOK, Claim, Refuse, Goto, Answer, Close, InTx, Answers, tables
  <2>2. CASE keys[Slot(r)] # None
    <3>1. Slot(r) \in Buyer \X Key
      BY RequestFacts DEF Slot
    <3>2. keys[Slot(r)].id \in CheckoutId
      BY <2>2, <3>1 DEF TypeOK
    <3>3. CASE Refuse(r, "KEY_REUSED")
      BY <1>2, <3>3, RefuseType DEF TypeOK, Claim, Answers, tables
    <3>4. CASE Goto(r, "reply") /\ Answer(r, "REPLAYED", keys[Slot(r)].id) /\ UNCHANGED <<rows, minted>>
      BY <1>2, <3>2, <3>4 DEF TypeOK, Claim, Goto, Answer, Answers, tables
    <3> QED BY <1>2, <2>2, <3>3, <3>4 DEF Claim
  <2> QED BY <2>1, <2>2
<1>3. ASSUME NEW r \in Request, LockCart(r) \/ Compare(r) \/ Decide(r) PROVE TypeOK'
  <2>1. CASE Refuse(r, "CART_CHANGED") \/ Refuse(r, "REJECTED")
    BY <1>3, <2>1, RefuseType DEF TypeOK, LockCart, Compare, Decide, Answers, tables
  <2>2. CASE /\ Goto(r, "compare") \/ Goto(r, "stock") \/ Goto(r, "write")
             /\ UNCHANGED <<answer, rows, minted>>
    BY <1>3, <2>2 DEF TypeOK, LockCart, Compare, Decide, Goto, InTx, tables
  <2> QED BY <1>3, <2>1, <2>2 DEF LockCart, Compare, Decide
<1>4. ASSUME NEW r \in Request, Place(r) PROVE TypeOK'
  <2>1. /\ basket[r] \in Basket
        /\ minted[r] \in CheckoutId
        /\ BuyerOf[r] \in Buyer
        /\ Slot(r) \in Buyer \X Key
    BY <1>4, RequestFacts DEF TypeOK, Staged, Stage, Place, HoldsKey, Slot
  <2>2. available' \in [Product -> Nat]
    <3>1. \A p \in Product : available[p] \in Nat /\ basket[r].qty[p] \in Nat
                             /\ available[p] >= basket[r].qty[p]
      BY <1>4, <2>1, LinesOfABody DEF TypeOK, Staged, Stage, Place
    <3> QED BY <1>4, <3>1 DEF Place
  <2>3. orders' \subseteq Order /\ IsFiniteSet(orders')
    BY <1>4, <2>1, OrdersForType, OrdersForFinite, FS_Union DEF TypeOK, Place
  <2>4. cart' \in [Buyer -> Quantities]
    <3>1. NoLines \in Quantities
      BY QtyIsNat DEF Quantities, NoLines
    <3> QED BY <1>4, <3>1 DEF TypeOK, Place
  <2> QED BY <1>4, <2>1, <2>2, <2>3, <2>4
          DEF TypeOK, Place, Goto, Answer, Close, InTx, Answers, CheckoutStatus, OrderStatus
<1>5. ASSUME NEW r \in Request, Reply(r) \/ Abort(r) \/ Fail(r) PROVE TypeOK'
  <2>1. CASE Reply(r)
    BY <2>1 DEF TypeOK, Reply, Goto, tables
  <2>2. CASE Fail(r)
    BY <2>2, RefuseType DEF TypeOK, Fail, Answers, tables
  <2>3. CASE Abort(r) /\ Refuse(r, "CONTENDED") /\ UNCHANGED tries
    BY <2>3, RefuseType DEF TypeOK, Abort, Answers, tables
  <2>4. CASE Abort(r) /\ tries[r] < Retries /\ tries' = [tries EXCEPT ![r] = @ + 1]
             /\ Goto(r, "claim") /\ Close(r) /\ UNCHANGED answer
    <3>1. tries' \in [Request -> 0..Retries]
      BY <2>4, LimitFacts DEF TypeOK
    <3> QED BY <2>4, <3>1 DEF TypeOK, Abort, Goto, Close, InTx, tables
  <2> QED BY <1>5, <2>1, <2>2, <2>3, <2>4 DEF Abort
<1>6. ASSUME NEW x \in Request \cup Worker, NEW p \in Product, LockRow(x, p) PROVE TypeOK'
  BY <1>6 DEF TypeOK, LockRow, tables, calls
<1>7. ASSUME NEW w \in Worker, ClaimExpired(w) \/ FailRun(w) PROVE TypeOK'
  BY <1>7 DEF TypeOK, ClaimExpired, FailRun, tables, calls
<1>8. ASSUME NEW w \in Worker, Restock(w) PROVE TypeOK'
  <2>1. available' \in [Product -> Nat]
    BY <1>8, RestockedType DEF TypeOK, Restock
  <2>2. orders' \subseteq Order /\ IsFiniteSet(orders')
    BY <1>8, MovedType, MovedFinite DEF TypeOK, Restock, OrderStatus
  <2> QED BY <1>8, <2>1, <2>2 DEF TypeOK, Restock, CheckoutStatus, OrderStatus, calls
<1>9. ASSUME NEW b \in Buyer, OpenCart(b) PROVE TypeOK'
  BY <1>9 DEF TypeOK, OpenCart, calls
<1>10. ASSUME NEW b \in Buyer, NEW p \in Product, NEW q \in 0..MaxQty,
              SetLine(b, p, q) \/ RemoveLine(b, p)
       PROVE  TypeOK'
  <2>1. cart' \in [Buyer -> Quantities]
    <3>1. \A n \in 0..MaxQty : [cart[b] EXCEPT ![p] = n] \in Quantities
      BY DEF TypeOK, Quantities
    <3>2. \E n \in 0..MaxQty : cart' = [cart EXCEPT ![b] = [cart[b] EXCEPT ![p] = n]]
      BY <1>10, QtyIsNat DEF SetLine, RemoveLine
    <3> QED BY <3>1, <3>2 DEF TypeOK
  <2> QED BY <1>10, <2>1 DEF TypeOK, SetLine, RemoveLine, calls
<1>11. ASSUME NEW p \in Product, NEW n \in Stock, SetAvailable(p, n) PROVE TypeOK'
  BY <1>11, LimitFacts DEF TypeOK, SetAvailable, calls
<1>12. ASSUME NEW p \in Product, NEW x \in Price, SetPrice(p, x) PROVE TypeOK'
  BY <1>12 DEF TypeOK, SetPrice, calls
<1>13. ASSUME NEW p \in Product, NEW on \in Visibility, SetOnSale(p, on) PROVE TypeOK'
  BY <1>13 DEF TypeOK, SetOnSale, calls
<1>14. ASSUME NEW id \in CheckoutId, Settle(id) PROVE TypeOK'
  <2>1. orders' \subseteq Order /\ IsFiniteSet(orders')
    BY <1>14, MovedType, MovedFinite DEF TypeOK, Settle, OrderStatus
  <2> QED BY <1>14, <2>1 DEF TypeOK, Settle, CheckoutStatus, OrderStatus, calls
<1>15. CASE UNCHANGED vars
  BY <1>15 DEF TypeOK, vars, tables, calls
<1>16. \A q \in 1..MaxQty : q \in 0..MaxQty /\ 0 \in 0..MaxQty
  BY QtyIsNat
<1> QED BY <1>1, <1>2, <1>3, <1>4, <1>5, <1>6, <1>7, <1>8, <1>9, <1>10, <1>11, <1>12, <1>13,
           <1>14, <1>15, <1>16, QtyIsNat DEF Next, RequestStep, WorkerStep, Environment

\* No step gives a row a second holder: every lock is taken only when free.
LEMMA LockedStep == ASSUME IInv, [Next]_vars PROVE Locked'
<1> USE DEF IInv
<1>1. ASSUME NEW r \in Request, NEW b \in Basket, Submit(r, b) PROVE Locked'
  <2>1. \A q \in Request : (HoldsKey(q)' => HoldsKey(q)) /\ (HoldsCart(q)' => HoldsCart(q))
    BY <1>1 DEF TypeOK, Submit, Refuse, Goto, HoldsKey, HoldsCart
  <2>2. \A x \in Request \cup Worker : rows'[x] \subseteq rows[x]
    BY <1>1 DEF TypeOK, Submit, Refuse, Close
  <2> QED BY <1>1, <2>1, <2>2 DEF Locked, Submit, Slot
<1>2. ASSUME NEW r \in Request, Claim(r) PROVE Locked'
  <2>1. \A q \in Request : q # r => pc'[q] = pc[q]
    BY <1>2 DEF TypeOK, Claim, Refuse, Goto
  <2>2. ~HoldsCart(r)' /\ (\A q \in Request : HoldsKey(q) /\ HoldsKey(r)' => Slot(q) # Slot(r))
    BY <1>2 DEF TypeOK, Claim, Refuse, Goto, KeyFree, HoldsKey, HoldsCart
  <2>3. \A x, y \in Request \cup Worker : x # y => rows'[x] \cap rows'[y] = {}
    BY <1>2 DEF TypeOK, Locked, Claim, Refuse, Close
  <2> QED BY <1>2, <2>1, <2>2, <2>3 DEF Locked, Claim, HoldsKey, HoldsCart, Slot
<1>3. ASSUME NEW r \in Request, LockCart(r) PROVE Locked'
  BY <1>3 DEF TypeOK, Locked, LockCart, CartFree, Refuse, Goto, Close, tables, HoldsKey, HoldsCart, Slot
<1>4. ASSUME NEW r \in Request, Compare(r) \/ Decide(r) \/ Place(r) \/ Reply(r) \/ Abort(r) \/ Fail(r)
      PROVE  Locked'
  <2>1. \A x \in Request \cup Worker : rows'[x] \subseteq rows[x]
    BY <1>4 DEF TypeOK, Compare, Decide, Place, Reply, Abort, Fail, Refuse, Close
  <2>2. \A q \in Request : (HoldsKey(q)' => HoldsKey(q)) /\ (HoldsCart(q)' => HoldsCart(q))
    BY <1>4 DEF TypeOK, Compare, Decide, Place, Reply, Abort, Fail, Refuse, Goto, HoldsKey, HoldsCart
  <2>3. batch' = batch
    BY <1>4 DEF Compare, Decide, Place, Reply, Abort, Fail
  <2> QED BY <2>1, <2>2, <2>3 DEF Locked, Slot
<1>5. ASSUME NEW x \in Request \cup Worker, NEW p \in Product, LockRow(x, p) PROVE Locked'
  BY <1>5 DEF TypeOK, Locked, LockRow, RowFree, tables, calls, HoldsKey, HoldsCart, Slot
<1>6. ASSUME NEW w \in Worker, ClaimExpired(w) PROVE Locked'
  <2>1. \A v \in Worker : v # w => batch'[v] = batch[v] /\ batch'[w] \cap batch[v] = {}
    BY <1>6 DEF TypeOK, ClaimExpired, CheckoutFree
  <2>2. UNCHANGED <<rows, pc>>
    BY <1>6 DEF ClaimExpired, calls
  <2> QED BY <2>1, <2>2 DEF Locked, HoldsKey, HoldsCart, Slot
<1>7. ASSUME NEW w \in Worker, Restock(w) \/ FailRun(w) PROVE Locked'
  BY <1>7 DEF TypeOK, Locked, Restock, FailRun, tables, calls, HoldsKey, HoldsCart, Slot
<1>8. CASE Environment \/ UNCHANGED vars
  <2>1. UNCHANGED <<rows, batch, pc>>
    BY <1>8 DEF Environment, OpenCart, SetLine, RemoveLine, SetAvailable, SetPrice, SetOnSale, Settle, calls, vars
  <2> QED BY <2>1 DEF Locked, HoldsKey, HoldsCart, Slot
<1> QED BY <1>1, <1>2, <1>3, <1>4, <1>5, <1>6, <1>7, <1>8 DEF Next, RequestStep, WorkerStep

\* A step that leaves a request's own variables, its key entry, its checkout row,
\* its cart and the rows it holds alone leaves its stage standing.
LEMMA StageStands ==
  ASSUME IInv, TypeOK', NEW r \in Request,
         pc'[r] = pc[r], basket'[r] = basket[r], minted'[r] = minted[r], rows'[r] = rows[r],
         HoldsKey(r) => status'[minted[r]] = status[minted[r]] /\ keys'[Slot(r)] = keys[Slot(r)],
         HoldsCart(r) => cart'[BuyerOf[r]] = cart[BuyerOf[r]],
         \A p \in rows[r] : available'[p] >= available[p]
  PROVE  Stage(r)'
<1> USE DEF IInv
<1>1. Stage(r)
  BY DEF Staged
<1>2. ASSUME pc[r] = "write", NEW p \in Lines(basket[r])
      PROVE  available'[p] >= basket[r].qty[p]
  <2>1. p \in rows[r] /\ p \in Product /\ available[p] >= basket[r].qty[p]
    BY <1>1, <1>2 DEF Stage, Lines
  <2>2. available[p] \in Nat /\ available'[p] \in Nat /\ basket[r].qty[p] \in Nat
    BY <1>1, <1>2, <2>1, LinesOfABody DEF Stage, TypeOK
  <2> QED BY <2>1, <2>2
<1> QED BY <1>1, <1>2 DEF Stage, HoldsKey, HoldsCart, Slot, Lines

\* No step takes from a transaction what it has established: others wait for
\* its locks, and what is not locked it does not rely on.
LEMMA StagedStep == ASSUME IInv, TypeOK', [Next]_vars PROVE Staged'
<1> USE DEF IInv
<1>a. \A w \in Worker : w \notin Request
  BY RequestFacts
\* What the steps of a request that write no table have in common.
<1>b. ASSUME NEW r \in Request, UNCHANGED <<tables, batch>>,
             \A q \in Request : q # r => /\ pc'[q] = pc[q] /\ basket'[q] = basket[q]
                                         /\ minted'[q] = minted[q],
             \A x \in Request \cup Worker : x # r => rows'[x] = rows[x],
             minted'[r] = None \/ \A q \in Request : q # r => minted[q] # minted'[r],
             Stage(r)'
      PROVE  Staged'
  <2>1. \A q \in Request : Stage(q)'
    <3>1. ASSUME NEW q \in Request, q # r PROVE Stage(q)'
      <4>1. \A p \in rows[q] : available'[p] >= available[p]
        BY <1>b DEF TypeOK, tables
      <4> QED BY <1>b, <3>1, <4>1, StageStands DEF tables
    <3> QED BY <1>b, <3>1
  <2>2. \A p, q \in Request : p # q /\ minted'[p] # None => minted'[p] # minted'[q]
    BY <1>b DEF Staged
  <2>3. \A w \in Worker : /\ \A id \in batch'[w] : status'[id] = "PENDING_PAYMENT"
                          /\ rows'[w] \subseteq HeldBy(orders', batch'[w])
    BY <1>a, <1>b DEF Staged, tables
  <2> QED BY <2>1, <2>2, <2>3 DEF Staged
\* What the steps that leave every call and lock alone have in common.
<1>c. ASSUME UNCHANGED <<pc, basket, minted, rows, batch>>,
             \A r \in Request : HoldsKey(r) => /\ status'[minted[r]] = status[minted[r]]
                                               /\ keys'[Slot(r)] = keys[Slot(r)],
             \A r \in Request : HoldsCart(r) => cart'[BuyerOf[r]] = cart[BuyerOf[r]],
             \A r \in Request : \A p \in rows[r] : available'[p] >= available[p],
             \A w \in Worker : \A id \in batch[w] : status'[id] = status[id],
             \A S \in SUBSET CheckoutId : HeldBy(orders', S) = HeldBy(orders, S)
      PROVE  Staged'
  <2>1. ASSUME NEW r \in Request PROVE Stage(r)'
    BY <1>c, StageStands
  <2>2. \A w \in Worker : batch[w] \in SUBSET CheckoutId
    BY DEF TypeOK
  <2> QED BY <1>c, <2>1, <2>2 DEF Staged
<1>1. ASSUME NEW r \in Request, NEW b \in Basket, Submit(r, b) PROVE Staged'
  <2>1. Stage(r)'
    BY <1>1 DEF TypeOK, Staged, Stage, Submit, Refuse, Goto, Close, HoldsKey
  <2>2. minted'[r] = None
    <3>1. minted[r] = None
      BY <1>1 DEF Staged, Stage, Submit, HoldsKey
    <3> QED BY <1>1, <3>1 DEF TypeOK, Submit, Refuse, Close
  <2>3. /\ UNCHANGED <<tables, batch>>
        /\ \A q \in Request : q # r => /\ pc'[q] = pc[q] /\ basket'[q] = basket[q]
                                      /\ minted'[q] = minted[q]
        /\ \A x \in Request \cup Worker : x # r => rows'[x] = rows[x]
    BY <1>1 DEF TypeOK, Submit, Refuse, Goto, Close
  <2> QED BY <1>b, <2>1, <2>2, <2>3
<1>2. ASSUME NEW r \in Request, Claim(r) PROVE Staged'
  <2>1. Stage(r)'
    BY <1>2, NoneIsNothing DEF TypeOK, Staged, Stage, Claim, Fresh, Refuse, Goto, Close, HoldsKey, tables, Slot
  <2>2. minted'[r] = None \/ \A q \in Request : q # r => minted[q] # minted'[r]
    BY <1>2 DEF TypeOK, Staged, Stage, Claim, Fresh, Refuse, Close, HoldsKey
  <2> QED BY <1>2, <1>b, <2>1, <2>2 DEF TypeOK, Claim, Refuse, Goto, Close
<1>3. ASSUME NEW r \in Request, LockCart(r) \/ Compare(r) \/ Decide(r) PROVE Staged'
  <2>1. Stage(r)'
    BY <1>3 DEF TypeOK, Staged, Stage, LockCart, Compare, Decide, LineStands, Refuse, Goto, Close,
                HoldsKey, tables, Slot, Lines
  <2>2. minted'[r] = None \/ \A q \in Request : q # r => minted[q] # minted'[r]
    BY <1>3 DEF TypeOK, Staged, LockCart, Compare, Decide, Refuse, Close
  <2> QED BY <1>3, <1>b, <2>1, <2>2 DEF TypeOK, LockCart, Compare, Decide, Refuse, Goto, Close
<1>4. ASSUME NEW r \in Request, Place(r) PROVE Staged'
  <2>1. /\ Stage(r) /\ HoldsKey(r) /\ HoldsCart(r)
        /\ basket[r] \in Basket /\ minted[r] \in CheckoutId /\ status[minted[r]] = "ABSENT"
    BY <1>4 DEF Staged, Stage, Place, HoldsKey, HoldsCart, TypeOK
  <2>2. /\ ~HoldsKey(r)' /\ minted'[r] = None /\ rows'[r] = {} /\ Stage(r)'
    BY <1>4, <2>1 DEF TypeOK, Stage, Place, Goto, Close, HoldsKey
  <2>3. ASSUME NEW q \in Request, q # r PROVE Stage(q)'
    <3>1. \A p \in rows[q] : available'[p] >= available[p]
      <4>1. \A p \in rows[q] : p \in Product /\ p \notin Lines(basket[r])
        BY <1>4, <2>1, <2>3 DEF TypeOK, Locked, Stage, Place
      <4>2. \A p \in rows[q] : available'[p] = available[p] - 0 /\ available[p] \in Nat
        BY <1>4, <2>1, <4>1, LinesOfABody DEF TypeOK, Place
      <4> QED BY <4>2
    <3>2. HoldsKey(q) => status'[minted[q]] = status[minted[q]] /\ keys'[Slot(q)] = keys[Slot(q)]
      BY <1>4, <2>1, <2>3 DEF TypeOK, Locked, Staged, Stage, Place
    <3>3. HoldsCart(q) => cart'[BuyerOf[q]] = cart[BuyerOf[q]]
      BY <1>4, <2>1, <2>3 DEF TypeOK, Locked, Place
    <3> QED BY <1>4, <2>3, <3>1, <3>2, <3>3, StageStands DEF TypeOK, Place, Goto, Close
  <2>4. \A p, q \in Request : p # q /\ minted'[p] # None => minted'[p] # minted'[q]
    BY <1>4 DEF TypeOK, Staged, Place, Close
  <2>5. ASSUME NEW w \in Worker
        PROVE  /\ \A id \in batch'[w] : status'[id] = "PENDING_PAYMENT"
               /\ rows'[w] \subseteq HeldBy(orders', batch'[w])
    <3>1. minted[r] \notin batch[w]
      BY <2>1 DEF Staged
    <3>2. HeldBy(orders', batch[w]) = HeldBy(orders, batch[w])
      BY <1>4, <3>1, PlacedHeld DEF Place
    <3>3. rows'[w] = rows[w] /\ batch' = batch
      BY <1>a, <1>4 DEF TypeOK, Place, Close
    <3>4. \A id \in batch[w] : status'[id] = "PENDING_PAYMENT"
      BY <1>4, <3>1 DEF TypeOK, Staged, Place
    <3> QED BY <3>2, <3>3, <3>4 DEF Staged
  <2> QED BY <2>2, <2>3, <2>4, <2>5 DEF Staged
<1>5. ASSUME NEW r \in Request, Reply(r) \/ Abort(r) \/ Fail(r) PROVE Staged'
  <2>1. Stage(r)'
    BY <1>5 DEF TypeOK, Staged, Stage, Reply, Abort, Fail, Refuse, Goto, Close, InTx, HoldsKey, tables, Slot
  <2>2. minted'[r] = None \/ \A q \in Request : q # r => minted[q] # minted'[r]
    BY <1>5 DEF TypeOK, Staged, Reply, Abort, Fail, Refuse, Close
  <2> QED BY <1>5, <1>b, <2>1, <2>2 DEF TypeOK, Reply, Abort, Fail, Refuse, Goto, Close
<1>6. ASSUME NEW r \in Request, NEW p \in Product, LockRow(r, p) PROVE Staged'
  <2>1. pc[r] = "stock" /\ p \in Lines(basket[r])
    BY <1>6 DEF LockRow, NextRow, Needs
  <2>2. Stage(r)'
    BY <1>6, <2>1 DEF TypeOK, Staged, Stage, LockRow, HoldsKey, tables, calls, Slot
  <2>3. minted'[r] = None \/ \A q \in Request : q # r => minted[q] # minted'[r]
    BY <1>6, <2>1 DEF Staged, Stage, LockRow, HoldsKey, calls
  <2> QED BY <1>6, <1>b, <2>2, <2>3 DEF TypeOK, LockRow, calls
<1>7. ASSUME NEW w \in Worker, NEW p \in Product, LockRow(w, p) PROVE Staged'
  <2>1. p \in HeldBy(orders, batch[w])
    BY <1>a, <1>7 DEF LockRow, NextRow, Needs
  <2>2. ASSUME NEW r \in Request PROVE Stage(r)'
    <3>1. \A q \in rows[r] : available'[q] >= available[q]
      BY <1>7 DEF TypeOK, LockRow, tables
    <3> QED BY <1>a, <1>7, <3>1, StageStands DEF TypeOK, LockRow, tables, calls
  <2>3. \A v \in Worker : rows'[v] \subseteq HeldBy(orders, batch[v])
    BY <1>7, <2>1 DEF TypeOK, Staged, LockRow
  <2> QED BY <1>7, <2>2, <2>3 DEF Staged, LockRow, tables, calls
<1>8. ASSUME NEW w \in Worker, ClaimExpired(w) \/ FailRun(w) PROVE Staged'
  <2>1. ASSUME NEW r \in Request PROVE Stage(r)'
    <3>1. rows'[r] = rows[r]
      BY <1>a, <1>8 DEF TypeOK, ClaimExpired, FailRun
    <3>2. \A q \in rows[r] : available'[q] >= available[q]
      BY <1>8 DEF TypeOK, ClaimExpired, FailRun, tables
    <3> QED BY <1>8, <3>1, <3>2, StageStands DEF ClaimExpired, FailRun, tables, calls
  <2>2. HeldBy(orders, {}) = {}
    BY DEF HeldBy
  <2>3. \A v \in Worker : /\ \A id \in batch'[v] : status[id] = "PENDING_PAYMENT"
                          /\ rows'[v] \subseteq HeldBy(orders, batch'[v])
    BY <1>8, <2>2 DEF TypeOK, Staged, ClaimExpired, FailRun
  <2> QED BY <1>8, <2>1, <2>3 DEF Staged, ClaimExpired, FailRun, tables, calls
<1>9. ASSUME NEW w \in Worker, Restock(w) PROVE Staged'
  <2>1. ASSUME NEW r \in Request PROVE Stage(r)'
    <3>1. rows'[r] = rows[r]
      BY <1>a, <1>9 DEF TypeOK, Restock
    <3>2. \A q \in rows[r] : available'[q] >= available[q]
      BY <1>9, RestockedType DEF TypeOK, Restock
    <3>3. HoldsKey(r) => status'[minted[r]] = status[minted[r]]
      BY <1>9 DEF TypeOK, Staged, Stage, Restock
    <3> QED BY <1>9, <3>1, <3>2, <3>3, StageStands DEF Restock, calls
  <2>2. \A v \in Worker : v # w => batch[v] \cap batch[w] = {}
    BY DEF Locked
  <2>3. \A S : HeldBy(orders', S) = HeldBy(orders, S)
    BY <1>9, MovedHeld DEF TypeOK, Restock
  <2>4. \A v \in Worker : /\ \A id \in batch'[v] : status'[id] = "PENDING_PAYMENT"
                          /\ rows'[v] \subseteq HeldBy(orders, batch'[v])
    BY <1>9, <2>2 DEF TypeOK, Staged, Restock
  <2> QED BY <1>9, <2>1, <2>3, <2>4 DEF Staged, Restock, calls
<1>10. ASSUME NEW b \in Buyer, NEW p \in Product, NEW q \in 0..MaxQty,
              SetLine(b, p, q) \/ RemoveLine(b, p)
       PROVE  Staged'
  <2>1. \A r \in Request : HoldsCart(r) => cart'[BuyerOf[r]] = cart[BuyerOf[r]]
    <3>1. PICK n : cart' = [cart EXCEPT ![b] = [cart[b] EXCEPT ![p] = n]]
      BY <1>10 DEF SetLine, RemoveLine
    <3>2. \A r \in Request : HoldsCart(r) => BuyerOf[r] # b
      BY <1>10 DEF SetLine, RemoveLine, CartFree
    <3> QED BY <3>1, <3>2, RequestFacts DEF TypeOK
  <2>2. \A r \in Request : \A x \in rows[r] : available'[x] >= available[x]
    BY <1>10 DEF TypeOK, SetLine, RemoveLine
  <2> QED BY <1>10, <1>c, <2>1, <2>2 DEF SetLine, RemoveLine, calls
<1>11. ASSUME NEW p \in Product, NEW n \in Stock, SetAvailable(p, n) PROVE Staged'
  <2>1. \A r \in Request : \A x \in rows[r] : available'[x] >= available[x]
    BY <1>11 DEF TypeOK, SetAvailable, RowFree
  <2> QED BY <1>11, <1>c, <2>1 DEF SetAvailable, calls
<1>12. ASSUME NEW id \in CheckoutId, Settle(id) PROVE Staged'
  <2>1. \A S : HeldBy(orders', S) = HeldBy(orders, S)
    BY <1>12, MovedHeld DEF TypeOK, Settle
  <2>2. \A r \in Request : HoldsKey(r) => status'[minted[r]] = status[minted[r]]
    BY <1>12 DEF TypeOK, Staged, Stage, Settle
  <2>3. \A w \in Worker : \A i \in batch[w] : status'[i] = status[i]
    BY <1>12 DEF TypeOK, Settle, CheckoutFree
  <2>4. \A r \in Request : \A x \in rows[r] : available'[x] >= available[x]
    BY <1>12 DEF TypeOK, Settle
  <2> QED BY <1>12, <1>c, <2>1, <2>2, <2>3, <2>4 DEF Settle, calls
<1>13. CASE \/ \E b \in Buyer : OpenCart(b)
            \/ \E p \in Product, x \in Price : SetPrice(p, x)
            \/ \E p \in Product, on \in Visibility : SetOnSale(p, on)
            \/ UNCHANGED vars
  <2>1. UNCHANGED <<available, cart, keys, status, orders, calls, rows, batch>>
    BY <1>13 DEF OpenCart, SetPrice, SetOnSale, vars, tables, calls
  <2>2. \A r \in Request : \A x \in rows[r] : available'[x] >= available[x]
    BY <2>1 DEF TypeOK
  <2> QED BY <1>c, <2>1, <2>2 DEF calls
<1>14. \A q \in 1..MaxQty : q \in 0..MaxQty /\ 0 \in 0..MaxQty
  BY QtyIsNat
<1> QED BY <1>1, <1>2, <1>3, <1>4, <1>5, <1>6, <1>7, <1>8, <1>9, <1>10, <1>11, <1>12, <1>13, <1>14,
           QtyIsNat DEF Next, RequestStep, WorkerStep, Environment

\* No step disturbs the order in which a transaction takes inventory rows.
LEMMA InOrderStep == ASSUME IInv, [Next]_vars PROVE InOrder'
<1> USE DEF IInv
<1>a. \A w \in Worker : w \notin Request
  BY RequestFacts
\* A transaction that keeps its rows and needs what it needed stays in order,
\* and so does one that holds nothing or needs nothing.
<1>b. ASSUME NEW x \in Request \cup Worker,
             \/ rows'[x] = rows[x] /\ Needs(x)' = Needs(x)
             \/ rows'[x] = {}
             \/ Needs(x)' = {}
      PROVE  \A p \in rows'[x], q \in Needs(x)' \ rows'[x] : p < q
  BY <1>b DEF InOrder
<1>1. ASSUME NEW r \in Request,
             \/ \E b \in Basket : Submit(r, b)
             \/ Claim(r) \/ LockCart(r) \/ Compare(r) \/ Decide(r)
             \/ Reply(r) \/ Abort(r) \/ Fail(r)
      PROVE  InOrder'
  <2>1. UNCHANGED <<orders, batch>>
    BY <1>1 DEF Submit, Claim, LockCart, Compare, Decide, Reply, Abort, Fail, tables
  <2>2. \A x \in Request \cup Worker : x # r => rows'[x] = rows[x]
    BY <1>1 DEF TypeOK, Submit, Claim, LockCart, Compare, Decide, Reply, Abort, Fail, Refuse, Close
  <2>3. \A q \in Request : q # r => pc'[q] = pc[q] /\ basket'[q] = basket[q]
    BY <1>1 DEF TypeOK, Submit, Claim, LockCart, Compare, Decide, Reply, Abort, Fail, Refuse, Goto
  <2>4. rows'[r] = {} \/ pc'[r] # "stock"
    <3>1. pc[r] # "stock" => rows[r] = {} \/ pc[r] = "write"
      BY DEF Staged, Stage
    <3> QED BY <1>1, <3>1 DEF TypeOK, Submit, Claim, LockCart, Compare, Decide, Reply, Abort, Fail,
                              Refuse, Goto, Close, InTx
  <2>5. rows'[r] = {} \/ Needs(r)' = {}
    BY <2>4 DEF Needs
  <2>6. \A x \in Request \cup Worker : x # r => rows'[x] = rows[x] /\ Needs(x)' = Needs(x)
    BY <2>1, <2>2, <2>3 DEF Needs, Lines, HeldBy
  <2> QED BY <1>b, <2>5, <2>6 DEF InOrder
<1>2. ASSUME NEW r \in Request, Place(r) PROVE InOrder'
  <2>1. minted[r] # None /\ status[minted[r]] = "ABSENT"
    BY <1>2 DEF Staged, Stage, Place, HoldsKey
  <2>2. rows'[r] = {}
    BY <1>2 DEF TypeOK, Place, Close
  <2>3. ASSUME NEW q \in Request, q # r PROVE rows'[q] = rows[q] /\ Needs(q)' = Needs(q)
    BY <1>2, <2>3 DEF TypeOK, Place, Goto, Close, Needs, Lines
  <2>4. ASSUME NEW w \in Worker PROVE rows'[w] = rows[w] /\ Needs(w)' = Needs(w)
    <3>1. minted[r] \notin batch[w]
      BY <2>1 DEF Staged
    <3>2. HeldBy(orders', batch[w]) = HeldBy(orders, batch[w])
      BY <1>2, <3>1, PlacedHeld DEF Place
    <3> QED BY <1>a, <1>2, <3>2 DEF TypeOK, Place, Close, Needs
  <2> QED BY <1>b, <2>2, <2>3, <2>4 DEF InOrder
<1>3. ASSUME NEW x \in Request \cup Worker, NEW p \in Product, LockRow(x, p) PROVE InOrder'
  <2>1. \A y \in Request \cup Worker : Needs(y)' = Needs(y)
    BY <1>3 DEF LockRow, tables, calls, Needs, Lines, HeldBy
  <2>2. \A y \in Request \cup Worker : y # x => rows'[y] = rows[y]
    BY <1>3 DEF TypeOK, LockRow
  <2>3. ASSUME NEW p0 \in rows'[x], NEW q \in Needs(x)' \ rows'[x] PROVE p0 < q
    <3>1. rows'[x] = rows[x] \cup {p}
      BY <1>3 DEF TypeOK, LockRow
    <3>2. q \in Needs(x) \ rows[x] /\ q # p /\ p <= q
      BY <1>3, <2>1, <2>3, <3>1 DEF LockRow, NextRow
    <3>3. Needs(x) \subseteq Product
      BY DEF Needs, Lines, HeldBy
    <3>4. p \in Nat /\ q \in Nat
      BY <3>2, <3>3, ProductsOrdered
    <3> QED BY <2>3, <3>1, <3>2, <3>4 DEF InOrder
  <2> QED BY <1>b, <2>1, <2>2, <2>3 DEF InOrder
<1>4. ASSUME NEW w \in Worker, ClaimExpired(w) \/ Restock(w) \/ FailRun(w) PROVE InOrder'
  <2>1. rows'[w] = {}
    <3>1. batch[w] = {} => rows[w] = {}
      BY DEF Staged, HeldBy
    <3> QED BY <1>4, <3>1 DEF TypeOK, ClaimExpired, Restock, FailRun
  <2>2. \A S : HeldBy(orders', S) = HeldBy(orders, S)
    BY <1>4, MovedHeld DEF TypeOK, ClaimExpired, Restock, FailRun, tables
  <2>3. ASSUME NEW x \in Request \cup Worker, x # w PROVE rows'[x] = rows[x] /\ Needs(x)' = Needs(x)
    <3>1. rows'[x] = rows[x] /\ (x \in Worker => batch'[x] = batch[x])
      BY <1>4, <2>3 DEF TypeOK, ClaimExpired, Restock, FailRun
    <3>2. UNCHANGED <<pc, basket>>
      BY <1>4 DEF ClaimExpired, Restock, FailRun, calls
    <3> QED BY <2>2, <3>1, <3>2 DEF Needs, Lines
  <2> QED BY <1>b, <2>1, <2>3 DEF InOrder
<1>5. CASE Environment \/ UNCHANGED vars
  <2>1. UNCHANGED <<rows, batch, pc, basket>>
    BY <1>5 DEF Environment, OpenCart, SetLine, RemoveLine, SetAvailable, SetPrice, SetOnSale, Settle, calls, vars
  <2>2. \A S : HeldBy(orders', S) = HeldBy(orders, S)
    <3>1. CASE \E id \in CheckoutId : Settle(id)
      BY <3>1, MovedHeld DEF TypeOK, Settle
    <3>2. CASE orders' = orders
      BY <3>2
    <3> QED BY <1>5, <3>1, <3>2 DEF Environment, OpenCart, SetLine, RemoveLine, SetAvailable,
                                    SetPrice, SetOnSale, vars, tables
  <2>3. \A x \in Request \cup Worker : Needs(x)' = Needs(x)
    BY <2>1, <2>2 DEF Needs, Lines
  <2> QED BY <2>1, <2>3 DEF InOrder
<1> QED BY <1>1, <1>2, <1>3, <1>4, <1>5 DEF Next, RequestStep, WorkerStep

\* Before any call, nobody holds anything.
LEMMA InitEstablishes == ASSUME Init PROVE IInv
<1>1. TypeOK
  <2>1. NoLines \in Quantities
    BY QtyIsNat DEF Quantities, NoLines
  <2>2. available \in [Product -> Nat] /\ tries \in [Request -> 0..Retries]
    <3>1. Stock \subseteq Nat /\ 0 \in 0..Retries
      BY LimitFacts
    <3>2. available \in [Product -> Stock] /\ tries = [r \in Request |-> 0]
      BY DEF Init
    <3> QED BY <3>1, <3>2
  <2>3. answer \in [Request -> [kind: Answers, id: CheckoutId \cup {None}]]
    BY DEF Init, Answers
  <2>4. orders \subseteq Order /\ IsFiniteSet(orders) /\ cartRow \subseteq Buyer
    BY FS_EmptySet DEF Init
  <2> QED BY <2>1, <2>2, <2>3, <2>4 DEF Init, TypeOK, CheckoutStatus
<1>2. Locked /\ Staged /\ InOrder
  BY NoneIsNothing DEF Init, Locked, Staged, Stage, InOrder, HoldsKey, HoldsCart
<1> QED BY <1>1, <1>2 DEF IInv

\* Every reachable state satisfies the inductive invariant: no row has two
\* holders, and every transaction still has what it established under its locks.
THEOREM Invariance == Spec => []IInv
<1>1. Init => IInv
  BY InitEstablishes
<1>2. IInv /\ [Next]_vars => IInv'
  BY TypeStep, LockedStep, StagedStep, InOrderStep DEF IInv
<1> QED BY <1>1, <1>2, PTL DEF Spec

\* Every variable keeps its type; in particular no inventory count is ever negative.
THEOREM TypeCorrect == Spec => []TypeOK
BY Invariance, PTL DEF IInv

\* A transaction about to write holds the rows and the cart it decided on.
LEMMA DecisionStands == ASSUME IInv PROVE DecisionHolds
<1>1. ASSUME NEW r \in Request, pc[r] = "write"
      PROVE  /\ \A p \in Product : available[p] >= basket[r].qty[p]
             /\ cart[BuyerOf[r]] = basket[r].qty
  <2>1. Stage(r) /\ basket[r] \in Basket
    BY <1>1 DEF IInv, Staged, Stage
  <2>2. ASSUME NEW p \in Product PROVE available[p] >= basket[r].qty[p]
    <3>1. available[p] \in Nat
      BY DEF IInv, TypeOK
    <3> QED BY <1>1, <2>1, <3>1, LinesOfABody DEF Stage
  <2> QED BY <1>1, <2>1, <2>2 DEF Stage
<1> QED BY <1>1 DEF DecisionHolds

\* The stock and the cart a placement was decided on are still there when it
\* writes (checkout.repository.ts: what is decided is what is true now).
THEOREM DecisionsHold == Spec => []DecisionHolds
BY DecisionStands, Invariance, PTL

-----------------------------------------------------------------------------
(***************************************************************************)
(* No deadlock.  Every row has a rank: key entries 0, cart rows 1, and     *)
(* inventory row p has p + 2.  A transaction only waits for a row of a     *)
(* higher rank than all it holds, so along any chain of waiting            *)
(* transactions the ranks rise, and there is a last row.                   *)
(***************************************************************************)
\* The rank of the row a transaction waits for.
Rank(x) == IF x \in Request /\ pc[x] = "claim" THEN 0
           ELSE IF x \in Request /\ pc[x] = "cart" THEN 1
           ELSE 2 + (CHOOSE p \in Product : NextRow(x, p))

\* The next row is the lowest of those still needed, so there is only one.
LEMMA OneNextRow ==
  ASSUME IInv, NEW x \in Request \cup Worker, NEW p, NextRow(x, p)
  PROVE  /\ p \in Product
         /\ \A y \in rows[x] : y < p
         /\ ~(x \in Request /\ pc[x] \in {"claim", "cart"})
         /\ Rank(x) = 2 + p
<1>1. Needs(x) \subseteq Product
  BY DEF Needs, Lines, HeldBy
<1>2. p \in Product /\ \A y \in rows[x] : y < p
  BY <1>1 DEF NextRow, IInv, InOrder
<1>3. ~(x \in Request /\ pc[x] \in {"claim", "cart"})
  BY DEF NextRow, Needs
<1>4. \A q : NextRow(x, q) => q = p
  <2>1. ASSUME NEW q, NextRow(x, q) PROVE q = p
    <3>1. p \in Nat /\ q \in Nat /\ p <= q /\ q <= p
      BY <1>1, <2>1, ProductsOrdered DEF NextRow
    <3> QED BY <3>1
  <2> QED BY <2>1
<1>5. (CHOOSE q \in Product : NextRow(x, q)) = p
  BY <1>2, <1>4
<1> QED BY <1>2, <1>3, <1>5 DEF Rank

\* What a waiting transaction waits for is ranked above all it holds.
LEMMA RanksRise ==
  ASSUME IInv, NEW x \in Request \cup Worker, NEW y \in Request \cup Worker,
         NEW z, WaitsFor(x, y), WaitsFor(y, z)
  PROVE  Rank(x) \in Nat /\ Rank(y) \in Nat /\ Rank(x) < Rank(y)
<1>1. \A p \in Product : p \in Nat
  BY ProductsOrdered
<1>2. CASE y \in Request /\ pc[y] = "claim"
  <2>1. rows[y] = {} /\ ~HoldsKey(y) /\ ~HoldsCart(y)
    BY <1>2 DEF IInv, Staged, Stage, HoldsKey, HoldsCart
  <2> QED BY <2>1 DEF WaitsFor
<1>3. CASE y \in Request /\ pc[y] = "cart"
  <2>1. rows[y] = {} /\ ~HoldsCart(y)
    BY <1>3 DEF IInv, Staged, Stage, HoldsCart
  <2>2. x \in Request /\ pc[x] = "claim"
    BY <2>1 DEF WaitsFor
  <2> QED BY <1>3, <2>2 DEF Rank
<1>4. CASE ~(y \in Request /\ pc[y] \in {"claim", "cart"})
  <2>1. PICK q : NextRow(y, q)
    BY <1>4 DEF WaitsFor
  <2>2. q \in Product /\ (\A p \in rows[y] : p < q) /\ Rank(y) = 2 + q
    BY <2>1, OneNextRow
  <2>3. CASE x \in Request /\ pc[x] \in {"claim", "cart"}
    BY <1>1, <2>2, <2>3 DEF Rank
  <2>4. CASE \E p \in rows[y] : NextRow(x, p)
    <3>1. PICK p \in rows[y] : NextRow(x, p)
      BY <2>4
    <3>2. p \in Product /\ Rank(x) = 2 + p
      BY <3>1, OneNextRow
    <3> QED BY <1>1, <2>2, <3>1, <3>2
  <2> QED BY <2>3, <2>4 DEF WaitsFor
<1> QED BY <1>2, <1>3, <1>4

\* A set of transactions is never a circle in which each waits for another: the
\* lock order (entry, cart, inventory by product) excludes deadlock among
\* checkouts, worker runs, cart writes and inventory edits (D96).
THEOREM NoDeadlock == Spec => []NoCircularWait
<1>1. ASSUME IInv, NEW S \in (SUBSET (Request \cup Worker)) \ {{}},
             \A x \in S : \E y \in S : WaitsFor(x, y)
      PROVE  FALSE
  <2>1. PICK m \in Product : \A p \in Product : p <= m
    BY ProductsOrdered
  <2>2. ASSUME NEW x \in S PROVE Rank(x) \in 0..(m + 2)
    <3>1. CASE x \in Request /\ pc[x] \in {"claim", "cart"}
      BY <2>1, <3>1, ProductsOrdered DEF Rank
    <3>2. CASE ~(x \in Request /\ pc[x] \in {"claim", "cart"})
      <4>1. PICK p : NextRow(x, p)
        BY <1>1, <3>2 DEF WaitsFor
      <4>2. p \in Product /\ Rank(x) = 2 + p
        BY <1>1, <4>1, OneNextRow
      <4> QED BY <2>1, <4>2, ProductsOrdered
    <3> QED BY <3>1, <3>2
  <2> DEFINE T == {m + 2 - Rank(x) : x \in S}
  <2>3. T \subseteq Nat /\ T # {}
    BY <1>1, <2>1, <2>2, ProductsOrdered
  <2>4. PICK t \in T : \A u \in T : ~(<<u, t>> \in OpToRel(<, Nat))
    BY <2>3, WFMin, NatLessThanWellFounded
  <2>5. PICK x \in S : t = m + 2 - Rank(x)
    BY <2>4
  <2>6. PICK y \in S : WaitsFor(x, y)
    BY <1>1
  <2>7. PICK z \in S : WaitsFor(y, z)
    BY <1>1
  <2>8. Rank(x) < Rank(y)
    BY <1>1, <2>6, <2>7, RanksRise
  <2>9. m + 2 - Rank(y) \in T /\ m + 2 - Rank(y) < t
    BY <2>1, <2>2, <2>5, <2>8, ProductsOrdered
  <2> QED BY <2>3, <2>4, <2>9 DEF OpToRel
<1>2. IInv => NoCircularWait
  BY <1>1 DEF NoCircularWait
<1> QED BY <1>2, Invariance, PTL

-----------------------------------------------------------------------------
(***************************************************************************)
(* Checkout is atomic.  A placement, a worker run and a settlement each    *)
(* map to one step of AtomicCheckout, taken when they commit; everything   *)
(* done before it under locks is a stutter.                                *)
(***************************************************************************)
\* Both specifications write the same rows.
LEMMA SameRows ==
  /\ Atomic!NoLines = NoLines
  /\ \A id, b, body : Atomic!OrdersFor(id, b, body) = OrdersFor(id, b, body)
  /\ \A os, ids, to : Atomic!Moved(os, ids, to) = Moved(os, ids, to)
  /\ \A shelf, os, ids : Atomic!Restocked(shelf, os, ids) = Restocked(shelf, os, ids)
<1>1. Atomic!NoLines = NoLines
  BY DEF Atomic!NoLines, NoLines
<1>2. \A id, b, body : Atomic!OrdersFor(id, b, body) = OrdersFor(id, b, body)
  BY Zenon DEF Atomic!OrdersFor, OrdersFor, Atomic!Lines, Lines
<1>3. \A os, ids, to : Atomic!Moved(os, ids, to) = Moved(os, ids, to)
  BY Zenon DEF Atomic!Moved, Moved
<1>4. \A os, ids, p : Atomic!Units(os, ids, p) = Units(os, ids, p)
  BY Zenon DEF Atomic!Units, Units, Atomic!Cardinality, Cardinality
<1>5. \A os, ids : Atomic!HeldBy(os, ids) = HeldBy(os, ids)
  BY Zenon DEF Atomic!HeldBy, HeldBy
<1>6. \A shelf, os, ids : Atomic!Restocked(shelf, os, ids) = Restocked(shelf, os, ids)
  BY <1>4, <1>5, Zenon DEF Atomic!Restocked, Restocked
<1> QED BY <1>1, <1>2, <1>3, <1>6

\* Each step of the locking implementation is a step of the abstract one.
LEMMA StepSimulation == ASSUME IInv, [Next]_vars PROVE [Atomic!Next]_(Atomic!vars)
<1> USE DEF IInv
<1>1. ASSUME NEW r \in Request, Place(r) PROVE Atomic!Next
  <2>1. /\ basket[r] \in Basket /\ minted[r] \in CheckoutId
        /\ BuyerOf[r] \in Buyer /\ KeyOf[r] \in Key
        /\ status[minted[r]] = "ABSENT" /\ keys[<<BuyerOf[r], KeyOf[r]>>] = None
        /\ cart[BuyerOf[r]] = basket[r].qty
    <3>1. Stage(r) /\ HoldsKey(r) /\ pc[r] = "write"
      BY <1>1 DEF Staged, Place, HoldsKey
    <3>2. minted[r] \in CheckoutId \cup {None} /\ minted[r] # None
      BY <3>1 DEF TypeOK, Stage
    <3> QED BY <3>1, <3>2, RequestFacts DEF Stage, Slot
  <2>2. \A p \in Product : available[p] >= basket[r].qty[p]
    BY <1>1, DecisionStands DEF DecisionHolds, Place
  <2>3. Atomic!Place(BuyerOf[r], KeyOf[r], basket[r], minted[r])
    BY <1>1, <2>1, <2>2, SameRows DEF Atomic!Place, Place, Slot
  <2> QED BY <2>1, <2>3 DEF Atomic!Next
<1>2. ASSUME NEW w \in Worker, Restock(w) PROVE Atomic!Next
  <2>1. batch[w] \in SUBSET CheckoutId /\ \A id \in batch[w] : status[id] = "PENDING_PAYMENT"
    BY DEF TypeOK, Staged
  <2>2. Atomic!Cancel(batch[w])
    BY <1>2, <2>1, SameRows DEF Atomic!Cancel, Restock
  <2> QED BY <2>1, <2>2 DEF Atomic!Next
<1>3. ASSUME NEW id \in CheckoutId, Settle(id) PROVE Atomic!Next
  <2>1. Atomic!Pay(id)
    BY <1>3, SameRows DEF Atomic!Pay, Settle
  <2> QED BY <2>1 DEF Atomic!Next
<1>4. ASSUME NEW b \in Buyer, NEW p \in Product, NEW q \in 0..MaxQty,
             SetLine(b, p, q) \/ RemoveLine(b, p)
      PROVE  Atomic!Next
  <2>1. Atomic!EditCart(b, p, q) \/ Atomic!EditCart(b, p, 0)
    BY <1>4 DEF Atomic!EditCart, SetLine, RemoveLine
  <2> QED BY <2>1, QtyIsNat DEF Atomic!Next
<1>5. ASSUME NEW p \in Product, NEW n \in Stock, SetAvailable(p, n) PROVE Atomic!Next
  <2>1. Atomic!SetAvailable(p, n)
    BY <1>5 DEF Atomic!SetAvailable, SetAvailable
  <2> QED BY <2>1 DEF Atomic!Next
<1>6. CASE \/ \E r \in Request : \/ \E b \in Basket : Submit(r, b)
                                 \/ Claim(r) \/ LockCart(r) \/ Compare(r) \/ Decide(r)
                                 \/ Reply(r) \/ Abort(r) \/ Fail(r)
           \/ \E x \in Request \cup Worker, p \in Product : LockRow(x, p)
           \/ \E w \in Worker : ClaimExpired(w) \/ FailRun(w)
           \/ \E b \in Buyer : OpenCart(b)
           \/ \E p \in Product, x \in Price : SetPrice(p, x)
           \/ \E p \in Product, on \in Visibility : SetOnSale(p, on)
           \/ UNCHANGED vars
  <2>1. UNCHANGED <<available, cart, keys, status, orders>>
    BY <1>6 DEF Submit, Claim, LockCart, Compare, Decide, Reply, Abort, Fail, LockRow, ClaimExpired,
                FailRun, OpenCart, SetPrice, SetOnSale, vars, tables
  <2> QED BY <2>1 DEF Atomic!vars
<1>7. \A q \in 1..MaxQty : q \in 0..MaxQty /\ 0 \in 0..MaxQty
  BY QtyIsNat
<1> QED BY <1>1, <1>2, <1>3, <1>4, <1>5, <1>6, <1>7, QtyIsNat
        DEF Next, RequestStep, WorkerStep, Environment

\* Every behaviour of the locking implementation is a behaviour of the
\* specification in which checkout, cancellation and payment are single steps.
THEOREM CheckoutIsAtomic == Spec => ImplementsAtomicCheckout
<1>1. Init => Atomic!Init
  BY SameRows DEF Init, Atomic!Init
<1>2. IInv /\ [Next]_vars => [Atomic!Next]_(Atomic!vars)
  BY StepSimulation
<1> QED BY <1>1, <1>2, Invariance, PTL DEF Spec, ImplementsAtomicCheckout, Atomic!Spec

-----------------------------------------------------------------------------
(***************************************************************************)
(* What clients may rely on.  These are kept by the atomic steps, so they  *)
(* are proved of those and hold of the implementation through the          *)
(* simulation.                                                             *)
(***************************************************************************)
\* A step of the atomic specification, on the committed rows.
Committed == [Atomic!Next]_(Atomic!vars)

\* A placement adds its own orders, as placed, and no others.
LEMMA PlacedRows ==
  ASSUME NEW os \in SUBSET Order, NEW id \in CheckoutId, NEW buyer \in Buyer, NEW b \in Basket,
         \A o \in os : o.checkout # id
  PROVE  /\ AsPlaced(os \cup OrdersFor(id, buyer, b), id) = OrdersFor(id, buyer, b)
         /\ \A i : i # id => AsPlaced(os \cup OrdersFor(id, buyer, b), i) = AsPlaced(os, i)
<1>1. \A o \in OrdersFor(id, buyer, b) :
         o \in Order /\ o.checkout = id /\ o.status = "PENDING_PAYMENT"
  BY OrdersForType DEF OrdersFor
<1>2. \A o \in OrdersFor(id, buyer, b) : [o EXCEPT !.status = "PENDING_PAYMENT"] = o
  BY <1>1 DEF Order
<1>3. {x \in os \cup OrdersFor(id, buyer, b) : x.checkout = id} = OrdersFor(id, buyer, b)
  BY <1>1
<1>4. \A i : i # id => {x \in os \cup OrdersFor(id, buyer, b) : x.checkout = i} = {x \in os : x.checkout = i}
  BY <1>1
<1> DEFINE reset(o) == [o EXCEPT !.status = "PENDING_PAYMENT"]
<1>5. \A S : (\A o \in S : reset(o) = o) => {reset(o) : o \in S} = S
  <2> HIDE DEF reset
  <2> QED OBVIOUS
<1> QED BY <1>2, <1>3, <1>4, <1>5 DEF AsPlaced

\* A status change does not touch what was placed.
LEMMA MovedRows ==
  ASSUME NEW os \in SUBSET Order, NEW ids, NEW to \in OrderStatus, NEW i
  PROVE  AsPlaced(Moved(os, ids, to), i) = AsPlaced(os, i)
<1> DEFINE move(o) == IF o.checkout \in ids /\ o.status = "PENDING_PAYMENT"
                        THEN [o EXCEPT !.status = to] ELSE o
           reset(o) == [o EXCEPT !.status = "PENDING_PAYMENT"]
<1>1. \A o \in os : move(o).checkout = o.checkout /\ reset(move(o)) = reset(o)
  BY DEF Order
<1>2. Moved(os, ids, to) = {move(o) : o \in os}
  BY DEF Moved
<1>3. {reset(o) : o \in {x \in {move(o) : o \in os} : x.checkout = i}}
        = {reset(o) : o \in {x \in os : x.checkout = i}}
  <2> HIDE DEF move, reset
  <2> QED BY <1>1
<1> QED BY <1>2, <1>3 DEF AsPlaced

\* An atomic step leaves every order with its checkout's status.
LEMMA OrdersFollowStep ==
  ASSUME IInv, OrdersFollowTheirCheckout, Committed
  PROVE  OrdersFollowTheirCheckout'
<1> USE DEF IInv
<1>1. ASSUME NEW b \in Buyer, NEW k \in Key, NEW body \in Basket, NEW id \in CheckoutId,
             Atomic!Place(b, k, body, id)
      PROVE  OrdersFollowTheirCheckout'
  <2>1. \A o \in OrdersFor(id, b, body) : o.checkout = id /\ o.status = "PENDING_PAYMENT"
    BY DEF OrdersFor
  <2>2. \A o \in orders : o.checkout # id /\ o.checkout \in CheckoutId
    BY <1>1 DEF OrdersFollowTheirCheckout, Atomic!Place, TypeOK, Order, OrderStatus
  <2> QED BY <1>1, <2>1, <2>2, SameRows DEF OrdersFollowTheirCheckout, Atomic!Place, TypeOK
<1>2. ASSUME NEW ids, NEW to, orders' = Moved(orders, ids, to),
             \A id \in CheckoutId :
               /\ id \in ids => status[id] = "PENDING_PAYMENT" /\ status'[id] = to
               /\ id \notin ids => status'[id] = status[id]
      PROVE  OrdersFollowTheirCheckout'
  <2>1. ASSUME NEW o \in orders'
        PROVE  o.status = status'[o.checkout]
    <3>1. PICK x \in orders : o = IF x.checkout \in ids /\ x.status = "PENDING_PAYMENT"
                                    THEN [x EXCEPT !.status = to] ELSE x
      BY <1>2 DEF Moved
    <3>2. x \in Order /\ x.checkout \in CheckoutId /\ x.status = status[x.checkout]
      BY DEF OrdersFollowTheirCheckout, TypeOK, Order
    <3>3. o.checkout = x.checkout
      BY <3>1, <3>2 DEF Order
    <3>4. CASE x.checkout \in ids
      BY <1>2, <3>1, <3>2, <3>3, <3>4 DEF Order
    <3>5. CASE x.checkout \notin ids
      BY <1>2, <3>1, <3>2, <3>5
    <3> QED BY <3>4, <3>5
  <2> QED BY <2>1 DEF OrdersFollowTheirCheckout
<1>3. ASSUME NEW ids \in SUBSET CheckoutId, Atomic!Cancel(ids) PROVE OrdersFollowTheirCheckout'
  BY <1>2, <1>3, SameRows DEF Atomic!Cancel
<1>4. ASSUME NEW id \in CheckoutId, Atomic!Pay(id) PROVE OrdersFollowTheirCheckout'
  <2>1. \A i \in CheckoutId : /\ i \in {id} => status[i] = "PENDING_PAYMENT" /\ status'[i] = "PAID"
                              /\ i \notin {id} => status'[i] = status[i]
    BY <1>4 DEF Atomic!Pay, TypeOK
  <2>2. orders' = Moved(orders, {id}, "PAID")
    BY <1>4, SameRows DEF Atomic!Pay
  <2> QED BY <1>2, <2>1, <2>2
<1>5. CASE UNCHANGED <<status, orders>>
  BY <1>5 DEF OrdersFollowTheirCheckout
<1> QED BY <1>1, <1>3, <1>4, <1>5
        DEF Committed, Atomic!Next, Atomic!vars, Atomic!EditCart, Atomic!SetAvailable

\* Every order has the status of its checkout (INV-11).
THEOREM OrdersFollow == Spec => []OrdersFollowTheirCheckout
<1>1. Init => OrdersFollowTheirCheckout
  BY DEF Init, OrdersFollowTheirCheckout
<1>2. IInv /\ OrdersFollowTheirCheckout /\ [Next]_vars => OrdersFollowTheirCheckout'
  BY StepSimulation, OrdersFollowStep DEF Committed
<1> QED BY <1>1, <1>2, Invariance, PTL DEF Spec

-----------------------------------------------------------------------------
(***************************************************************************)
(* Units.  A unit is an order and a number up to what the order holds, so  *)
(* that what placements, restocks and settlements do to the sums is what   *)
(* they do to sets.                                                        *)
(***************************************************************************)
\* Orders that hold no unit of p have none to count.
LEMMA NotHeldIsNone ==
  ASSUME NEW os \in SUBSET Order, NEW ids, NEW p \in Product, p \notin HeldBy(os, ids)
  PROVE  Units(os, ids, p) = 0
<1>1. Each(os, ids, p) = {}
  <2> SUFFICES ASSUME NEW u \in Each(os, ids, p) PROVE FALSE
    OBVIOUS
  <2>1. u[1] \in os /\ u[2] \in 1..MaxQty /\ u[1].checkout \in ids /\ u[2] <= u[1].items[p]
    BY DEF Each
  <2>2. u[1].items[p] \in Int
    BY <2>1, QtyIsNat DEF Order, Quantities
  <2> QED BY <2>1, <2>2, QtyIsNat DEF HeldBy
<1> QED BY <1>1, FS_EmptySet DEF Units, Each

\* Units of different checkouts are different units.
LEMMA UnitsSplit ==
  ASSUME NEW os, IsFiniteSet(os), NEW S, NEW T, S \cap T = {}, NEW p
  PROVE  Units(os, S \cup T, p) = Units(os, S, p) + Units(os, T, p)
<1>1. /\ Each(os, S \cup T, p) = Each(os, S, p) \cup Each(os, T, p)
      /\ Each(os, S, p) \cap Each(os, T, p) = {}
  BY DEF Each
<1>2. /\ IsFiniteSet(Each(os, S, p)) /\ Cardinality(Each(os, S, p)) = Units(os, S, p)
      /\ IsFiniteSet(Each(os, T, p)) /\ Cardinality(Each(os, T, p)) = Units(os, T, p)
      /\ Units(os, S, p) \in Nat /\ Units(os, T, p) \in Nat
      /\ Cardinality(Each(os, S \cup T, p)) = Units(os, S \cup T, p)
  BY UnitsAreFinite
<1>3. Cardinality(Each(os, S, p) \cup Each(os, T, p)) = Units(os, S, p) + Units(os, T, p) - Cardinality({})
  BY <1>1, <1>2, FS_Union
<1>4. Cardinality({}) = 0
  BY FS_EmptySet
<1> HIDE DEF Each
<1>5. Units(os, S \cup T, p) = Units(os, S, p) + Units(os, T, p) - 0
  BY <1>1, <1>2, <1>3, <1>4
<1> QED BY <1>2, <1>5

\* A status change moves every unit with its order, and loses none: two orders of a
\* checkout have one status.
LEMMA MovedUnits ==
  ASSUME NEW os \in SUBSET Order, IsFiniteSet(os), NEW ids, NEW to \in OrderStatus, NEW S, NEW p,
         \A o, x \in os : o.checkout = x.checkout => o.status = x.status
  PROVE  Units(Moved(os, ids, to), S, p) = Units(os, S, p)
<1> DEFINE move(o) == IF o.checkout \in ids /\ o.status = "PENDING_PAYMENT"
                        THEN [o EXCEPT !.status = to] ELSE o
           A == Each(os, S, p)
           B == Each(Moved(os, ids, to), S, p)
           f == [u \in A |-> <<move(u[1]), u[2]>>]
<1>1. \A o \in os : /\ move(o).checkout = o.checkout /\ move(o).items = o.items
                    /\ move(o).seller = o.seller /\ move(o).buyer = o.buyer
  BY DEF Order
<1>2. \A o, x \in os : move(o) = move(x) => o = x
  <2>1. ASSUME NEW o \in os, NEW x \in os, move(o) = move(x) PROVE o = x
    <3>1. /\ o.checkout = x.checkout /\ o.items = x.items
          /\ o.seller = x.seller /\ o.buyer = x.buyer
      BY <1>1, <2>1
    <3>2. o.status = x.status /\ o \in Order /\ x \in Order
      BY <3>1
    <3> QED BY <3>1, <3>2 DEF Order
  <2> QED BY <2>1
<1>3. Moved(os, ids, to) = {move(o) : o \in os}
  BY DEF Moved
<1>4. f \in Bijection(A, B)
  <2> HIDE DEF move
  <2>1. \A u \in A : /\ u[1] \in os /\ u[2] \in 1..MaxQty /\ u = <<u[1], u[2]>>
                     /\ u[1].checkout \in S /\ u[2] <= u[1].items[p]
    BY DEF Each
  <2>2. f \in [A -> B]
    <3>1. ASSUME NEW u \in A PROVE <<move(u[1]), u[2]>> \in B
      BY <1>1, <1>3, <2>1 DEF Each
    <3> QED BY <3>1
  <2>3. \A u, v \in A : f[u] = f[v] => u = v
    <3>1. ASSUME NEW u \in A, NEW v \in A, f[u] = f[v] PROVE u = v
      <4>1. move(u[1]) = move(v[1]) /\ u[2] = v[2]
        BY <3>1
      <4>2. u[1] = v[1]
        BY <1>2, <2>1, <4>1
      <4> QED BY <2>1, <4>1, <4>2
    <3> QED BY <3>1
  <2>4. \A v \in B : \E u \in A : f[u] = v
    <3>1. ASSUME NEW v \in B PROVE \E u \in A : f[u] = v
      <4>1. /\ v[1] \in Moved(os, ids, to) /\ v[2] \in 1..MaxQty /\ v = <<v[1], v[2]>>
            /\ v[1].checkout \in S /\ v[2] <= v[1].items[p]
        BY DEF Each
      <4>2. PICK o \in os : v[1] = move(o)
        BY <1>3, <4>1
      <4>3. <<o, v[2]>> \in A
        BY <1>1, <4>1, <4>2 DEF Each
      <4>4. f[<<o, v[2]>>] = v
        BY <4>1, <4>2, <4>3
      <4> QED BY <4>3, <4>4
    <3> QED BY <3>1
  <2> HIDE DEF A, B, f
  <2>5. f \in Injection(A, B)
    BY <2>2, <2>3 DEF Injection, IsInjective
  <2>6. f \in Surjection(A, B)
    BY <2>2, <2>4 DEF Surjection
  <2> QED BY <2>5, <2>6 DEF Bijection
<1>5. IsFiniteSet(A) /\ Cardinality(A) = Units(os, S, p)
  BY UnitsAreFinite
<1>6. ExistsBijection(A, B)
  <2> HIDE DEF A, B, f
  <2> QED BY <1>4 DEF ExistsBijection
<1>7. Cardinality(B) = Cardinality(A)
  BY <1>5, <1>6, FS_Bijection
<1> QED BY <1>5, <1>7 DEF Units, Each
\* The orders of a placement hold exactly the units its body asks for.
LEMMA PlacedUnits ==
  ASSUME NEW os \in SUBSET Order, IsFiniteSet(os), NEW id \in CheckoutId, NEW buyer \in Buyer, NEW b \in Basket,
         \A o \in os : o.checkout # id, NEW S, id \notin S, NEW p \in Product
  PROVE  Units(os \cup OrdersFor(id, buyer, b), S \cup {id}, p) = Units(os, S, p) + b.qty[p]
<1> DEFINE new == OrdersFor(id, buyer, b)
           V == Each(new, {id}, p)
<1>1. Each(os \cup new, S \cup {id}, p) = Each(os, S, p) \cup V
  <2>1. \A o \in new : o.checkout = id
    BY DEF OrdersFor
  <2> HIDE DEF new
  <2> QED BY <2>1 DEF Each
<1>2. Each(os, S, p) \cap V = {}
  BY DEF Each
<1>3. b.qty[p] \in Nat /\ b.qty[p] <= MaxQty /\ (b.qty[p] > 0 <=> p \in Lines(b))
  BY LinesOfABody, QtyIsNat DEF Lines, Quantities
<1>4. IsFiniteSet(V) /\ Cardinality(V) = b.qty[p]
  <2>1. CASE p \notin Lines(b)
    <3>1. \A o \in new : o.items[p] = 0
      BY <1>3, <2>1, LinesOfABody DEF OrdersFor
    <3>2. V = {}
      <4> HIDE DEF new
      <4> QED BY <3>1, QtyIsNat DEF Each
    <3> QED BY <1>3, <2>1, <3>2, LinesOfABody, FS_EmptySet
  <2>2. CASE p \in Lines(b)
    <3> DEFINE o == [checkout |-> id, seller |-> SellerOf[p], buyer |-> buyer, status |-> "PENDING_PAYMENT",
                     items |-> [q \in Product |-> IF SellerOf[q] = SellerOf[p] THEN b.qty[q] ELSE 0]]
    <3>1. o \in new /\ o.items[p] = b.qty[p] /\ o.checkout = id
      BY <2>2 DEF OrdersFor
    <3>2. \A x \in new : x # o => x.items[p] = 0
      BY DEF OrdersFor
    <3>3. V = {o} \X (1..b.qty[p])
      <4> HIDE DEF new, o
      <4> QED BY <1>3, <3>1, <3>2, QtyIsNat DEF Each
    <3>4. IsFiniteSet(1..b.qty[p]) /\ Cardinality(1..b.qty[p]) = b.qty[p]
      <4>1. \A n \in Nat \ {0} : IsFiniteSet(1..n) /\ Cardinality(1..n) = n - 1 + 1
        BY FS_Interval
      <4> QED BY <1>3, <2>2, <4>1
    <3>5. IsFiniteSet({o}) /\ Cardinality({o}) = 1
      BY FS_Singleton
    <3>6. IsFiniteSet(V) /\ Cardinality(V) = 1 * b.qty[p]
      <4> HIDE DEF o, V
      <4> QED BY <3>3, <3>4, <3>5, FS_Product
    <3> QED BY <1>3, <3>6
  <2> QED BY <2>1, <2>2
<1> HIDE DEF V, new
<1>5. /\ IsFiniteSet(Each(os, S, p)) /\ Cardinality(Each(os, S, p)) = Units(os, S, p)
      /\ Units(os, S, p) \in Nat
  BY UnitsAreFinite
<1>6. Cardinality(Each(os, S, p) \cup V) = Units(os, S, p) + b.qty[p] - Cardinality({})
  BY <1>2, <1>4, <1>5, FS_Union
<1>7. Cardinality({}) = 0
  BY FS_EmptySet
<1>8. Units(os \cup new, S \cup {id}, p) = Cardinality(Each(os, S, p) \cup V)
  BY <1>1 DEF Units, Each
<1>9. Units(os \cup new, S \cup {id}, p) = Units(os, S, p) + b.qty[p]
  BY <1>3, <1>5, <1>6, <1>7, <1>8
<1> QED BY <1>9 DEF new

\* A restock returns what the orders held, also where they held nothing.
LEMMA RestockedUnits ==
  ASSUME NEW shelf \in [Product -> Nat], NEW os \in SUBSET Order, NEW ids, NEW p \in Product
  PROVE  Restocked(shelf, os, ids)[p] = shelf[p] + Units(os, ids, p)
BY NotHeldIsNone DEF Restocked

\* The checkouts that have not given their units back.
Live == {id \in CheckoutId : status[id] \in {"PENDING_PAYMENT", "PAID"}}

LEMMA UnitsStep ==
  ASSUME IInv, OrdersFollowTheirCheckout, [Next]_vars
  PROVE  \/ \A p \in Product : UnitsOf(p)' = UnitsOf(p)
         \/ \E p \in Product, n \in Stock : SetAvailable(p, n)
<1> USE DEF IInv
<1>a. /\ orders \in SUBSET Order /\ IsFiniteSet(orders)
      /\ \A o \in orders : o.checkout \in CheckoutId /\ o.status = status[o.checkout] /\ o.status # "ABSENT"
      /\ \A o, x \in orders : o.checkout = x.checkout => o.status = x.status
  BY DEF TypeOK, OrdersFollowTheirCheckout, Order, OrderStatus
<1>b. \A p \in Product : UnitsOf(p) = available[p] + Units(orders, Live, p) /\ available[p] \in Nat
  BY DEF UnitsOf, Live, TypeOK
<1>c. \A p \in Product : UnitsOf(p)' = available'[p] + Units(orders', Live', p)
  BY DEF UnitsOf, Live
<1>1. ASSUME NEW r \in Request, Place(r), NEW p \in Product PROVE UnitsOf(p)' = UnitsOf(p)
  <2>1. /\ basket[r] \in Basket /\ minted[r] \in CheckoutId /\ BuyerOf[r] \in Buyer
        /\ status[minted[r]] = "ABSENT"
    BY <1>1, RequestFacts DEF TypeOK, Staged, Stage, Place, HoldsKey
  <2>2. minted[r] \notin Live /\ Live' = Live \cup {minted[r]}
    BY <1>1, <2>1 DEF Place, Live, TypeOK
  <2>3. \A o \in orders : o.checkout # minted[r]
    BY <1>a, <2>1
  <2>4. Units(orders', Live', p) = Units(orders, Live, p) + basket[r].qty[p]
    BY <1>1, <1>a, <2>1, <2>2, <2>3, PlacedUnits DEF Place
  <2>5. available'[p] = available[p] - basket[r].qty[p] /\ basket[r].qty[p] \in Nat
    BY <1>1, <2>1, LinesOfABody DEF Place
  <2>6. Units(orders, Live, p) \in Nat
    BY <1>a, UnitsAreFinite
  <2> QED BY <1>b, <1>c, <2>4, <2>5, <2>6
<1>2. ASSUME NEW w \in Worker, Restock(w), NEW p \in Product PROVE UnitsOf(p)' = UnitsOf(p)
  <2>1. batch[w] \in SUBSET CheckoutId /\ \A id \in batch[w] : status[id] = "PENDING_PAYMENT"
    BY DEF TypeOK, Staged
  <2>2. Live = Live' \cup batch[w] /\ Live' \cap batch[w] = {}
    BY <1>2, <2>1 DEF Restock, Live
  <2>3. Units(orders, Live, p) = Units(orders, Live', p) + Units(orders, batch[w], p)
    BY <1>a, <2>2, UnitsSplit
  <2>4. Units(orders', Live', p) = Units(orders, Live', p)
    BY <1>2, <1>a, MovedUnits DEF Restock, OrderStatus
  <2>5. available'[p] = available[p] + Units(orders, batch[w], p)
    BY <1>2, <1>a, RestockedUnits DEF Restock, TypeOK
  <2>6. Units(orders, Live', p) \in Nat /\ Units(orders, batch[w], p) \in Nat
    BY <1>a, UnitsAreFinite
  <2> QED BY <1>b, <1>c, <2>3, <2>4, <2>5, <2>6
<1>3. ASSUME NEW id \in CheckoutId, Settle(id), NEW p \in Product PROVE UnitsOf(p)' = UnitsOf(p)
  <2>1. Live' = Live /\ available' = available
    BY <1>3 DEF Settle, Live, TypeOK
  <2>2. Units(orders', Live, p) = Units(orders, Live, p)
    BY <1>3, <1>a, MovedUnits DEF Settle, OrderStatus
  <2> QED BY <1>b, <1>c, <2>1, <2>2
<1>4. CASE \/ \E r \in Request : \/ \E b \in Basket : Submit(r, b)
                                 \/ Claim(r) \/ LockCart(r) \/ Compare(r) \/ Decide(r)
                                 \/ Reply(r) \/ Abort(r) \/ Fail(r)
           \/ \E x \in Request \cup Worker, p \in Product : LockRow(x, p)
           \/ \E w \in Worker : ClaimExpired(w) \/ FailRun(w)
           \/ \E b \in Buyer : OpenCart(b)
           \/ \E b \in Buyer, p \in Product : RemoveLine(b, p) \/ \E q \in 1..MaxQty : SetLine(b, p, q)
           \/ \E p \in Product, x \in Price : SetPrice(p, x)
           \/ \E p \in Product, on \in Visibility : SetOnSale(p, on)
           \/ UNCHANGED vars
  <2>1. UNCHANGED <<available, status, orders>>
    BY <1>4 DEF Submit, Claim, LockCart, Compare, Decide, Reply, Abort, Fail, LockRow, ClaimExpired,
                FailRun, OpenCart, RemoveLine, SetLine, SetPrice, SetOnSale, vars, tables
  <2> QED BY <2>1 DEF UnitsOf
<1> QED BY <1>1, <1>2, <1>3, <1>4 DEF Next, RequestStep, WorkerStep, Environment

\* INV-15: a placement takes from the shelf what its orders hold, a cancellation
\* returns what they held once, a payment neither; retries, failures and deaths
\* take or return nothing.  Only a seller's count changes how many units there are.
THEOREM UnitsAreConserved == Spec => UnitsConserved
<1>1. IInv /\ OrdersFollowTheirCheckout /\ [Next]_vars =>
        [\/ \A p \in Product : UnitsOf(p)' = UnitsOf(p)
         \/ \E p \in Product, n \in Stock : SetAvailable(p, n)]_vars
  BY UnitsStep
<1> QED BY <1>1, Invariance, OrdersFollow, PTL DEF Spec, UnitsConserved

-----------------------------------------------------------------------------
\* A spent key is never freed or given another checkout.
LEMMA KeysPersist ==
  ASSUME IInv, Committed
  PROVE  \A s \in Buyer \X Key : keys[s] # None => keys'[s] = keys[s]
<1>1. ASSUME NEW b \in Buyer, NEW k \in Key, NEW body \in Basket, NEW id \in CheckoutId,
             Atomic!Place(b, k, body, id), NEW s \in Buyer \X Key, keys[s] # None
      PROVE  keys'[s] = keys[s]
  BY <1>1 DEF Atomic!Place, IInv, TypeOK
<1> QED BY <1>1 DEF Committed, Atomic!Next, Atomic!vars, Atomic!Cancel, Atomic!Pay, Atomic!EditCart,
                    Atomic!SetAvailable

\* An atomic step keeps keys and checkouts in correspondence.
LEMMA KeysNameStep ==
  ASSUME IInv, OrdersFollowTheirCheckout, KeysNameTheirCheckouts, Committed
  PROVE  KeysNameTheirCheckouts'
<1> USE DEF IInv
<1>1. ASSUME NEW b \in Buyer, NEW k \in Key, NEW body \in Basket, NEW id \in CheckoutId,
             Atomic!Place(b, k, body, id)
      PROVE  KeysNameTheirCheckouts'
  <2> DEFINE t == <<b, k>>
  <2>1. /\ t \in Buyer \X Key /\ keys[t] = None /\ status[id] = "ABSENT"
        /\ keys' = [keys EXCEPT ![t] = [basket |-> body, id |-> id]]
        /\ status' = [status EXCEPT ![id] = "PENDING_PAYMENT"]
        /\ orders' = orders \cup OrdersFor(id, b, body)
    BY <1>1, SameRows DEF Atomic!Place
  <2> HIDE DEF t
  <2>2. /\ keys'[t] = [basket |-> body, id |-> id]
        /\ keys'[t] # None /\ keys'[t].id = id /\ keys'[t].basket = body
        /\ \A s \in Buyer \X Key : s # t => keys'[s] = keys[s]
    BY <2>1, NoneIsNothing DEF TypeOK
  <2>3. /\ status'[id] # "ABSENT"
        /\ \A i \in CheckoutId : i # id => status'[i] = status[i]
    BY <2>1 DEF TypeOK
  <2>4. \A s \in Buyer \X Key : keys[s] # None =>
          keys[s].id # id /\ keys[s].id \in CheckoutId /\ s # t
    <3>1. \A s \in Buyer \X Key : keys[s] # None => keys[s].id \in CheckoutId
      BY DEF TypeOK
    <3> QED BY <2>1, <3>1 DEF KeysNameTheirCheckouts
  <2>5. \A o \in orders : o.checkout # id
    BY <2>1 DEF OrdersFollowTheirCheckout, TypeOK, Order, OrderStatus
  <2>6. /\ AsPlaced(orders', id) = OrdersFor(id, b, body)
        /\ \A i : i # id => AsPlaced(orders', i) = AsPlaced(orders, i)
    <3>1. orders \in SUBSET Order
      BY DEF TypeOK
    <3>2. /\ AsPlaced(orders \cup OrdersFor(id, b, body), id) = OrdersFor(id, b, body)
          /\ \A i : i # id =>
               AsPlaced(orders \cup OrdersFor(id, b, body), i) = AsPlaced(orders, i)
      BY <2>5, <3>1, PlacedRows
    <3> QED BY <2>1, <3>2, Zenon
  <2>7. t[1] = b
    BY DEF t
  <2>8. \A i \in CheckoutId : status'[i] # "ABSENT" =>
          \E s \in Buyer \X Key : keys'[s] # None /\ keys'[s].id = i
    <3>1. ASSUME NEW i \in CheckoutId, status'[i] # "ABSENT", i # id
          PROVE  \E s \in Buyer \X Key : keys'[s] # None /\ keys'[s].id = i
      <4>1. PICK s \in Buyer \X Key : keys[s] # None /\ keys[s].id = i
        BY <2>3, <3>1 DEF KeysNameTheirCheckouts
      <4> QED BY <2>2, <2>4, <4>1
    <3> QED BY <2>1, <2>2, <3>1
  <2>9. \A s, u \in Buyer \X Key :
          keys'[s] # None /\ keys'[u] # None /\ keys'[s].id = keys'[u].id => s = u
    BY <2>1, <2>2, <2>4 DEF KeysNameTheirCheckouts
  <2>10. \A s \in Buyer \X Key : keys'[s] # None =>
           /\ status'[keys'[s].id] # "ABSENT"
           /\ AsPlaced(orders', keys'[s].id) = OrdersFor(keys'[s].id, s[1], keys'[s].basket)
    <3>1. ASSUME NEW s \in Buyer \X Key, keys'[s] # None, s # t
          PROVE  /\ status'[keys'[s].id] # "ABSENT"
                 /\ AsPlaced(orders', keys'[s].id) = OrdersFor(keys'[s].id, s[1], keys'[s].basket)
      <4>1. keys'[s] = keys[s] /\ keys[s] # None
        BY <2>2, <3>1
      <4>2. keys[s].id # id /\ keys[s].id \in CheckoutId
        BY <2>4, <4>1
      <4>3. /\ status[keys[s].id] # "ABSENT"
            /\ AsPlaced(orders, keys[s].id) = OrdersFor(keys[s].id, s[1], keys[s].basket)
        BY <4>1 DEF KeysNameTheirCheckouts
      <4> QED BY <2>3, <2>6, <4>1, <4>2, <4>3
    <3> QED BY <2>2, <2>3, <2>6, <2>7, <3>1
  <2> QED BY <2>8, <2>9, <2>10 DEF KeysNameTheirCheckouts
<1>2. ASSUME NEW ids, NEW to \in OrderStatus, orders' = Moved(orders, ids, to), keys' = keys,
             \A id \in CheckoutId : status'[id] = "ABSENT" <=> status[id] = "ABSENT"
      PROVE  KeysNameTheirCheckouts'
  <2>1. \A i : AsPlaced(orders', i) = AsPlaced(orders, i)
    BY <1>2, MovedRows DEF TypeOK
  <2>2. \A s \in Buyer \X Key : keys[s] # None => keys[s].id \in CheckoutId
    BY DEF TypeOK
  <2> QED BY <1>2, <2>1, <2>2 DEF KeysNameTheirCheckouts
<1>3. ASSUME NEW ids \in SUBSET CheckoutId, Atomic!Cancel(ids) PROVE KeysNameTheirCheckouts'
  <2>1. \A id \in CheckoutId : status'[id] = "ABSENT" <=> status[id] = "ABSENT"
    BY <1>3 DEF Atomic!Cancel
  <2> QED BY <1>2, <1>3, <2>1, SameRows DEF Atomic!Cancel, OrderStatus
<1>4. ASSUME NEW id \in CheckoutId, Atomic!Pay(id) PROVE KeysNameTheirCheckouts'
  <2>1. \A i \in CheckoutId : status'[i] = "ABSENT" <=> status[i] = "ABSENT"
    BY <1>4 DEF Atomic!Pay, TypeOK
  <2> QED BY <1>2, <1>4, <2>1, SameRows DEF Atomic!Pay, OrderStatus
<1>5. CASE UNCHANGED <<status, orders, keys>>
  BY <1>5 DEF KeysNameTheirCheckouts
<1> QED BY <1>1, <1>3, <1>4, <1>5
        DEF Committed, Atomic!Next, Atomic!vars, Atomic!EditCart, Atomic!SetAvailable

\* One checkout per key and one key per checkout, with exactly the orders of the
\* body it was claimed for, whatever was retried, repeated or rolled back (INV-2, D97).
THEOREM KeysNameCheckouts == Spec => []KeysNameTheirCheckouts
<1>1. Init => KeysNameTheirCheckouts
  BY DEF Init, KeysNameTheirCheckouts
<1>2. IInv /\ OrdersFollowTheirCheckout /\ KeysNameTheirCheckouts /\ [Next]_vars => KeysNameTheirCheckouts'
  BY StepSimulation, KeysNameStep DEF Committed
<1> QED BY <1>1, <1>2, Invariance, OrdersFollow, PTL DEF Spec

\* What answer r's answer must agree with, and what a call not sent has not got.
Agrees(r) ==
  /\ answer[r].kind \in {"PLACED", "REPLAYED"} =>
       /\ keys[Slot(r)] # None
       /\ keys[Slot(r)] = [basket |-> basket[r], id |-> answer[r].id]
  /\ answer[r].kind = "KEY_REUSED" =>
       keys[Slot(r)] # None /\ keys[Slot(r)].basket # basket[r]
  /\ pc[r] = "idle" => answer[r].kind = "NONE"

AnswersStand == \A r \in Request : Agrees(r)

\* No step contradicts an answer already given, and every new one is right.
LEMMA AnswersStep == ASSUME IInv, AnswersStand, [Next]_vars PROVE AnswersStand'
<1> USE DEF IInv
<1>1. \A s \in Buyer \X Key : keys[s] # None => keys'[s] = keys[s]
  BY StepSimulation, KeysPersist DEF Committed
\* A call that a step leaves alone keeps its answer.
<1>2. ASSUME NEW r \in Request, answer'[r] = answer[r], basket'[r] = basket[r],
             pc'[r] = "idle" => pc[r] = "idle"
      PROVE  Agrees(r)'
  <2>1. Agrees(r) /\ Slot(r) \in Buyer \X Key
    BY RequestFacts DEF AnswersStand, Slot
  <2> QED BY <1>1, <1>2, <2>1 DEF Agrees, Slot
\* A refusal of any other kind has nothing to agree with.
<1>3. ASSUME NEW r \in Request, NEW kind, Refuse(r, kind),
             kind \notin {"PLACED", "REPLAYED", "KEY_REUSED"}
      PROVE  Agrees(r)'
  BY <1>3 DEF TypeOK, Refuse, Goto, Answer, Agrees
<1>4. ASSUME NEW r \in Request, NEW b \in Basket, Submit(r, b) PROVE Agrees(r)'
  <2>1. CASE Refuse(r, "MIXED_CURRENCY")
    BY <1>3, <2>1
  <2>2. CASE Goto(r, "claim") /\ UNCHANGED answer
    <3>1. answer[r].kind = "NONE"
      BY <1>4 DEF AnswersStand, Agrees, Submit
    <3> QED BY <2>2, <3>1 DEF TypeOK, Goto, Agrees
  <2> QED BY <1>4, <2>1, <2>2 DEF Submit
<1>5. ASSUME NEW r \in Request, Claim(r) PROVE Agrees(r)'
  <2>1. keys' = keys /\ basket' = basket
    BY <1>5 DEF Claim, tables
  <2>2. CASE keys[Slot(r)] = None
    BY <1>2, <1>5, <2>1, <2>2 DEF TypeOK, Claim, Goto
  <2>3. CASE keys[Slot(r)] # None /\ Refuse(r, "KEY_REUSED") /\ keys[Slot(r)].basket # basket[r]
    <3>1. answer'[r].kind = "KEY_REUSED" /\ pc'[r] = "done"
      BY <2>3 DEF TypeOK, Refuse, Goto, Answer
    <3> QED BY <2>1, <2>3, <3>1 DEF Agrees, Slot
  <2>4. CASE /\ keys[Slot(r)] # None /\ keys[Slot(r)].basket = basket[r]
             /\ Goto(r, "reply") /\ Answer(r, "REPLAYED", keys[Slot(r)].id)
    <3>1. answer'[r].kind = "REPLAYED" /\ answer'[r].id = keys[Slot(r)].id /\ pc'[r] = "reply"
      BY <2>4 DEF TypeOK, Goto, Answer
    <3>2. keys[Slot(r)] \in [basket: Basket, id: CheckoutId]
      BY <2>4, RequestFacts DEF TypeOK, Slot
    <3>3. keys[Slot(r)] = [basket |-> basket[r], id |-> keys[Slot(r)].id]
      BY <2>4, <3>2
    <3> QED BY <2>1, <2>4, <3>1, <3>3 DEF Agrees, Slot
  <2> QED BY <1>5, <2>2, <2>3, <2>4 DEF Claim
<1>6. ASSUME NEW r \in Request, Place(r) PROVE Agrees(r)'
  <2>1. Slot(r) \in Buyer \X Key /\ basket[r] \in Basket /\ minted[r] \in CheckoutId
    <3>1. pc[r] = "write" /\ Stage(r) /\ HoldsKey(r)
      BY <1>6 DEF Place, Staged, HoldsKey
    <3> QED BY <3>1, RequestFacts DEF TypeOK, Stage, Slot
  <2>2. keys'[Slot(r)] = [basket |-> basket[r], id |-> minted[r]]
    BY <1>6, <2>1 DEF TypeOK, Place
  <2>3. [basket |-> basket[r], id |-> minted[r]] # None
    BY <2>1, NoneIsNothing
  <2>4. answer'[r].kind = "PLACED" /\ answer'[r].id = minted[r] /\ pc'[r] = "reply" /\ basket' = basket
    BY <1>6 DEF TypeOK, Place, Goto, Answer
  <2> QED BY <2>2, <2>3, <2>4 DEF Agrees, Slot
<1>7. ASSUME NEW r \in Request, LockCart(r) \/ Compare(r) \/ Decide(r) \/ Reply(r) \/ Abort(r) \/ Fail(r)
      PROVE  Agrees(r)'
  <2>1. CASE Refuse(r, "CART_CHANGED") \/ Refuse(r, "REJECTED") \/ Refuse(r, "CONTENDED") \/ Refuse(r, "LOST")
    BY <1>3, <2>1
  <2>2. CASE UNCHANGED answer
    <3>1. pc'[r] # "idle" /\ basket' = basket
      BY <1>7, <2>2 DEF TypeOK, LockCart, Compare, Decide, Reply, Abort, Fail, Refuse, Goto
    <3> QED BY <1>2, <2>2, <3>1
  <2> QED BY <1>7, <2>1, <2>2 DEF LockCart, Compare, Decide, Reply, Abort, Fail
<1>8. ASSUME NEW r \in Request, RequestStep(r), NEW q \in Request, q # r
      PROVE  answer'[q] = answer[q] /\ basket'[q] = basket[q] /\ pc'[q] = pc[q]
  BY <1>8 DEF TypeOK, RequestStep, Submit, Claim, LockCart, Compare, LockRow, Decide, Place, Reply,
              Abort, Fail, Refuse, Goto, Answer, calls
<1>9. ASSUME NEW r \in Request, RequestStep(r) PROVE AnswersStand'
  <2>1. Agrees(r)'
    <3>1. CASE \E p \in Product : LockRow(r, p)
      BY <1>2, <3>1 DEF LockRow, calls
    <3> QED BY <1>4, <1>5, <1>6, <1>7, <1>9, <3>1 DEF RequestStep
  <2> QED BY <1>2, <1>8, <1>9, <2>1 DEF AnswersStand
<1>10. CASE (\E w \in Worker : WorkerStep(w)) \/ Environment \/ UNCHANGED vars
  <2>1. UNCHANGED calls
    BY <1>10 DEF WorkerStep, ClaimExpired, Restock, FailRun, LockRow, Environment, OpenCart, SetLine,
                 RemoveLine, SetAvailable, SetPrice, SetOnSale, Settle, vars
  <2> QED BY <1>2, <2>1 DEF AnswersStand, calls
<1> QED BY <1>9, <1>10 DEF Next

\* Two calls with one key are never given two checkouts, and a replay is always
\* of the body that was sent (D97).
THEOREM AnswersAgree == Spec => []AnswersAgreeWithKeys
<1>1. Init => AnswersStand
  BY DEF Init, AnswersStand, Agrees
<1>2. IInv /\ AnswersStand /\ [Next]_vars => AnswersStand'
  BY AnswersStep
<1>3. AnswersStand => AnswersAgreeWithKeys
  BY DEF AnswersStand, Agrees, AnswersAgreeWithKeys
<1> QED BY <1>1, <1>2, <1>3, Invariance, PTL DEF Spec

-----------------------------------------------------------------------------
(***************************************************************************)
(* One currency.                                                           *)
(***************************************************************************)
\* A call that has read its currencies and is not yet at its write.
Between == {"claim", "cart", "compare", "stock"}

\* No product such a call has a line for is published by this step.
NoneIsPublishedMeanwhile ==
  \A r \in Request : pc[r] \in Between => \A p \in Lines(basket[r]) : onSale'[p] => onSale[p]

\* These products are priced in one currency.
Uniform(P) == \A p, q \in P : CurrencyOf[p] = CurrencyOf[q]

Visible(r) == {p \in Lines(basket[r]) : onSale[p]}

\* What the read before the locks refused never gets to the write.
Unmixed(r) == /\ pc[r] \in Between => Uniform(Visible(r))
              /\ pc[r] = "write" => Uniform(Lines(basket[r]))

Currencies == /\ \A r \in Request : Unmixed(r)
              /\ \A id \in CheckoutId : Uniform(HeldBy(orders, {id}))

\* Counting currencies is comparing them.
LEMMA CountedOnce ==
  ASSUME NEW P \in SUBSET Product
  PROVE  /\ IsFiniteSet({CurrencyOf[p] : p \in P})
         /\ Cardinality({CurrencyOf[p] : p \in P}) <= 1 <=> Uniform(P)
<1> DEFINE C == {CurrencyOf[p] : p \in P}
           f == [p \in P |-> CurrencyOf[p]]
<1>1. IsFiniteSet(P)
  <2>1. PICK m \in Product : \A p \in Product : p <= m
    BY ProductsOrdered
  <2>2. P \in SUBSET Nat /\ m \in Nat /\ \A p \in P : p <= m
    BY <2>1, ProductsOrdered
  <2> QED BY <2>2, FS_BoundedSetOfNaturals
<1>2. f \in Surjection(P, C)
  BY DEF Surjection
<1>3. IsFiniteSet(C) /\ Cardinality(C) \in Nat
  <2>1. IsFiniteSet(C)
    <3> HIDE DEF f, C
    <3> QED BY <1>1, <1>2, FS_Surjection
  <2> QED BY <2>1, FS_CardinalityType
<1>4. ASSUME Uniform(P) PROVE Cardinality(C) <= 1
  <2>1. CASE P = {}
    BY <2>1, FS_EmptySet
  <2>2. CASE P # {}
    <3>1. PICK p \in P : TRUE
      BY <2>2
    <3>2. C = {CurrencyOf[p]}
      BY <1>4, <3>1 DEF Uniform
    <3>3. Cardinality({CurrencyOf[p]}) = 1
      BY FS_Singleton
    <3> QED BY <3>2, <3>3
  <2> QED BY <2>1, <2>2
<1>5. ASSUME Cardinality(C) <= 1 PROVE Uniform(P)
  <2> HIDE DEF C
  <2>1. CASE Cardinality(C) = 0
    <3>1. C = {}
      BY <1>3, <2>1, FS_EmptySet
    <3> QED BY <3>1 DEF C, Uniform
  <2>2. CASE Cardinality(C) = 1
    <3>1. PICK x : C = {x}
      BY <1>3, <2>2, FS_Singleton
    <3>2. \A p \in P : CurrencyOf[p] \in C
      BY DEF C
    <3> QED BY <3>1, <3>2 DEF Uniform
  <2> QED BY <1>3, <1>5, <2>1, <2>2
<1> QED BY <1>3, <1>4, <1>5

\* A step that keeps a call's body, and shows nothing new, keeps what it found.
LEMMA UnmixedStands ==
  ASSUME NEW r \in Request, Unmixed(r), NoneIsPublishedMeanwhile, Lines(basket[r]) \subseteq Product,
         basket'[r] = basket[r],
         \/ pc'[r] = pc[r]
         \/ pc'[r] \notin {"claim", "write"} /\ pc[r] \in {"claim", "cart", "compare", "stock"}
         \/ pc'[r] = "claim" /\ pc[r] \in InTx
         \/ pc'[r] \notin {"claim", "cart", "compare", "stock", "write"}
  PROVE  Unmixed(r)'
<1>1. Visible(r)' \subseteq Lines(basket[r]) /\ Lines(basket[r])' = Lines(basket[r])
  BY DEF Visible, Lines
<1>2. pc[r] \in Between => Visible(r)' \subseteq Visible(r)
  BY DEF Visible, Lines, NoneIsPublishedMeanwhile
<1> QED BY <1>1, <1>2 DEF Unmixed, Uniform, InTx, Between

LEMMA CurrenciesStep ==
  ASSUME IInv, OrdersFollowTheirCheckout, Currencies, [Next]_vars, [NoneIsPublishedMeanwhile]_vars
  PROVE  Currencies'
<1> USE DEF IInv
<1>a. \A r \in Request : Lines(basket[r]) \subseteq Product
  BY DEF Lines
<1>b. NoneIsPublishedMeanwhile
  BY DEF NoneIsPublishedMeanwhile, vars, tables
<1>1. ASSUME NEW r \in Request, NEW b \in Basket, Submit(r, b) PROVE \A q \in Request : Unmixed(q)'
  <2>1. ASSUME NEW q \in Request, q # r PROVE Unmixed(q)'
    <3>1. basket'[q] = basket[q] /\ pc'[q] = pc[q]
      BY <1>1, <2>1 DEF TypeOK, Submit, Refuse, Goto
    <3> QED BY <1>a, <1>b, <3>1, UnmixedStands DEF Currencies
  <2>2. CASE Refuse(r, "MIXED_CURRENCY")
    BY <2>1, <2>2 DEF TypeOK, Refuse, Goto, Unmixed, Between
  <2>3. CASE /\ Cardinality({CurrencyOf[p] : p \in {q \in Lines(b) : onSale[q]}}) <= 1
             /\ Goto(r, "claim")
    <3>1. Uniform({q \in Lines(b) : onSale[q]})
      <4>1. {q \in Lines(b) : onSale[q]} \in SUBSET Product
        BY DEF Lines
      <4> QED BY <2>3, <4>1, CountedOnce
    <3>2. basket'[r] = b /\ onSale' = onSale /\ pc'[r] = "claim"
      BY <1>1, <2>3 DEF TypeOK, Submit, Goto, tables
    <3>3. Visible(r)' = {q \in Lines(b) : onSale[q]}
      BY <3>2 DEF Visible
    <3> QED BY <2>1, <3>1, <3>2, <3>3 DEF Unmixed, Uniform, Between
  <2> QED BY <1>1, <2>2, <2>3 DEF Submit
<1>2. ASSUME NEW r \in Request, Decide(r) PROVE \A q \in Request : Unmixed(q)'
  <2>1. ASSUME NEW q \in Request, q # r PROVE Unmixed(q)'
    <3>1. basket'[q] = basket[q] /\ pc'[q] = pc[q]
      BY <1>2, <2>1 DEF TypeOK, Decide, Refuse, Goto
    <3> QED BY <1>a, <1>b, <3>1, UnmixedStands DEF Currencies
  <2>2. CASE Refuse(r, "REJECTED")
    BY <2>1, <2>2 DEF TypeOK, Refuse, Goto, Unmixed, Between
  <2>3. CASE (\A p \in Lines(basket[r]) : LineStands(r, p)) /\ Goto(r, "write")
    <3>1. Visible(r) = Lines(basket[r]) /\ Uniform(Visible(r))
      BY <1>2, <2>3 DEF Decide, LineStands, Visible, Currencies, Unmixed, Between
    <3>2. basket' = basket /\ pc'[r] = "write"
      BY <1>2, <2>3 DEF TypeOK, Decide, Goto
    <3> QED BY <2>1, <3>1, <3>2 DEF Unmixed, Uniform, Lines, Between
  <2> QED BY <1>2, <2>2, <2>3 DEF Decide
<1>3. ASSUME NEW r \in Request,
             Claim(r) \/ LockCart(r) \/ Compare(r) \/ Place(r) \/ Reply(r) \/ Abort(r) \/ Fail(r),
             NEW q \in Request
      PROVE  Unmixed(q)'
  <2>1. basket'[q] = basket[q]
    BY <1>3 DEF Claim, LockCart, Compare, Place, Reply, Abort, Fail
  <2>2. \/ pc'[q] = pc[q]
        \/ pc'[q] \notin {"claim", "write"} /\ pc[q] \in {"claim", "cart", "compare", "stock"}
        \/ pc'[q] = "claim" /\ pc[q] \in InTx
        \/ pc'[q] \notin {"claim", "cart", "compare", "stock", "write"}
    BY <1>3 DEF TypeOK, Claim, LockCart, Compare, Place, Reply, Abort, Fail, Refuse, Goto, InTx
  <2> QED BY <1>a, <1>b, <2>1, <2>2, UnmixedStands DEF Currencies
<1>4. ASSUME UNCHANGED <<pc, basket>>, NEW q \in Request PROVE Unmixed(q)'
  BY <1>4, <1>a, <1>b, UnmixedStands DEF Currencies
<1>5. \A q \in Request : Unmixed(q)'
  <2>1. CASE \/ \E x \in Request \cup Worker, p \in Product : LockRow(x, p)
             \/ \E w \in Worker : ClaimExpired(w) \/ Restock(w) \/ FailRun(w)
             \/ Environment \/ UNCHANGED vars
    <3>1. UNCHANGED <<pc, basket>>
      BY <2>1 DEF LockRow, ClaimExpired, Restock, FailRun, Environment, OpenCart, SetLine, RemoveLine, SetAvailable,
                  SetPrice, SetOnSale, Settle, vars, calls
    <3> QED BY <1>4, <3>1
  <2> QED BY <1>1, <1>2, <1>3, <2>1 DEF Next, RequestStep, WorkerStep
<1>6. ASSUME NEW id \in CheckoutId PROVE Uniform(HeldBy(orders, {id}))'
  <2>1. ASSUME NEW r \in Request, Place(r) PROVE Uniform(HeldBy(orders', {id}))
    <3>1. /\ basket[r] \in Basket /\ minted[r] \in CheckoutId /\ pc[r] = "write"
          /\ status[minted[r]] = "ABSENT" /\ orders' = orders \cup OrdersFor(minted[r], BuyerOf[r], basket[r])
      BY <2>1 DEF TypeOK, Staged, Stage, Place, HoldsKey
    <3>2. CASE id # minted[r]
      BY <3>1, <3>2, PlacedHeld DEF Currencies
    <3>3. CASE id = minted[r]
      <4>1. \A o \in orders : o.checkout # id
        BY <3>1, <3>3 DEF TypeOK, OrdersFollowTheirCheckout, Order, OrderStatus
      <4>2. \A o \in OrdersFor(id, BuyerOf[r], basket[r]), p \in Product :
              o.items[p] > 0 => p \in Lines(basket[r])
        BY <3>1, LinesOfABody DEF OrdersFor, Lines
      <4>3. HeldBy(orders', {id}) \subseteq Lines(basket[r])
        BY <3>1, <3>3, <4>1, <4>2 DEF HeldBy
      <4> QED BY <3>1, <4>3 DEF Currencies, Unmixed, Uniform
    <3> QED BY <3>2, <3>3
  <2>2. CASE \/ \E w \in Worker : Restock(w)
             \/ \E i \in CheckoutId : Settle(i)
    <3>1. \E ids, to : orders' = Moved(orders, ids, to)
      BY <2>2 DEF Restock, Settle
    <3>2. HeldBy(orders', {id}) = HeldBy(orders, {id})
      BY <3>1, MovedHeld DEF TypeOK
    <3> QED BY <3>2 DEF Currencies
  <2>3. CASE orders' = orders
    BY <2>3 DEF Currencies
  <2>4. (\E r \in Request : Place(r)) \/ (\E w \in Worker : Restock(w)) \/ (\E i \in CheckoutId : Settle(i)) \/ orders' = orders
    BY DEF Next, RequestStep, WorkerStep, Submit, Claim, LockCart, Compare, Decide, Reply, Abort, Fail, LockRow,
           ClaimExpired, FailRun, Environment, OpenCart, SetLine, RemoveLine, SetAvailable, SetPrice, SetOnSale,
           vars, tables
  <2> QED BY <2>1, <2>2, <2>3, <2>4
<1> QED BY <1>5, <1>6 DEF Currencies

\* OneCurrency, which the comment at checkout.repository.ts:205 takes from the read
\* before the locks: it follows when no product is published between that read and
\* the write of a call that orders it.  Publications at any other time do no harm.
THEOREM OneCurrencyUnlessPublished ==
  Spec /\ [][NoneIsPublishedMeanwhile]_vars => []OneCurrency
<1>1. Init => Currencies
  BY DEF Init, Currencies, Unmixed, Uniform, HeldBy, Between
<1>2. IInv /\ OrdersFollowTheirCheckout /\ Currencies /\ [Next]_vars /\ [NoneIsPublishedMeanwhile]_vars => Currencies'
  BY CurrenciesStep
<1>3. Currencies => OneCurrency
  <2>1. \A id \in CheckoutId : HeldBy(orders, {id}) \in SUBSET Product
    BY DEF HeldBy
  <2> QED BY <2>1, CountedOnce DEF Currencies, OneCurrency
<1> QED BY <1>1, <1>2, <1>3, Invariance, OrdersFollow, PTL DEF Spec
=============================================================================
