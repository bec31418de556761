--------------------------- MODULE ShoppingProofs ---------------------------
(***************************************************************************)
(* Theorems about Shopping, for any number of tabs, requests under way,    *)
(* products, prices, keys and checkouts.                                   *)
(*                                                                         *)
(* Every request and every page is well formed on its own: the invariant   *)
(* says so record by record, and a step is the change of one or two.       *)
(***************************************************************************)
EXTENDS Shopping, TLAPS

\* A view shows a price beside every line.
Shown(v) == \A p \in Product : v.qty[p] > 0 => v.price[p] \in Price

PageOK(g) == /\ g \in Page
             /\ g.view # None => Shown(g.view)
             /\ g.route # "elsewhere" => g.key \in Key

\* What a click had to find on the page it was made on.
Clicked(k, op) == /\ op.key = k
                  /\ Shown(op.screen)
                  /\ InCart(op.screen) # {}
                  /\ PriceChanges(op.screen) = {} \/ op.ticked

CallOK(r) == /\ r \in Request
             /\ r.cart # None => Shown(r.cart)
             /\ r.op.kind = "place" => Clicked(r.page, r.op)

\* A checkout was made from the page that minted its key.
Made == \A id \in CheckoutId : made[id] # None =>
          /\ Spent(made[id]) # None
          /\ Spent(made[id]).id = id

Pages == [Tab -> {g \in Page : PageOK(g)}]
Calls == [Call -> {r \in Request : CallOK(r)} \cup {None}]

Tables ==
  /\ available \in [Product -> Nat]
  /\ cart \in [Buyer -> Quantities]
  /\ status \in [CheckoutId -> {"ABSENT", "PENDING_PAYMENT"}]
  /\ orders \subseteq Order
  /\ keys \in [Buyer \X Key -> [basket: Basket, id: CheckoutId] \cup {None}]
  /\ price \in Prices
  /\ added \in [Product -> Price \cup {None}]
  /\ made \in [CheckoutId -> Key \cup {None}]

IInv == Tables /\ page \in Pages /\ call \in Calls /\ Made

-----------------------------------------------------------------------------
LEMMA BlankOK == ASSUME NEW r \in {"cart", "review", "elsewhere"}, NEW k \in Key \cup {None},
                        r # "elsewhere" => k \in Key
                 PROVE  PageOK(Blank(r, k))
BY DEF PageOK, Blank, Page

LEMMA SentOK ==
  ASSUME NEW t \in Tab \cup {None}, NEW k \in Key \cup {None}, NEW op \in Op,
         op.kind = "place" => Clicked(k, op)
  PROVE  CallOK(Sent(t, k, op))
BY DEF CallOK, Sent, Request, Answers

LEMMA LoadOK == ASSUME NEW t \in Tab \cup {None}, NEW k \in Key \cup {None}
                PROVE  CallOK(Sent(t, k, [kind |-> "load"]))
BY SentOK DEF Op

\* The fields an answer, a loss or a newer write changes.
LEMMA CallFields ==
  ASSUME NEW r, CallOK(r)
  PROVE  /\ CallOK([r EXCEPT !.tab = None])
         /\ CallOK([r EXCEPT !.wrote = TRUE])
         /\ CallOK([r EXCEPT !.old = TRUE])
         /\ \A a \in Answers : CallOK([r EXCEPT !.answer = a])
BY DEF CallOK, Request

LEMMA PageFields ==
  ASSUME NEW g, PageOK(g), NEW b \in BOOLEAN
  PROVE  /\ PageOK([g EXCEPT !.accepted = b])
         /\ PageOK([g EXCEPT !.placing = b])
         /\ PageOK([g EXCEPT !.old = b])
         /\ PageOK([g EXCEPT !.failed = TRUE, !.placing = b])
         /\ PageOK([g EXCEPT !.failed = FALSE, !.overlapped = b])
         /\ \A to \in {"here", "placed", "cart"} : PageOK([g EXCEPT !.going = to, !.placing = b])
BY DEF PageOK, Page

-----------------------------------------------------------------------------
(***************************************************************************)
(* The steps of pages, which change no table.                              *)
(***************************************************************************)
LEMMA Quiet == ASSUME IInv, Unmoved, page' \in Pages, call' \in Calls PROVE IInv'
BY DEF IInv, Tables, Made, Spent, Unmoved, tables

LEMMA MountStep ==
  ASSUME NEW t \in Tab, NEW r \in {"cart", "review", "elsewhere"}, NEW c \in Call,
         NEW calls \in Calls, page \in Pages, Mount(t, r, c, calls)
  PROVE  page' \in Pages /\ call' \in Calls
<1>1. PICK k \in Key : /\ page' = [page EXCEPT ![t] = Blank(r, k)]
                       /\ call' = [calls EXCEPT ![c] = Sent(t, k, [kind |-> "load"])]
  BY DEF Mount
<1>2. PageOK(Blank(r, k)) /\ CallOK(Sent(t, k, [kind |-> "load"]))
  BY BlankOK, LoadOK
<1> QED BY <1>1, <1>2 DEF Pages, Calls, PageOK, CallOK

LEMMA OrphanedOK == ASSUME call \in Calls, NEW t \in Tab PROVE Orphaned(t) \in Calls
BY CallFields DEF Orphaned, Calls, CallOK

LEMMA TabSteps == ASSUME IInv, NEW t \in Tab, NEW c \in Call, TabStep(t, c) PROVE IInv'
<1> USE DEF IInv
<1>1. CASE \E r \in {"cart", "review"} : Open(t, r, c)
  BY <1>1, MountStep, Quiet DEF Open
<1>2. CASE Reload(t, c)
  <2>1. page[t].route \in {"cart", "review", "elsewhere"}
    BY DEF Pages, Page
  <2> QED BY <1>2, <2>1, OrphanedOK, MountStep, Quiet DEF Reload
<1>3. CASE Arrive(t, c)
  <2>1. PageOK(Blank("elsewhere", None))
    BY BlankOK
  <2> QED BY <1>3, <2>1, MountStep, Quiet DEF Arrive, Pages, PageOK
<1>4. CASE Click(t, c)
  <2>1. PICK k \in KeysOf(t) :
          call' = [call EXCEPT ![c] = Sent(t, page[t].key,
                     [kind |-> "place", key |-> k, screen |-> page[t].view, ticked |-> page[t].accepted])]
    BY <1>4 DEF Click
  <2> DEFINE op == [kind |-> "place", key |-> k, screen |-> page[t].view, ticked |-> page[t].accepted]
  <2>2. PageOK(page[t])
    BY DEF Pages
  <2>3. /\ k = page[t].key /\ page[t].view # None
        /\ CanPlace(page[t].view, page[t].accepted)
    BY <1>4 DEF Click, KeysOf, Reviewing
  <2>4. op \in Op /\ Clicked(page[t].key, op)
    <3>1. Shown(page[t].view) /\ page[t].view \in CartView /\ k \in Key \cup {None} /\ page[t].accepted \in BOOLEAN
      BY <2>2, <2>3 DEF PageOK, Page
    <3>2. InCart(page[t].view) # {} /\ (PriceChanges(page[t].view) = {} \/ page[t].accepted)
      BY <2>3 DEF CanPlace
    <3>3. k \in Key
      BY <1>4, <2>2, <2>3 DEF Click, Reviewing, PageOK
    <3> QED BY <2>3, <3>1, <3>2, <3>3 DEF Op, Clicked
  <2>5. CallOK(Sent(t, page[t].key, op))
    BY <2>2, <2>4, SentOK DEF PageOK, Page
  <2>6. call' \in Calls
    BY <2>1, <2>5 DEF Calls, CallOK
  <2>7. page' \in Pages
    BY <1>4, <2>2, PageFields DEF Click, Pages, PageOK
  <2> QED BY <1>4, <2>6, <2>7, Quiet DEF Click
<1>5. CASE \E op \in Edits : Edit(t, c, op)
  <2>1. PICK op \in Edits : Edit(t, c, op)
    BY <1>5
  <2>2. PageOK(page[t])
    BY DEF Pages
  <2>3. op \in Op /\ op.kind # "place"
    BY DEF Edits, Op
  <2>4. CallOK(Sent(t, page[t].key, op))
    BY <2>2, <2>3, SentOK DEF PageOK, Page
  <2>5. call' \in Calls
    BY <2>1, <2>4 DEF Edit, Calls, CallOK
  <2>6. PageOK([page[t] EXCEPT !.failed = FALSE, !.overlapped = @ \/ Busy(page[t].key)])
    <3>1. (page[t].overlapped \/ Busy(page[t].key)) \in BOOLEAN
      BY DEF Busy
    <3> QED BY <2>2, <3>1, PageFields
  <2>7. page' \in Pages
    BY <2>1, <2>6 DEF Edit, Pages, PageOK
  <2> QED BY <2>1, <2>5, <2>7, Quiet DEF Edit
<1> QED BY <1>1, <1>2, <1>3, <1>4, <1>5 DEF TabStep

LEMMA TickStep == ASSUME IInv, NEW t \in Tab, Tick(t) PROVE IInv'
<1>1. PageOK(page[t]) /\ (~page[t].accepted) \in BOOLEAN
  BY DEF IInv, Pages, PageOK, Page
<1>2. PageOK([page[t] EXCEPT !.accepted = ~@])
  BY <1>1, PageFields
<1>3. page' \in Pages /\ call' \in Calls
  BY <1>2 DEF IInv, Tick, Pages, PageOK
<1> QED BY <1>3, Quiet DEF Tick

LEMMA ElsewhereStep ==
  ASSUME IInv, NEW c \in Call, NEW op \in Edits, EditElsewhere(c, op) PROVE IInv'
<1>1. op \in Op /\ op.kind # "place"
  BY DEF Edits, Op
<1>2. CallOK(Sent(None, None, op))
  BY <1>1, SentOK
<1>3. page' \in Pages /\ call' \in Calls
  BY <1>2 DEF IInv, EditElsewhere, Calls, CallOK
<1> QED BY <1>3, Quiet DEF EditElsewhere

-----------------------------------------------------------------------------
(***************************************************************************)
(* The steps of a request.                                                 *)
(***************************************************************************)
LEMMA CallIsOK == ASSUME call \in Calls, NEW c \in Call, call[c] # None PROVE CallOK(call[c])
BY DEF Calls

\* One request ends, or is replaced by another.
LEMMA Replaced ==
  ASSUME call \in Calls, NEW c \in Call, NEW r, r = None \/ CallOK(r),
         call' = [call EXCEPT ![c] = r]
  PROVE  call' \in Calls
BY DEF Calls, CallOK

\* One page changes.
LEMMA Redrawn ==
  ASSUME page \in Pages, NEW t \in Tab, NEW g, PageOK(g), page' = [page EXCEPT ![t] = g]
  PROVE  page' \in Pages
BY DEF Pages, PageOK

LEMMA PriceLineStep == ASSUME IInv, NEW c \in Call, PriceLine(c) PROVE IInv'
<1> DEFINE r == call[c]
           x == price[r.op.product]
<1>1. CallOK(r) /\ r.op.kind = "set" /\ r.op \in Op
  BY CallIsOK DEF IInv, PriceLine, Asked, CallOK, Request
<1>2. x \in Price
  BY <1>1 DEF IInv, Tables, Prices, Op
<1>3. [r.op EXCEPT !.price = x] \in Op
  BY <1>1, <1>2 DEF Op
<1>4. CallOK([r EXCEPT !.op.price = x])
  BY <1>1, <1>3 DEF CallOK, Request, Op
<1>5. call' \in Calls
  BY <1>4, Replaced DEF IInv, PriceLine
<1> QED BY <1>5, Quiet DEF PriceLine, IInv

\* The cart as the API reads it shows a price beside every line.
LEMMA CartNowOK == ASSUME Tables PROVE CartNow \in CartView /\ Shown(CartNow)
<1>1. cart[Me] \in Quantities
  BY OneBuyer DEF Tables
<1> QED BY <1>1 DEF Tables, CartNow, CartView, Shown, Prices

LEMMA ReadCartStep == ASSUME IInv, NEW c \in Call, ReadCart(c) PROVE IInv'
<1>1. CallOK(call[c])
  BY CallIsOK DEF IInv, ReadCart, Asked
<1>2. CartNow \in CartView /\ Shown(CartNow)
  BY CartNowOK DEF IInv
<1>3. CallOK([call[c] EXCEPT !.answer = "CART", !.cart = CartNow])
  BY <1>1, <1>2 DEF CallOK, Request, Answers
<1>4. call' \in Calls
  BY <1>3, Replaced DEF IInv, ReadCart
<1> QED BY <1>4, Quiet DEF ReadCart, IInv

LEMMA RefuseStep == ASSUME IInv, NEW c \in Call, RefuseOrReplay(c) PROVE IInv'
<1>1. PICK a \in Refusals(call[c].op) : call' = [call EXCEPT ![c].answer = a]
  BY DEF RefuseOrReplay
<1>2. a \in Answers
  BY DEF Refusals, Answers
<1>3. CallOK(call[c])
  BY CallIsOK DEF IInv, RefuseOrReplay, Asked
<1>4. CallOK([call[c] EXCEPT !.answer = a])
  BY <1>2, <1>3, CallFields
<1>5. call' \in Calls
  BY <1>1, <1>4, Replaced DEF IInv
<1> QED BY <1>5, Quiet DEF RefuseOrReplay, IInv

\* A write to the cart marks requests and pages old, and their fields stay.
LEMMA OutdatedOK == ASSUME page \in Pages, call \in Calls, NEW c \in Call, call[c] # None, Outdated(c)
                    PROVE  page' \in Pages /\ call' \in Calls
<1>1. ASSUME NEW d \in Call, call[d] # None
      PROVE  CallOK([call[d] EXCEPT !.wrote = TRUE]) /\ CallOK([call[d] EXCEPT !.old = TRUE])
  BY <1>1, CallIsOK, CallFields
<1>2. ASSUME NEW t \in Tab PROVE PageOK([page[t] EXCEPT !.old = TRUE])
  BY PageFields DEF Pages
<1>3. call' \in Calls
  BY <1>1 DEF Outdated, Calls, CallOK
<1>4. page' \in Pages
  BY <1>2 DEF Outdated, Pages, PageOK
<1> QED BY <1>3, <1>4

LEMMA LineStep ==
  ASSUME IInv, NEW p \in Product, NEW q \in 0..MaxQty, NEW x \in Price \cup {None},
         Api!EditCart(Me, p, q), added' = [added EXCEPT ![p] = x], UNCHANGED <<price, made>>
  PROVE  Tables' /\ Made'
<1>1. cart' \in [Buyer -> Quantities]
  BY OneBuyer DEF IInv, Tables, Api!EditCart, Quantities
<1>2. added' \in [Product -> Price \cup {None}]
  BY DEF IInv, Tables
<1> QED BY <1>1, <1>2 DEF IInv, Tables, Made, Spent, Api!EditCart

LEMMA SetLineStep == ASSUME IInv, NEW c \in Call, SetLine(c) PROVE IInv'
<1> DEFINE op == call[c].op
           x == IF added[op.product] = None THEN op.price ELSE added[op.product]
<1>1. op \in Op /\ op.kind = "set" /\ op.price # None
  BY CallIsOK DEF IInv, SetLine, Asked, CallOK, Request
<1>2. op.product \in Product /\ op.qty \in 0..MaxQty /\ op.price \in Price
  BY <1>1, QtyIsNat DEF Op
<1>3. x \in Price \cup {None} /\ added' = [added EXCEPT ![op.product] = x]
  BY <1>2 DEF IInv, Tables, SetLine
<1>4. Api!EditCart(Me, op.product, op.qty) /\ UNCHANGED <<price, made>>
  BY DEF SetLine
<1>5. Tables' /\ Made'
  BY <1>2, <1>3, <1>4, LineStep
<1>6. page' \in Pages /\ call' \in Calls
  BY OutdatedOK DEF IInv, SetLine, Asked
<1> QED BY <1>5, <1>6 DEF IInv

LEMMA RemoveLineStep == ASSUME IInv, NEW c \in Call, RemoveLine(c) PROVE IInv'
<1>1. call[c].op.product \in Product
  BY CallIsOK DEF IInv, RemoveLine, Asked, CallOK, Request, Op
<1>2. Tables' /\ Made'
  <2>1. 0 \in 0..MaxQty /\ None \in Price \cup {None}
    BY QtyIsNat
  <2>2. /\ Api!EditCart(Me, call[c].op.product, 0)
        /\ added' = [added EXCEPT ![call[c].op.product] = None]
        /\ UNCHANGED <<price, made>>
    BY DEF RemoveLine
  <2> QED BY <1>1, <2>1, <2>2, LineStep
<1>3. page' \in Pages /\ call' \in Calls
  BY OutdatedOK DEF IInv, RemoveLine, Asked
<1> QED BY <1>2, <1>3 DEF IInv

\* What a placement request asks for is a body.
LEMMA BodyOK == ASSUME NEW k, NEW op \in Op, op.kind = "place", Clicked(k, op)
                PROVE  Body(op) \in Basket
<1>1. op.screen \in CartView /\ Shown(op.screen)
  BY DEF Op, Clicked
<1>2. op.screen.qty \in Quantities /\ op.screen.qty # NoLines
  BY <1>1 DEF Clicked, InCart, CartView, NoLines
<1>3. PICK q \in Product : op.screen.qty[q] > 0 /\ op.screen.price[q] \in Price
  BY <1>1 DEF Clicked, InCart, Shown
<1>4. (CHOOSE x \in Price : TRUE) \in Price
  BY <1>3
<1>5. Body(op).price \in [Product -> Price]
  BY <1>1, <1>4 DEF Body, Shown
<1>6. Body(op) \in [qty: Quantities \ {NoLines}, price: [Product -> Price]]
  BY <1>2, <1>5 DEF Body
<1> QED BY <1>6, AnyBasket

LEMMA OrdersForOK ==
  ASSUME NEW id \in CheckoutId, NEW body \in Basket
  PROVE  OrdersFor(id, Me, body) \subseteq Order
<1>1. body.qty \in Quantities
  BY BasketsAreBodies
<1>2. \A s : [p \in Product |-> IF SellerOf[p] = s THEN body.qty[p] ELSE 0] \in Quantities
  BY <1>1, QtyIsNat DEF Quantities
<1>3. Me \in Buyer /\ "PENDING_PAYMENT" \in OrderStatus
  BY OneBuyer DEF OrderStatus
<1>4. ASSUME NEW s \in Seller
      PROVE  [checkout |-> id, seller |-> s, buyer |-> Me, status |-> "PENDING_PAYMENT",
              items |-> [p \in Product |-> IF SellerOf[p] = s THEN body.qty[p] ELSE 0]] \in Order
  BY <1>2, <1>3 DEF Order
<1>5. {SellerOf[p] : p \in Lines(body)} \subseteq Seller
  BY ProductFacts DEF Lines
<1> QED BY <1>4, <1>5 DEF OrdersFor

\* The request a placement carries out, and what its page had shown.
LEMMA PlacedOp ==
  ASSUME IInv, NEW c \in Call, Asked(c, "place")
  PROVE  /\ CallOK(call[c]) /\ call[c].op \in Op
         /\ Clicked(call[c].page, call[c].op)
         /\ call[c].op.key \in Key /\ call[c].page = call[c].op.key
         /\ call[c].op.screen \in CartView
         /\ Body(call[c].op) \in Basket
<1>1. CallOK(call[c]) /\ call[c].op \in Op /\ Clicked(call[c].page, call[c].op)
  BY CallIsOK DEF IInv, Asked, CallOK, Request
<1>2. call[c].op.key \in Key /\ call[c].op.screen \in CartView
  BY <1>1 DEF Asked, Op
<1>3. Body(call[c].op) \in Basket
  BY <1>1, BodyOK DEF Asked
<1> QED BY <1>1, <1>2, <1>3 DEF Clicked

LEMMA PlaceStep == ASSUME IInv, NEW c \in Call, NEW id \in CheckoutId, Place(c, id) PROVE IInv'
<1> DEFINE op == call[c].op
           k == call[c].op.key
<1>1. /\ CallOK(call[c]) /\ k \in Key /\ call[c].page = k /\ Body(op) \in Basket
      /\ op.screen \in CartView
  BY PlacedOp DEF Place
<1>2. Api!Place(Me, k, Body(op), id) /\ made' = [made EXCEPT ![id] = k]
  BY <1>1 DEF Place
<1>3. Tables'
  <2>1. available' \in [Product -> Nat]
    BY <1>1, <1>2, BasketsAreBodies, QtyIsNat DEF IInv, Tables, Api!Place, Quantities
  <2>2. cart' \in [Buyer -> Quantities]
    <3>1. NoLines \in Quantities /\ Me \in Buyer
      BY QtyIsNat, OneBuyer DEF NoLines, Quantities
    <3>2. cart' = [cart EXCEPT ![Me] = NoLines]
      BY <1>2 DEF Api!Place, NoLines, Api!NoLines
    <3> QED BY <3>1, <3>2 DEF IInv, Tables
  <2>3. keys' \in [Buyer \X Key -> [basket: Basket, id: CheckoutId] \cup {None}]
    BY <1>1, <1>2 DEF IInv, Tables, Api!Place
  <2>4. status' \in [CheckoutId -> {"ABSENT", "PENDING_PAYMENT"}]
    BY <1>2 DEF IInv, Tables, Api!Place
  <2>5. orders' \subseteq Order
    <3>1. orders' = orders \cup OrdersFor(id, Me, Body(op))
      BY <1>2 DEF Api!Place, OrdersFor, Lines, Api!OrdersFor, Api!Lines
    <3> QED BY <1>1, <3>1, OrdersForOK DEF IInv, Tables
  <2>6. price' \in Prices /\ added' \in [Product -> Price \cup {None}]
    BY DEF IInv, Tables, Place
  <2>7. made' \in [CheckoutId -> Key \cup {None}]
    BY <1>1, <1>2 DEF IInv, Tables
  <2> QED BY <2>1, <2>2, <2>3, <2>4, <2>5, <2>6, <2>7 DEF Tables
<1>4. Made'
  <2>1. Spent(k) = None /\ keys' = [keys EXCEPT ![<<Me, k>>] = [basket |-> Body(op), id |-> id]]
    BY <1>2 DEF Api!Place, Spent
  <2>2. <<Me, k>> \in Buyer \X Key
    BY <1>1, OneBuyer
  <2> DEFINE row == [basket |-> Body(op), id |-> id]
  <2>3. keys'[<<Me, k>>] = row /\ row # None /\ row.id = id
    <3>1. row \in [basket: Basket, id: CheckoutId]
      BY <1>1
    <3>2. keys'[<<Me, k>>] = row
      BY <2>1, <2>2 DEF IInv, Tables
    <3> QED BY <3>1, <3>2, NoneIsNothing
  <2>4. ASSUME NEW i \in CheckoutId, made'[i] # None
        PROVE  keys'[<<Me, made'[i]>>] # None /\ keys'[<<Me, made'[i]>>].id = i
    <3>1. CASE i = id
      <4>1. made'[id] = k
        BY <1>2 DEF IInv, Tables
      <4> QED BY <2>3, <3>1, <4>1
    <3>2. CASE i # id
      <4>1. made'[i] = made[i] /\ made[i] \in Key
        BY <1>2, <2>4, <3>2 DEF IInv, Tables
      <4>2. Spent(made[i]) # None /\ Spent(made[i]).id = i
        BY <2>4, <4>1 DEF IInv, Made
      <4>3. keys'[<<Me, made[i]>>] = keys[<<Me, made[i]>>]
        BY <2>1, <4>1, <4>2, OneBuyer DEF IInv, Tables, Spent
      <4> QED BY <4>1, <4>2, <4>3 DEF Spent
    <3> QED BY <3>1, <3>2
  <2> QED BY <2>4 DEF Made, Spent
<1>5. page' \in Pages
  BY DEF IInv, Place
<1>6. call' \in Calls
  <2>1. CallOK([call[c] EXCEPT !.answer = "PLACED"])
    BY <1>1, CallFields DEF Answers
  <2> QED BY <2>1, Replaced DEF IInv, Place
<1> QED BY <1>3, <1>4, <1>5, <1>6 DEF IInv

-----------------------------------------------------------------------------
(***************************************************************************)
(* The steps of an answer.                                                 *)
(***************************************************************************)
LEMMA TabOf == ASSUME call \in Calls, NEW c \in Call, call[c] # None, call[c].tab # None
               PROVE  call[c].tab \in Tab /\ call[c].page \in Key \cup {None}
BY CallIsOK DEF CallOK, Request

LEMMA GetCartStep == ASSUME IInv, NEW c \in Call, GetCart(c) PROVE IInv'
<1>1. CallOK(call[c])
  BY CallIsOK DEF IInv, GetCart
<1>2. call' \in Calls
  BY Replaced DEF IInv, GetCart
<1>3. page' \in Pages
  <2>1. CASE Mounted(c)
    <3> DEFINE t == call[c].tab
               g == [page[t] EXCEPT !.view = call[c].cart, !.old = call[c].old]
    <3>1. t \in Tab /\ PageOK(page[t])
      BY <2>1, TabOf DEF Mounted, IInv, GetCart, Pages
    <3>2. PageOK(g)
      BY <1>1, <3>1 DEF CallOK, Request, PageOK, Page
    <3>3. page' = [page EXCEPT ![t] = g]
      BY <2>1, <3>1 DEF GetCart, Show
    <3> QED BY <3>1, <3>2, <3>3, Redrawn DEF IInv
  <2>2. CASE ~Mounted(c)
    BY <2>2 DEF IInv, GetCart, Show
  <2> QED BY <2>1, <2>2
<1> QED BY <1>2, <1>3, Quiet DEF GetCart

\* router.push, and the button back when the page is still there.
LEMMA PushedOK ==
  ASSUME page \in Pages, call \in Calls, NEW c \in Call, call[c] # None, call[c].tab # None,
         NEW to \in {"placed", "cart"}, page' = Pushed(c, to)
  PROVE  page' \in Pages
<1> DEFINE t == call[c].tab
           b == IF Mounted(c) THEN FALSE ELSE page[t].placing
           g == [page[t] EXCEPT !.going = to, !.placing = b]
<1>1. t \in Tab /\ PageOK(page[t])
  BY TabOf DEF Pages
<1>2. b \in BOOLEAN
  BY <1>1 DEF PageOK, Page
<1>3. PageOK(g)
  BY <1>1, <1>2, PageFields
<1>4. page' = [page EXCEPT ![t] = g]
  BY <1>1 DEF Pushed
<1> QED BY <1>1, <1>3, <1>4, Redrawn

LEMMA GetVerdictStep == ASSUME IInv, NEW c \in Call, GetVerdict(c) PROVE IInv'
<1> DEFINE r == call[c]
<1>1. /\ r # None /\ r.tab # None /\ r.tab \in Tab /\ r.page \in Key \cup {None}
      /\ PageOK(page[r.tab])
  BY TabOf DEF IInv, GetVerdict, Pages
<1>2. CASE /\ \E to \in {"placed", "cart"} : page' = Pushed(c, to)
           /\ call' = [call EXCEPT ![c] = None]
  BY <1>1, <1>2, PushedOK, Replaced, Quiet DEF IInv, GetVerdict
<1>3. CASE /\ page' = [page EXCEPT ![r.tab].placing = FALSE]
           /\ call' = [call EXCEPT ![c] = Sent(r.tab, r.page, [kind |-> "load"])]
  <2>1. PageOK([page[r.tab] EXCEPT !.placing = FALSE])
    BY <1>1, PageFields
  <2>2. page' \in Pages
    BY <1>1, <1>3, <2>1, Redrawn DEF IInv
  <2>3. CallOK(Sent(r.tab, r.page, [kind |-> "load"]))
    BY <1>1, LoadOK
  <2>4. call' \in Calls
    BY <1>3, <2>3, Replaced DEF IInv
  <2> QED BY <2>2, <2>4, Quiet DEF GetVerdict
<1>4. CASE call' = [call EXCEPT ![c] = None] /\ UNCHANGED page
  BY <1>4, Replaced, Quiet DEF IInv, GetVerdict
<1> QED BY <1>2, <1>3, <1>4 DEF GetVerdict

LEMMA BreakStep == ASSUME IInv, NEW c \in Call, Break(c) PROVE IInv'
<1> DEFINE r == call[c]
<1>1. /\ r # None /\ r.tab # None /\ r.tab \in Tab
      /\ PageOK(page[r.tab]) /\ CallOK(r)
  BY TabOf, CallIsOK DEF IInv, Break, Pages
<1>2. call' \in Calls
  <2>1. CallOK([r EXCEPT !.tab = None])
    BY <1>1, CallFields
  <2> QED BY <2>1, Replaced DEF IInv, Break
<1>3. page' \in Pages
  <2>1. CASE Mounted(c)
    <3> DEFINE b == IF r.op.kind = "place" THEN FALSE ELSE page[r.tab].placing
               g == [page[r.tab] EXCEPT !.failed = TRUE, !.placing = b]
    <3>1. b \in BOOLEAN
      BY <1>1 DEF PageOK, Page
    <3>2. PageOK(g)
      BY <1>1, <3>1, PageFields
    <3>3. page' = [page EXCEPT ![r.tab] = g]
      BY <2>1, <1>1 DEF Break
    <3> QED BY <1>1, <3>2, <3>3, Redrawn DEF IInv
  <2>2. CASE ~Mounted(c)
    BY <2>2 DEF IInv, Break
  <2> QED BY <2>1, <2>2
<1> QED BY <1>2, <1>3, Quiet DEF Break

LEMMA VanishStep == ASSUME IInv, NEW c \in Call, Vanish(c) PROVE IInv'
BY Replaced, Quiet DEF IInv, Vanish

-----------------------------------------------------------------------------
(***************************************************************************)
(* The invariant.                                                          *)
(***************************************************************************)
LEMMA SellerSteps ==
  ASSUME IInv,
         \/ \E p \in Product, x \in Price : SetPrice(p, x)
         \/ \E p \in Product, n \in Stock : SetAvailable(p, n)
  PROVE  IInv'
<1>1. ASSUME NEW p \in Product, NEW x \in Price, SetPrice(p, x) PROVE IInv'
  BY <1>1 DEF IInv, Tables, Made, Spent, Prices, SetPrice, tables
<1>2. ASSUME NEW p \in Product, NEW n \in Stock, SetAvailable(p, n) PROVE IInv'
  BY <1>2, StockIsNat DEF IInv, Tables, Made, Spent, SetAvailable, Api!SetAvailable
<1> QED BY <1>1, <1>2

LEMMA InitOK == Init => IInv
<1> SUFFICES ASSUME Init PROVE IInv
  OBVIOUS
<1>1. Tables
  <2>1. cart \in [Buyer -> Quantities]
    BY QtyIsNat DEF Init, Api!Init, Api!NoLines, Quantities
  <2>2. keys \in [Buyer \X Key -> [basket: Basket, id: CheckoutId] \cup {None}]
    BY DEF Init, Api!Init
  <2> QED BY <2>1, <2>2, StockIsNat DEF Init, Api!Init, Tables
<1>2. page \in Pages
  <2>1. PageOK(Blank("elsewhere", None))
    BY BlankOK
  <2> QED BY <2>1 DEF Init, Pages, PageOK
<1>3. call \in Calls /\ Made
  BY DEF Init, Calls, Made
<1> QED BY <1>1, <1>2, <1>3 DEF IInv

LEMMA CallSteps == ASSUME IInv, NEW c \in Call, CallStep(c) PROVE IInv'
BY PriceLineStep, SetLineStep, RemoveLineStep, ReadCartStep, RefuseStep, PlaceStep,
   GetCartStep, GetVerdictStep, BreakStep, VanishStep DEF CallStep

LEMMA Stutter == ASSUME IInv, UNCHANGED vars PROVE IInv'
BY DEF IInv, Tables, Made, Spent, vars, tables

LEMMA NextOK == IInv /\ [Next]_vars => IInv'
BY TabSteps, TickStep, CallSteps, ElsewhereStep, SellerSteps, Stutter DEF Next

LEMMA Invariance == Spec => []IInv
<1> QED BY InitOK, NextOK, PTL DEF Spec

\* Rows, pages and requests keep their shapes: a page shows a cart as the API
\* answers it, and a body lists what its page showed.
THEOREM Typing == Spec => []TypeOK
<1>1. IInv => TypeOK
  <2> SUFFICES ASSUME IInv PROVE TypeOK
    OBVIOUS
  <2>1. [basket: Basket, id: CheckoutId]
          \subseteq [basket: [qty: Quantities, price: Prices], id: CheckoutId]
    BY BasketsAreBodies DEF Prices
  <2>2. page \in [Tab -> Page] /\ call \in [Call -> Request \cup {None}]
    BY DEF IInv, Pages, Calls
  <2> QED BY <2>1, <2>2 DEF IInv, Tables, TypeOK
<1> QED BY <1>1, Invariance, PTL

\* OneAttemptOneCheckout, D100's promise: a mount of the review step mints one key
\* and the API takes a key once, so its clicks make at most one checkout.
THEOREM OneMountOneCheckout == Spec => []OneAttemptOneCheckout
<1>1. IInv => OneAttemptOneCheckout
  BY DEF IInv, Made, OneAttemptOneCheckout
<1> QED BY <1>1, Invariance, PTL

\* Only a placement spends a key.
LEMMA KeysStay ==
  ASSUME [Next]_vars
  PROVE  keys' = keys \/ \E c \in Call, id \in CheckoutId : Place(c, id)
<1>1. ASSUME NEW t \in Tab, NEW c \in Call, TabStep(t, c) PROVE keys' = keys
  BY <1>1 DEF TabStep, Open, Reload, Arrive, Click, Edit, Unmoved, tables
<1>2. ASSUME NEW t \in Tab, Tick(t) PROVE keys' = keys
  BY <1>2 DEF Tick, Unmoved, tables
<1>3. ASSUME NEW c \in Call, CallStep(c), ~\E id \in CheckoutId : Place(c, id) PROVE keys' = keys
  BY <1>3 DEF CallStep, PriceLine, SetLine, RemoveLine, ReadCart, RefuseOrReplay, GetCart,
              GetVerdict, Break, Vanish, Api!EditCart, Unmoved, tables
<1>4. ASSUME NEW c \in Call, NEW op \in Edits, EditElsewhere(c, op) PROVE keys' = keys
  BY <1>4 DEF EditElsewhere, Unmoved, tables
<1>5. ASSUME \/ \E p \in Product, x \in Price : SetPrice(p, x)
             \/ \E p \in Product, n \in Stock : SetAvailable(p, n)
      PROVE  keys' = keys
  BY <1>5 DEF SetPrice, SetAvailable, Api!SetAvailable, tables
<1>6. CASE UNCHANGED vars
  BY <1>6 DEF vars, tables
<1> QED BY <1>1, <1>2, <1>3, <1>4, <1>5, <1>6 DEF Next

\* PaidAsShown, D60 and D77: the API compares the prices of the body with its own,
\* the body holds those of the page, and the button asks for the tick.
THEOREM ChargedAsShown == Spec => PaidAsShown
<1> DEFINE Kept(k) ==
      Spent(k) = None /\ Spent(k)' # None =>
       \E c \in Underway :
         LET op == call[c].op IN
         /\ op.kind = "place" /\ op.key = k
         /\ \A p \in InCart(op.screen) :
              /\ price[p] = op.screen.price[p]
              /\ op.screen.price[p] = op.screen.added[p] \/ op.ticked
<1>1. ASSUME IInv, [Next]_vars, NEW k \in Key PROVE Kept(k)
  <2> SUFFICES ASSUME keys[<<Me, k>>] = None, keys'[<<Me, k>>] # None PROVE Kept(k)!2
    BY DEF Spent
  <2>1. PICK c \in Call, id \in CheckoutId : Place(c, id)
    BY <1>1, KeysStay
  <2> DEFINE op == call[c].op
  <2>2. c \in Underway /\ op.kind = "place" /\ Clicked(call[c].page, op)
    BY <1>1, <2>1, PlacedOp DEF Place, Asked, Underway
  <2>3. op.key = k
    BY <1>1, <2>1, PlacedOp, OneBuyer DEF Place, Api!Place, IInv, Tables
  <2>4. ASSUME NEW p \in InCart(op.screen)
        PROVE  /\ price[p] = op.screen.price[p]
               /\ op.screen.price[p] = op.screen.added[p] \/ op.ticked
    <3>1. price[p] = op.screen.price[p]
      BY <2>1 DEF Place, LinesStand
    <3>2. PriceChanges(op.screen) = {} \/ op.ticked
      BY <2>2 DEF Clicked
    <3> QED BY <3>1, <3>2 DEF PriceChanges
  <2> QED BY <2>2, <2>3, <2>4
<1>2. IInv /\ [Next]_vars => [\A k \in Key : Kept(k)]_vars
  BY <1>1
<1> QED BY <1>2, Invariance, PTL DEF Spec, PaidAsShown

-----------------------------------------------------------------------------
(***************************************************************************)
(* What a page shows and the requests it has under way.  A page that makes *)
(* its edits one at a time talks to the API one request at a time.         *)
(***************************************************************************)
OnScreen(t) == page[t].route # "elsewhere"

\* The page tab t shows sent c.
From(c, t) == call[c] # None /\ OnScreen(t) /\ call[c].page = page[t].key

KeysApart == \A t, u \in Tab : OnScreen(t) /\ OnScreen(u) /\ page[t].key = page[u].key => t = u

Sender(c) ==
  /\ call[c] # None /\ call[c].answer \in {"PLACED", "LINES", "CONFLICT"} => call[c].op.kind = "place"
  /\ \A t \in Tab : From(c, t) => /\ call[c].tab \in {t, None}
                                  /\ call[c].op.kind = "place" => page[t].route = "review"

OneByOne(t) == page[t].route = "cart" /\ ~page[t].overlapped

\* A cart page that makes its edits one at a time has one request under way, whose
\* answer is as new as any; and what it shows is old only until that one answers.
Alone(t) == OneByOne(t) =>
  /\ \A c \in Call : From(c, t) => ~call[c].old /\ (call[c].tab = None => page[t].failed)
  /\ \A c, d \in Call : From(c, t) /\ From(d, t) => c = d
  /\ page[t].view # None /\ ~page[t].failed /\ page[t].old => \E c \in Call : From(c, t)

Conversations == KeysApart /\ (\A c \in Call : Sender(c)) /\ \A t \in Tab : Alone(t)

SamePage(t) == /\ page'[t].route = page[t].route /\ page'[t].key = page[t].key
               /\ page'[t].overlapped = page[t].overlapped

\* Neither a page nor a request becomes another's.
LEMMA FramedStep ==
  ASSUME Conversations,
         \A t \in Tab : /\ SamePage(t) /\ page'[t].failed = page[t].failed
                        /\ page'[t].view = page[t].view /\ page'[t].old = page[t].old,
         \A c \in Call : call'[c] = None <=> call[c] = None,
         \A c \in Call : call[c] # None =>
           /\ call'[c].page = call[c].page /\ call'[c].tab = call[c].tab /\ call'[c].old = call[c].old
           /\ call'[c].op.kind = call[c].op.kind
           /\ call'[c].answer \in {"PLACED", "LINES", "CONFLICT"} => call[c].op.kind = "place"
  PROVE  Conversations'
<1> USE DEF Conversations, SamePage, OnScreen, From
<1>1. KeysApart'
  BY DEF KeysApart
<1>2. \A c \in Call : Sender(c)'
  BY DEF Sender
<1>3. \A t \in Tab : Alone(t)'
  BY DEF Alone, OneByOne
<1> QED BY <1>1, <1>2, <1>3

\* A request ends, and the page that sent it fails or shows what it answered.
LEMMA EndStep ==
  ASSUME Conversations, call \in Calls, NEW c \in Call, call' = [call EXCEPT ![c] = None],
         \A t \in Tab : /\ SamePage(t) /\ page'[t].failed = page[t].failed
                        /\ \/ page'[t].view = page[t].view /\ page'[t].old = page[t].old
                           \/ page'[t].old = FALSE \/ ~OneByOne(t)
                        /\ From(c, t) /\ OneByOne(t) => page[t].failed \/ ~page'[t].old
  PROVE  Conversations'
<1> USE DEF Conversations, SamePage, OnScreen, From
<1>1. \A d \in Call : call'[d] = IF d = c THEN None ELSE call[d]
  BY DEF Calls
<1>2. KeysApart'
  BY DEF KeysApart
<1>3. \A d \in Call : Sender(d)'
  BY <1>1 DEF Sender
<1>4. \A t \in Tab : Alone(t)'
  <2> SUFFICES ASSUME NEW t \in Tab, OneByOne(t)' PROVE Alone(t)'
    BY DEF Alone
  <2>1. OneByOne(t) /\ Alone(t)
    BY DEF OneByOne
  <2> QED BY <1>1, <2>1 DEF Alone
<1> QED BY <1>2, <1>3, <1>4

\* The requests that outlive a page are no request of the next one.
LEMMA MountFresh ==
  ASSUME IInv, Conversations, NEW t \in Tab, NEW r \in {"cart", "review"}, NEW c \in Call, call[c] = None,
         NEW calls, calls = call \/ calls = Orphaned(t), Mount(t, r, c, calls)
  PROVE  Conversations'
<1> USE NoneIsNoPage DEF IInv, Conversations, OnScreen, From
<1>1. PICK k \in Key : /\ Unused(k)
                       /\ page' = [page EXCEPT ![t] = Blank(r, k)]
                       /\ call' = [calls EXCEPT ![c] = Sent(t, k, [kind |-> "load"])]
  BY DEF Mount
<1>2. \A u \in Tab : page'[u] = IF u = t THEN Blank(r, k) ELSE page[u]
  BY <1>1 DEF Pages
<1>3. /\ Blank(r, k).route = r /\ Blank(r, k).key = k /\ Blank(r, k).overlapped = FALSE
      /\ Blank(r, k).view = None
  BY DEF Blank
<1>4. /\ call'[c].tab = t /\ call'[c].page = k /\ call'[c].old = FALSE /\ call'[c].answer = None
      /\ call'[c].op.kind = "load"
  <2>1. call'[c] = Sent(t, k, [kind |-> "load"])
    BY <1>1 DEF Orphaned, Calls
  <2> QED BY <2>1 DEF Sent
<1>5. \A d \in Call : d # c =>
        /\ call'[d] # None => call[d] # None
        /\ call[d] # None =>
             /\ call'[d].page = call[d].page /\ call'[d].old = call[d].old
             /\ call'[d].op = call[d].op /\ call'[d].answer = call[d].answer
             /\ call'[d].tab = call[d].tab \/ (call[d].tab = t /\ call'[d].tab = None)
        /\ call'[d] = None => call[d] = None
  <2> SUFFICES ASSUME NEW d \in Call, d # c
               PROVE  /\ call'[d] # None <=> call[d] # None
                      /\ call[d] # None =>
                           /\ call'[d].page = call[d].page /\ call'[d].old = call[d].old
                           /\ call'[d].op = call[d].op /\ call'[d].answer = call[d].answer
                           /\ call'[d].tab = call[d].tab \/ (call[d].tab = t /\ call'[d].tab = None)
    OBVIOUS
  <2>1. CASE call'[d] = call[d]
    BY <2>1
  <2>2. CASE call[d] # None /\ call[d].tab = t /\ call'[d] = [call[d] EXCEPT !.tab = None]
    <3>1. call[d] \in Request /\ [call[d] EXCEPT !.tab = None] \in Request
      BY <2>2, CallIsOK, CallFields DEF CallOK
    <3> QED BY <2>2, <3>1 DEF Request
  <2> QED BY <1>1, <2>1, <2>2 DEF Orphaned, Calls
<1>6. \A d \in Call : call[d] # None => call[d].page # k
  BY <1>1 DEF Unused, Underway
<1>7. \A u \in Tab : page[u].key # k
  BY <1>1 DEF Unused
<1>8. KeysApart'
  BY <1>2, <1>3, <1>7 DEF KeysApart
<1>9. \A d \in Call : Sender(d)'
  <2>1. Sender(c)'
    BY <1>2, <1>3, <1>4, <1>7 DEF Sender
  <2>2. ASSUME NEW d \in Call, d # c PROVE Sender(d)'
    BY <1>2, <1>3, <1>5, <1>6, <2>2 DEF Sender
  <2> QED BY <2>1, <2>2
<1>10. \A u \in Tab : Alone(u)'
  <2>1. Alone(t)'
    BY <1>2, <1>3, <1>4, <1>5, <1>6 DEF Alone, OneByOne
  <2>2. ASSUME NEW u \in Tab, u # t, OneByOne(u)' PROVE Alone(u)'
    <3>1. OneByOne(u) /\ Alone(u) /\ page'[u] = page[u]
      BY <1>2, <2>2 DEF OneByOne
    <3>2. ASSUME NEW d \in Call, From(d, u)' PROVE d # c /\ From(d, u)
      BY <1>4, <1>5, <1>7, <3>1, <3>2
    <3>3. ASSUME NEW d \in Call, From(d, u) PROVE From(d, u)' /\ call'[d].tab = call[d].tab /\ call'[d].old = call[d].old
      <4>1. d # c
        BY <3>3
      <4>2. call[d].tab # t
        BY <2>2, <3>3 DEF Sender
      <4> QED BY <1>5, <3>1, <3>3, <4>1, <4>2
    <3> QED BY <3>1, <3>2, <3>3 DEF Alone, OneByOne
  <2> QED BY <2>1, <2>2 DEF Alone
<1> QED BY <1>8, <1>9, <1>10

\* A request is sent, by no page or from a page that is no cart page.
LEMMA SendStep ==
  ASSUME IInv, Conversations, NEW c \in Call, NEW r, CallOK(r), r.answer = None,
         call' = [call EXCEPT ![c] = r],
         \A t \in Tab : /\ SamePage(t) /\ page'[t].failed = page[t].failed
                        /\ page'[t].view = page[t].view /\ page'[t].old = page[t].old,
         \A t \in Tab : OnScreen(t) /\ page[t].key = r.page => r.tab = t /\ page[t].route = "review",
         \A t \in Tab : From(c, t) => page[t].route = "review"
  PROVE  Conversations'
<1> USE NoneIsNoPage DEF IInv, Conversations, OnScreen, From, SamePage
<1>1. \A d \in Call : call'[d] = IF d = c THEN r ELSE call[d]
  BY DEF Calls
<1>2. r # None /\ r.answer \notin {"PLACED", "LINES", "CONFLICT"}
  BY DEF CallOK
<1>3. KeysApart'
  BY DEF KeysApart
<1>4. \A d \in Call : Sender(d)'
  BY <1>1, <1>2 DEF Sender
<1>5. \A t \in Tab : Alone(t)'
  <2> SUFFICES ASSUME NEW t \in Tab, OneByOne(t)' PROVE Alone(t)'
    BY DEF Alone
  <2>1. OneByOne(t) /\ Alone(t) /\ page[t].route = "cart"
    BY DEF OneByOne
  <2>2. ~From(c, t) /\ ~From(c, t)'
    BY <1>1, <1>2, <2>1
  <2>3. \A d \in Call : d # c => call'[d] = call[d]
    BY <1>1
  <2> QED BY <2>1, <2>2, <2>3 DEF Alone
<1> QED BY <1>3, <1>4, <1>5

\* An edit is sent, and the failure of an earlier one forgotten.
LEMMA EditFresh ==
  ASSUME IInv, Conversations, NEW t \in Tab, NEW c \in Call, NEW op \in Edits, Edit(t, c, op)
  PROVE  Conversations'
<1> USE NoneIsNoPage DEF IInv, Conversations, OnScreen, From
<1> DEFINE k == page[t].key
<1>1. /\ page[t].route = "cart" /\ k \in Key /\ page[t] \in Page /\ call[c] = None
      /\ op \in Op /\ op.kind # "place"
  BY DEF Edit, Pages, PageOK, Edits, Op
<1>2. /\ \A u \in Tab : u # t => page'[u] = page[u]
      /\ page'[t].route = "cart" /\ page'[t].key = k /\ page'[t].failed = FALSE
      /\ page'[t].overlapped = (page[t].overlapped \/ Busy(k))
      /\ page'[t].view = page[t].view /\ page'[t].old = page[t].old
  BY <1>1 DEF Edit, Pages, Page
<1>3. \A d \in Call : call'[d] = IF d = c THEN Sent(t, k, op) ELSE call[d]
  BY <1>1 DEF Edit, Calls
<1>4. /\ Sent(t, k, op).page = k /\ Sent(t, k, op).tab = t /\ Sent(t, k, op).answer = None
      /\ Sent(t, k, op).op = op /\ Sent(t, k, op).old = FALSE /\ Sent(t, k, op) # None
  <2>1. CallOK(Sent(t, k, op))
    BY <1>1, SentOK
  <2> QED BY <2>1 DEF Sent, CallOK
<1>5. KeysApart'
  BY <1>1, <1>2 DEF KeysApart
<1>6. \A d \in Call : Sender(d)'
  BY <1>1, <1>2, <1>3, <1>4 DEF Sender, KeysApart
<1>7. \A u \in Tab : Alone(u)'
  <2>1. ASSUME OneByOne(t)' PROVE Alone(t)'
    <3>1. \A d \in Call : ~From(d, t)
      BY <1>2, <2>1 DEF OneByOne, Busy, Underway
    <3>2. \A d \in Call : From(d, t)' <=> d = c
      BY <1>1, <1>2, <1>3, <1>4, <3>1
    <3> QED BY <1>3, <1>4, <3>2 DEF Alone
  <2>2. ASSUME NEW u \in Tab, u # t, OneByOne(u)' PROVE Alone(u)'
    <3>1. OneByOne(u) /\ Alone(u) /\ page'[u] = page[u] /\ page[u].key # k
      BY <1>1, <1>2, <2>2 DEF OneByOne, KeysApart
    <3>2. \A d \in Call : From(d, u)' <=> d # c /\ From(d, u)
      BY <1>3, <1>4, <3>1
    <3> QED BY <1>1, <1>3, <3>1, <3>2 DEF Alone
  <2> QED BY <2>1, <2>2 DEF Alone
<1> QED BY <1>5, <1>6, <1>7

\* A write makes old what its page knows: the page's other answers, of which a page
\* that edits one at a time has none, and the page itself until this one's arrives.
LEMMA OutdatedFresh ==
  ASSUME IInv, Conversations, NEW c \in Call, call[c] # None, call[c].answer = None, Outdated(c)
  PROVE  Conversations'
<1> USE NoneIsNoPage DEF IInv, Conversations, OnScreen, From
<1>1. \A t \in Tab :
        /\ SamePage(t) /\ page'[t].failed = page[t].failed /\ page'[t].view = page[t].view
        /\ page'[t].old = page[t].old \/ (call[c].page = page[t].key /\ page[t].route = "cart")
  BY DEF Outdated, Pages, Page, SamePage
<1>2. ASSUME NEW d \in Call
      PROVE  /\ call'[d] # None <=> call[d] # None
             /\ call[d] # None =>
                  /\ call'[d].page = call[d].page /\ call'[d].tab = call[d].tab
                  /\ call'[d].op = call[d].op /\ call'[d].answer = call[d].answer
                  /\ \/ call'[d].old = call[d].old
                     \/ d # c /\ call[d].page = call[c].page
  <2>1. CASE call[d] = None
    BY <2>1 DEF Outdated
  <2>2. CASE call[d] # None
    <3>1. /\ call[d] \in Request /\ [call[d] EXCEPT !.wrote = TRUE] \in Request
          /\ [call[d] EXCEPT !.old = TRUE] \in Request
      BY <2>2, CallIsOK, CallFields DEF CallOK
    <3>2. \/ call'[d] = call[d]
          \/ call'[d] = [call[d] EXCEPT !.wrote = TRUE]
          \/ call'[d] = [call[d] EXCEPT !.old = TRUE] /\ d # c /\ call[d].page = call[c].page
      BY <2>2 DEF Outdated
    <3> QED BY <2>2, <3>1, <3>2 DEF Request
  <2> QED BY <2>1, <2>2
<1>3. KeysApart'
  BY <1>1 DEF KeysApart, SamePage
<1>4. \A d \in Call : Sender(d)'
  BY <1>1, <1>2 DEF Sender, SamePage
<1>5. \A t \in Tab : Alone(t)'
  <2> SUFFICES ASSUME NEW t \in Tab, OneByOne(t)' PROVE Alone(t)'
    BY DEF Alone
  <2>1. OneByOne(t) /\ Alone(t) /\ page[t].route = "cart"
    BY <1>1 DEF OneByOne, SamePage
  <2>2. \A d \in Call : From(d, t)' <=> From(d, t)
    BY <1>1, <1>2 DEF SamePage
  <2>3. \A d \in Call : From(d, t) => call'[d].old = call[d].old
    BY <1>2, <2>1 DEF Alone
  <2> QED BY <1>1, <1>2, <2>1, <2>2, <2>3 DEF Alone
<1> QED BY <1>3, <1>4, <1>5

\* A request fails for its page, which shows the failure.
LEMMA BreakFresh ==
  ASSUME IInv, Conversations, NEW c \in Call, Break(c)
  PROVE  Conversations'
<1> USE NoneIsNoPage DEF IInv, Conversations, OnScreen, From
<1>1. call[c] # None /\ call[c].tab \in Tab /\ call[c] \in Request
  BY TabOf, CallIsOK DEF Break, CallOK
<1>2. ASSUME NEW t \in Tab
      PROVE  /\ SamePage(t) /\ page'[t].view = page[t].view /\ page'[t].old = page[t].old
             /\ page'[t].failed = page[t].failed \/ page'[t].failed = TRUE
             /\ Mounted(c) /\ t = call[c].tab => page'[t].failed = TRUE
  <2>1. page[t] \in Page
    BY DEF Pages
  <2>2. CASE Mounted(c) /\ t = call[c].tab
    BY <1>1, <2>1, <2>2 DEF Break, Pages, Page, SamePage
  <2>3. CASE ~(Mounted(c) /\ t = call[c].tab)
    BY <1>1, <2>1, <2>3 DEF Break, Pages, SamePage
  <2> QED BY <2>2, <2>3
<1>3. /\ \A d \in Call : d # c => call'[d] = call[d]
      /\ call'[c] # None /\ call'[c].tab = None /\ call'[c].page = call[c].page
      /\ call'[c].old = call[c].old /\ call'[c].op = call[c].op /\ call'[c].answer = call[c].answer
  <2>1. [call[c] EXCEPT !.tab = None] \in Request
    BY <1>1, CallIsOK, CallFields DEF CallOK
  <2> QED BY <1>1, <2>1 DEF Break, Calls, Request
<1>4. KeysApart'
  BY <1>2 DEF KeysApart, SamePage
<1>5. ASSUME NEW d \in Call
      PROVE  /\ call'[d] # None <=> call[d] # None
             /\ call[d] # None =>
                  /\ call'[d].page = call[d].page /\ call'[d].old = call[d].old
                  /\ call'[d].op = call[d].op /\ call'[d].answer = call[d].answer
                  /\ call'[d].tab = call[d].tab \/ (d = c /\ call'[d].tab = None)
  <2>1. CASE d = c
    BY <1>1, <1>3, <2>1
  <2>2. CASE d # c
    BY <1>3, <2>2
  <2> QED BY <2>1, <2>2
<1>6. ASSUME NEW d \in Call PROVE Sender(d)'
  <2>1. call'[d] # None /\ call'[d].answer \in {"PLACED", "LINES", "CONFLICT"} => call'[d].op.kind = "place"
    BY <1>5 DEF Sender
  <2>2. ASSUME NEW t \in Tab, From(d, t)'
        PROVE  call'[d].tab \in {t, None} /\ (call'[d].op.kind = "place" => page'[t].route = "review")
    <3>1. From(d, t) /\ page'[t].route = page[t].route
      BY <1>2, <1>5, <2>2 DEF SamePage
    <3>2. call[d].tab \in {t, None} /\ (call[d].op.kind = "place" => page[t].route = "review")
      BY <3>1 DEF Sender
    <3> QED BY <1>5, <3>1, <3>2
  <2> QED BY <2>1, <2>2 DEF Sender
<1>7. \A t \in Tab : Alone(t)'
  <2> SUFFICES ASSUME NEW t \in Tab, OneByOne(t)' PROVE Alone(t)'
    BY DEF Alone
  <2>1. OneByOne(t) /\ Alone(t)
    BY <1>2 DEF OneByOne, SamePage
  <2>2. \A d \in Call : From(d, t)' <=> From(d, t)
    BY <1>2, <1>5 DEF SamePage
  <2>3. From(c, t) => page'[t].failed
    BY <1>1, <1>2, <2>1 DEF Sender, Mounted
  <2> QED BY <1>2, <1>5, <2>1, <2>2, <2>3 DEF Alone
<1> QED BY <1>4, <1>6, <1>7

-----------------------------------------------------------------------------
\* A request is served, or answered.
LEMMA ServedFresh ==
  ASSUME IInv, Conversations, UNCHANGED page,
         NEW c \in Call, call[c] # None, NEW r \in Request, call' = [call EXCEPT ![c] = r],
         r.page = call[c].page, r.tab = call[c].tab, r.old = call[c].old,
         r.op.kind = call[c].op.kind,
         r.answer \in {"PLACED", "LINES", "CONFLICT"} => call[c].op.kind = "place"
  PROVE  Conversations'
<1>1. r # None
  BY NoneIsNoPage
<1>2. \A d \in Call : call'[d] = IF d = c THEN r ELSE call[d]
  BY DEF IInv, Calls
<1>3. \A t \in Tab : /\ SamePage(t) /\ page'[t].failed = page[t].failed
                     /\ page'[t].view = page[t].view /\ page'[t].old = page[t].old
  BY DEF SamePage
<1>4. ASSUME NEW d \in Call
      PROVE  /\ call'[d] = None <=> call[d] = None
             /\ call[d] # None =>
                  /\ call'[d].page = call[d].page /\ call'[d].tab = call[d].tab
                  /\ call'[d].old = call[d].old /\ call'[d].op.kind = call[d].op.kind
                  /\ call'[d].answer \in {"PLACED", "LINES", "CONFLICT"} => call[d].op.kind = "place"
  <2>1. CASE d = c
    BY <1>1, <1>2, <2>1
  <2>2. CASE d # c
    BY <1>2, <2>2 DEF Conversations, Sender
  <2> QED BY <2>1, <2>2
<1> QED BY <1>3, <1>4, FramedStep

LEMMA PriceLineFresh ==
  ASSUME IInv, Conversations, NEW c \in Call, PriceLine(c) PROVE Conversations'
<1> DEFINE x == price[call[c].op.product]
           r == [call[c] EXCEPT !.op.price = x]
<1>1. call[c] # None /\ call[c] \in Request /\ call[c].op \in Op /\ call[c].op.kind = "set"
      /\ call[c].answer = None
  BY CallIsOK DEF IInv, PriceLine, Asked, CallOK, Request
<1>2. x \in Price
  BY <1>1 DEF IInv, Tables, Prices, Op
<1>3. [call[c].op EXCEPT !.price = x] \in Op /\ [call[c].op EXCEPT !.price = x].kind = "set"
  BY <1>1, <1>2 DEF Op
<1>4. /\ r \in Request /\ r.page = call[c].page /\ r.tab = call[c].tab /\ r.old = call[c].old
      /\ r.op.kind = "set" /\ r.answer = None
  BY <1>1, <1>3 DEF Request
<1>5. call' = [call EXCEPT ![c] = r] /\ UNCHANGED page
  BY DEF PriceLine
<1>6. r.answer \notin {"PLACED", "LINES", "CONFLICT"}
  BY <1>4, NoneIsNoPage
<1> HIDE DEF r
<1> QED BY <1>1, <1>4, <1>5, <1>6, ServedFresh

LEMMA ReadCartFresh ==
  ASSUME IInv, Conversations, NEW c \in Call, ReadCart(c) PROVE Conversations'
<1> DEFINE r == [call[c] EXCEPT !.answer = "CART", !.cart = CartNow]
<1>1. call[c] # None /\ call[c] \in Request
  BY CallIsOK DEF IInv, ReadCart, Asked, CallOK
<1>2. CartNow \in CartView
  BY CartNowOK DEF IInv
<1>3. /\ r \in Request /\ r.page = call[c].page /\ r.tab = call[c].tab /\ r.old = call[c].old
      /\ r.op = call[c].op /\ r.answer = "CART"
  BY <1>1, <1>2 DEF Request, Answers
<1>4. call' = [call EXCEPT ![c] = r] /\ UNCHANGED page
  BY DEF ReadCart
<1> HIDE DEF r
<1> QED BY <1>1, <1>3, <1>4, ServedFresh

\* A placement is answered, whether or not it wrote.
LEMMA VerdictFresh ==
  ASSUME IInv, Conversations, NEW c \in Call, Asked(c, "place"), NEW a \in Answers,
         call' = [call EXCEPT ![c].answer = a], UNCHANGED page
  PROVE  Conversations'
<1> DEFINE r == [call[c] EXCEPT !.answer = a]
<1>1. call[c] # None /\ call[c] \in Request /\ call[c].op.kind = "place"
  BY CallIsOK DEF IInv, Asked, CallOK
<1>2. /\ r \in Request /\ r.page = call[c].page /\ r.tab = call[c].tab /\ r.old = call[c].old
      /\ r.op = call[c].op
  BY <1>1 DEF Request
<1>3. call' = [call EXCEPT ![c] = r]
  OBVIOUS
<1> HIDE DEF r
<1> QED BY <1>1, <1>2, <1>3, ServedFresh

LEMMA PlacementFresh ==
  ASSUME IInv, Conversations, NEW c \in Call,
         RefuseOrReplay(c) \/ \E id \in CheckoutId : Place(c, id)
  PROVE  Conversations'
<1>1. CASE RefuseOrReplay(c)
  <2>1. PICK a \in Refusals(call[c].op) : call' = [call EXCEPT ![c].answer = a]
    BY <1>1 DEF RefuseOrReplay
  <2>2. a \in Answers
    BY DEF Refusals, Answers
  <2> QED BY <1>1, <2>1, <2>2, VerdictFresh DEF RefuseOrReplay
<1>2. CASE \E id \in CheckoutId : Place(c, id)
  <2>1. "PLACED" \in Answers
    BY DEF Answers
  <2> QED BY <1>2, <2>1, VerdictFresh DEF Place
<1> QED BY <1>1, <1>2

-----------------------------------------------------------------------------
\* A cart is shown as its answer has it: the page that edits one at a time
\* waited for this one, or had failed when it was orphaned.
LEMMA GetCartFresh ==
  ASSUME IInv, Conversations, NEW c \in Call, GetCart(c) PROVE Conversations'
<1>1. call[c] # None /\ call[c] \in Request /\ call' = [call EXCEPT ![c] = None]
  BY CallIsOK DEF IInv, GetCart, CallOK
<1>2. ASSUME NEW t \in Tab
      PROVE  /\ SamePage(t) /\ page'[t].failed = page[t].failed
             /\ IF Mounted(c) /\ t = call[c].tab
                  THEN page'[t].view = call[c].cart /\ page'[t].old = call[c].old
                  ELSE page'[t].view = page[t].view /\ page'[t].old = page[t].old
  <2>1. page[t] \in Page
    BY DEF IInv, Pages
  <2>2. CASE Mounted(c) /\ t = call[c].tab
    BY <2>1, <2>2 DEF IInv, GetCart, Show, Pages, Page, SamePage
  <2>3. CASE ~(Mounted(c) /\ t = call[c].tab)
    BY <1>1, <2>1, <2>3, TabOf DEF IInv, GetCart, Show, Pages, SamePage, Mounted
  <2> QED BY <2>2, <2>3
<1>3. ASSUME NEW t \in Tab
      PROVE  /\ \/ page'[t].view = page[t].view /\ page'[t].old = page[t].old
                \/ page'[t].old = FALSE \/ ~OneByOne(t)
             /\ From(c, t) /\ OneByOne(t) => page[t].failed \/ ~page'[t].old
  <2>1. CASE OneByOne(t) /\ From(c, t)
    <3>1. ~call[c].old /\ (call[c].tab = None => page[t].failed) /\ call[c].tab \in {t, None}
      BY <2>1 DEF Conversations, Alone, Sender
    <3>2. call[c].old = FALSE
      BY <1>1, <3>1 DEF Request
    <3> QED BY <1>1, <1>2, <2>1, <3>1, <3>2 DEF Mounted, From
  <2>2. CASE ~From(c, t) /\ OneByOne(t)
    BY <1>1, <1>2, <2>2 DEF Mounted, From, OneByOne, OnScreen
  <2>3. CASE ~OneByOne(t)
    BY <2>3
  <2> QED BY <2>1, <2>2, <2>3
<1> QED BY <1>1, <1>2, <1>3, EndStep DEF IInv

\* A request ends that no cart page of the kind waits for.
LEMMA DroppedFresh ==
  ASSUME IInv, Conversations, NEW c \in Call, call[c] # None,
         call' = [call EXCEPT ![c] = None],
         call[c].tab = None \/ call[c].op.kind = "place",
         \A t \in Tab : /\ SamePage(t) /\ page'[t].failed = page[t].failed
                        /\ page'[t].view = page[t].view /\ page'[t].old = page[t].old
  PROVE  Conversations'
<1>1. ASSUME NEW t \in Tab, From(c, t), OneByOne(t) PROVE page[t].failed
  <2>1. call[c].op.kind # "place"
    BY <1>1 DEF Conversations, Sender, OneByOne
  <2> QED BY <1>1, <2>1 DEF Conversations, Alone
<1> QED BY <1>1, EndStep DEF IInv

LEMMA GetVerdictFresh ==
  ASSUME IInv, Conversations, NEW c \in Call, GetVerdict(c) PROVE Conversations'
<1> DEFINE r == call[c]
<1>1. /\ r # None /\ r \in Request /\ r.tab \in Tab /\ r.page \in Key \cup {None}
      /\ r.answer \in {"PLACED", "LINES", "CONFLICT"} /\ r.op.kind = "place"
  BY TabOf, CallIsOK DEF IInv, GetVerdict, CallOK, Conversations, Sender
<1>2. ASSUME NEW to \in {"placed", "cart"}, page' = Pushed(c, to), call' = [call EXCEPT ![c] = None]
      PROVE  Conversations'
  <2>1. ASSUME NEW t \in Tab
        PROVE  /\ SamePage(t) /\ page'[t].failed = page[t].failed
               /\ page'[t].view = page[t].view /\ page'[t].old = page[t].old
    <3>1. page[t] \in Page
      BY DEF IInv, Pages
    <3> QED BY <1>1, <1>2, <3>1 DEF IInv, Pages, Page, Pushed, SamePage
  <2> QED BY <1>1, <1>2, <2>1, DroppedFresh
<1>3. CASE /\ Mounted(c)
           /\ page' = [page EXCEPT ![r.tab].placing = FALSE]
           /\ call' = [call EXCEPT ![c] = Sent(r.tab, r.page, [kind |-> "load"])]
  <2>1. ASSUME NEW t \in Tab
        PROVE  /\ SamePage(t) /\ page'[t].failed = page[t].failed
               /\ page'[t].view = page[t].view /\ page'[t].old = page[t].old
    <3>1. page[t] \in Page
      BY DEF IInv, Pages
    <3> QED BY <1>1, <1>3, <3>1 DEF IInv, Pages, Page, SamePage
  <2>2. \A t \in Tab : From(c, t) => page[t].route = "review"
    BY <1>1 DEF Conversations, Sender
  <2>3. ASSUME NEW t \in Tab, OnScreen(t), page[t].key = r.page
        PROVE  r.tab = t /\ page[t].route = "review"
    <3>1. From(c, t)
      BY <1>1, <2>3 DEF From
    <3> QED BY <1>1, <2>2, <3>1, NoneIsNoPage DEF Conversations, Sender
  <2> DEFINE s == Sent(r.tab, r.page, [kind |-> "load"])
  <2>4. CallOK(s) /\ s.answer = None /\ s.page = r.page /\ s.tab = r.tab
    BY <1>1, LoadOK DEF Sent
  <2>5. call' = [call EXCEPT ![c] = s]
    BY <1>3
  <2> HIDE DEF s
  <2> QED BY <2>1, <2>2, <2>3, <2>4, <2>5, SendStep
<1>4. CASE call' = [call EXCEPT ![c] = None] /\ UNCHANGED page
  BY <1>1, <1>4, DroppedFresh DEF SamePage
<1> QED BY <1>2, <1>3, <1>4 DEF GetVerdict

LEMMA VanishFresh ==
  ASSUME IInv, Conversations, NEW c \in Call, Vanish(c) PROVE Conversations'
BY DroppedFresh DEF Vanish, SamePage

LEMMA CallFresh ==
  ASSUME IInv, Conversations, NEW c \in Call, CallStep(c) PROVE Conversations'
BY PriceLineFresh, OutdatedFresh, ReadCartFresh, PlacementFresh, GetCartFresh, GetVerdictFresh,
   BreakFresh, VanishFresh DEF CallStep, SetLine, RemoveLine, Asked

-----------------------------------------------------------------------------
\* The page after a checkout is not the review step, nor one of its requests'.
LEMMA LeaveFresh ==
  ASSUME IInv, Conversations, NEW t \in Tab, page' = [page EXCEPT ![t] = Blank("elsewhere", None)],
         UNCHANGED call
  PROVE  Conversations'
<1> USE DEF Conversations, OnScreen, From
<1>1. \A u \in Tab : page'[u] = IF u = t THEN Blank("elsewhere", None) ELSE page[u]
  BY DEF IInv, Pages
<1>2. Blank("elsewhere", None).route = "elsewhere"
  BY DEF Blank
<1>3. KeysApart'
  BY <1>1, <1>2 DEF KeysApart
<1>4. \A c \in Call : Sender(c)'
  BY <1>1, <1>2 DEF Sender
<1>5. \A u \in Tab : Alone(u)'
  BY <1>1, <1>2 DEF Alone, OneByOne
<1> QED BY <1>3, <1>4, <1>5

LEMMA ClickFresh ==
  ASSUME IInv, Conversations, NEW t \in Tab, NEW c \in Call, Click(t, c) PROVE Conversations'
<1>1. PICK k \in KeysOf(t) :
        call' = [call EXCEPT ![c] = Sent(t, page[t].key,
                   [kind |-> "place", key |-> k, screen |-> page[t].view, ticked |-> page[t].accepted])]
  BY DEF Click
<1> DEFINE op == [kind |-> "place", key |-> k, screen |-> page[t].view, ticked |-> page[t].accepted]
<1>2. /\ PageOK(page[t]) /\ page[t] \in Page /\ page[t].key \in Key /\ k = page[t].key
      /\ page[t].view \in CartView /\ Shown(page[t].view) /\ page[t].accepted \in BOOLEAN
      /\ page[t].route = "review" /\ CanPlace(page[t].view, page[t].accepted)
  BY DEF IInv, Pages, PageOK, Page, Click, Reviewing, KeysOf
<1>3. op \in Op /\ Clicked(page[t].key, op)
  BY <1>2 DEF Op, Clicked, CanPlace
<1> DEFINE s == Sent(t, page[t].key, op)
<1>4. CallOK(s) /\ s.answer = None /\ s.page = page[t].key /\ s.tab = t
  BY <1>2, <1>3, SentOK DEF Sent
<1>5. \A u \in Tab : /\ SamePage(u) /\ page'[u].failed = page[u].failed
                     /\ page'[u].view = page[u].view /\ page'[u].old = page[u].old
  BY <1>2 DEF IInv, Pages, Page, Click, SamePage
<1>6. \A u \in Tab : OnScreen(u) /\ page[u].key = page[t].key => t = u /\ page[u].route = "review"
  BY <1>2 DEF Conversations, KeysApart, OnScreen
<1>7. call[c] = None /\ call' = [call EXCEPT ![c] = s]
  BY <1>1 DEF Click
<1> HIDE DEF s
<1> QED BY <1>4, <1>5, <1>6, <1>7, SendStep DEF From

LEMMA ElsewhereFresh ==
  ASSUME IInv, Conversations, NEW c \in Call, NEW op \in Edits, EditElsewhere(c, op)
  PROVE  Conversations'
<1>1. op \in Op /\ op.kind # "place"
  BY DEF Edits, Op
<1> DEFINE s == Sent(None, None, op)
<1>2. CallOK(s) /\ s.answer = None /\ s.page = None
  BY <1>1, SentOK DEF Sent
<1>3. \A t \in Tab : ~(OnScreen(t) /\ page[t].key = None)
  BY NoneIsNoPage DEF IInv, Pages, PageOK, Page, OnScreen
<1>4. call[c] = None /\ call' = [call EXCEPT ![c] = s] /\ UNCHANGED page
  BY DEF EditElsewhere
<1> HIDE DEF s
<1> QED BY <1>2, <1>3, <1>4, SendStep DEF SamePage, From

LEMMA TabFresh ==
  ASSUME IInv, Conversations, NEW t \in Tab, NEW c \in Call, TabStep(t, c) PROVE Conversations'
<1>1. CASE Reload(t, c)
  <2>1. page[t].route \in {"cart", "review"}
    BY <1>1 DEF IInv, Pages, Page, Reload
  <2> QED BY <1>1, <2>1, MountFresh DEF Reload
<1>2. CASE Arrive(t, c)
  BY <1>2, MountFresh, LeaveFresh DEF Arrive
<1>3. CASE \E r \in {"cart", "review"} : Open(t, r, c)
  BY <1>3, MountFresh DEF Open
<1> QED BY <1>1, <1>2, <1>3, ClickFresh, EditFresh DEF TabStep

LEMMA TickFresh == ASSUME IInv, Conversations, NEW t \in Tab, Tick(t) PROVE Conversations'
<1>1. page[t] \in Page
  BY DEF IInv, Pages
<1>2. \A u \in Tab : /\ SamePage(u) /\ page'[u].failed = page[u].failed
                     /\ page'[u].view = page[u].view /\ page'[u].old = page[u].old
  BY <1>1 DEF IInv, Pages, Page, Tick, SamePage
<1> QED BY <1>2, FramedStep DEF Tick, Conversations, Sender

LEMMA StillFresh == ASSUME Conversations, UNCHANGED <<page, call>> PROVE Conversations'
BY FramedStep DEF SamePage, Conversations, Sender

LEMMA InitFresh == Init => Conversations
BY DEF Init, Conversations, KeysApart, Sender, Alone, OneByOne, OnScreen, From, Blank

LEMMA NextFresh == IInv /\ Conversations /\ [Next]_vars => Conversations'
<1> SUFFICES ASSUME IInv, Conversations, [Next]_vars PROVE Conversations'
  OBVIOUS
<1>1. CASE \/ \E p \in Product, x \in Price : SetPrice(p, x)
           \/ \E p \in Product, n \in Stock : SetAvailable(p, n)
           \/ UNCHANGED vars
  BY <1>1, StillFresh DEF SetPrice, SetAvailable, vars
<1> QED BY <1>1, TabFresh, TickFresh, CallFresh, ElsewhereFresh DEF Next

\* QuietPageIsFresh: the cart page's edits and loads are rendered as they are
\* answered, in whatever order; on a page that makes its edits one at a time and
\* shows no failure, what the last answer leaves on the screen was read after every
\* write of that page.
THEOREM QuietPagesAreFresh == Spec => []QuietPageIsFresh
<1>1. Conversations => QuietPageIsFresh
  <2> SUFFICES ASSUME Conversations, NEW t \in Tab, OneByOne(t), page[t].view # None, ~page[t].failed,
                      ~Busy(page[t].key)
               PROVE  ~page[t].old
    BY DEF QuietPageIsFresh, OneByOne
  <2>1. \A c \in Call : ~From(c, t)
    BY DEF Busy, Underway, From
  <2> QED BY <2>1 DEF Conversations, Alone
<1>2. Spec => []Conversations
  BY InitFresh, NextFresh, Invariance, PTL DEF Spec
<1> QED BY <1>1, <1>2, PTL
-----------------------------------------------------------------------------
(***************************************************************************)
(* The API the pages use is the one AtomicCheckout promises: every step of *)
(* Shopping is one of its steps, or one it does not see.                   *)
(***************************************************************************)
LEMMA PagesAreUnseen == ASSUME UNCHANGED tables PROVE UNCHANGED Api!vars
BY DEF tables, Api!vars

LEMMA CallUsesCheckout ==
  ASSUME IInv, NEW c \in Call, CallStep(c) PROVE [Api!Next]_Api!vars
<1>1. Me \in Buyer
  BY OneBuyer
<1>2. CASE SetLine(c)
  <2>1. /\ call[c].op.product \in Product /\ call[c].op.qty \in 0..MaxQty
        /\ Api!EditCart(Me, call[c].op.product, call[c].op.qty)
    BY <1>2, CallIsOK, QtyIsNat DEF IInv, SetLine, Asked, CallOK, Request, Op
  <2> QED BY <1>1, <2>1 DEF Api!Next
<1>3. CASE RemoveLine(c)
  <2>1. /\ call[c].op.product \in Product /\ 0 \in 0..MaxQty
        /\ Api!EditCart(Me, call[c].op.product, 0)
    BY <1>3, CallIsOK, QtyIsNat DEF IInv, RemoveLine, Asked, CallOK, Request, Op
  <2> QED BY <1>1, <2>1 DEF Api!Next
<1>4. ASSUME NEW id \in CheckoutId, Place(c, id) PROVE Api!Next
  <2>1. call[c].op.key \in Key /\ Body(call[c].op) \in Basket
    BY <1>4, PlacedOp DEF Place
  <2>2. Api!Place(Me, call[c].op.key, Body(call[c].op), id)
    BY <1>4 DEF Place
  <2> QED BY <1>1, <2>1, <2>2 DEF Api!Next
<1>5. CASE \/ PriceLine(c) \/ ReadCart(c) \/ RefuseOrReplay(c)
           \/ GetCart(c) \/ GetVerdict(c) \/ Break(c) \/ Vanish(c)
  <2>1. Unmoved
    BY <1>5 DEF PriceLine, ReadCart, RefuseOrReplay, GetCart, GetVerdict, Break, Vanish
  <2> QED BY <2>1, PagesAreUnseen DEF Unmoved
<1> QED BY <1>2, <1>3, <1>4, <1>5 DEF CallStep

LEMMA StepUsesCheckout == IInv /\ [Next]_vars => [Api!Next]_Api!vars
<1> SUFFICES ASSUME IInv, [Next]_vars PROVE [Api!Next]_Api!vars
  OBVIOUS
<1>1. ASSUME NEW t \in Tab, NEW c \in Call, TabStep(t, c) PROVE UNCHANGED Api!vars
  <2>1. Unmoved
    BY <1>1 DEF TabStep, Open, Reload, Arrive, Click, Edit
  <2> QED BY <2>1, PagesAreUnseen DEF Unmoved
<1>2. CASE \/ \E t \in Tab : Tick(t)
           \/ \E c \in Call, op \in Edits : EditElsewhere(c, op)
           \/ \E p \in Product, x \in Price : SetPrice(p, x)
           \/ UNCHANGED vars
  BY <1>2, PagesAreUnseen DEF Tick, EditElsewhere, SetPrice, Unmoved, vars
<1>3. ASSUME NEW p \in Product, NEW n \in Stock, SetAvailable(p, n) PROVE Api!Next
  BY <1>3 DEF SetAvailable, Api!Next
<1> QED BY <1>1, <1>2, <1>3, CallUsesCheckout DEF Next

\* Whatever the tabs do, and in whatever order requests are carried out, the tables
\* move as AtomicCheckout promises: every request for a placement spends a key on a
\* body a client may send, and every edit leaves a cart a client may have.
THEOREM UsesCheckout == Spec => Api!Spec
<1>1. Init => Api!Init
  BY DEF Init
<1> QED BY <1>1, StepUsesCheckout, Invariance, PTL DEF Spec, Api!Spec
=============================================================================
