------------------------------ MODULE Shopping ------------------------------
(***************************************************************************)
(* One buyer's browser tabs on the cart page and the review step, over the *)
(* API as AtomicCheckout promises it.  Requests of every tab run           *)
(* concurrently, answers come in any order, a request whose answer failed  *)
(* may still be carried out, and a request outlives the page that sent it. *)
(*                                                                         *)
(* A page is named by the key its mount mints (the cart page mints none;   *)
(* it is a name only).  A product that leaves the storefront is one whose  *)
(* stock reads zero (D86).  Notices and other pages are left out.          *)
(***************************************************************************)
EXTENDS CheckoutTables

CONSTANTS
  Me,     \* the buyer
  Tab,    \* the tabs
  Call,   \* slots for requests under way: a bound
  Stock,  \* counts a seller may set
  Change  \* the price changes sellers make, <<from, to>>: a bound

ASSUME OneBuyer == Buyer = {Me}
ASSUME StockIsNat == Stock \subseteq Nat
\* A page may ask for anything it can show.
ASSUME AnyBasket == [qty: Quantities \ {NoLines}, price: [Product -> Price]] \subseteq Basket

VARIABLES
  available, cart, keys, status, orders,  \* the tables of AtomicCheckout
  price,   \* products.priceMinor
  added,   \* cart_items.addedUnitPriceMinor; None without a line
  page,    \* what each tab shows
  call,    \* the requests under way
  made     \* history: the page each checkout was placed from

tables == <<available, cart, keys, status, orders>>
vars == <<tables, price, added, page, call, made>>

Api == INSTANCE AtomicCheckout

Prices == [Product -> Price]

\* The Cart contract: the lines, what they cost then and now, and whether one is
\* flagged SHORT or SOLD_OUT.
CartView == [qty: Quantities, added: [Product -> Price \cup {None}],
             price: [Product -> Price \cup {None}], short: BOOLEAN]

Page == [route: {"cart", "review", "elsewhere"}, key: Key \cup {None},
         view: CartView \cup {None}, accepted: BOOLEAN, placing: BOOLEAN, failed: BOOLEAN,
         going: {"here", "placed", "cart"}, overlapped: BOOLEAN, old: BOOLEAN]

Op == [kind: {"load"}]
        \cup [kind: {"set"}, product: Product, qty: 1..MaxQty, price: Price \cup {None}]
        \cup [kind: {"remove"}, product: Product]
        \cup [kind: {"place"}, key: Key, screen: CartView, ticked: BOOLEAN]

Answers == {"CART", "PLACED", "LINES", "CONFLICT", None}

Request == [tab: Tab \cup {None}, page: Key \cup {None}, op: Op, answer: Answers,
            cart: CartView \cup {None}, wrote: BOOLEAN, old: BOOLEAN]

ASSUME NoneIsNoPage == None \notin Tab \cup Key \cup Request \cup {"PLACED", "LINES", "CONFLICT"}

TypeOK ==
  /\ available \in [Product -> Nat]
  /\ cart \in [Buyer -> Quantities]
  /\ status \in [CheckoutId -> {"ABSENT", "PENDING_PAYMENT"}]
  /\ orders \subseteq Order
  /\ keys \in [Buyer \X Key -> [basket: [qty: Quantities, price: Prices], id: CheckoutId] \cup {None}]
  /\ price \in Prices
  /\ added \in [Product -> Price \cup {None}]
  /\ page \in [Tab -> Page]
  /\ call \in [Call -> Request \cup {None}]
  /\ made \in [CheckoutId -> Key \cup {None}]

-----------------------------------------------------------------------------
(***************************************************************************)
(* Pages and the requests they send.                                       *)
(***************************************************************************)
Blank(r, k) == [route |-> r, key |-> k, view |-> None, accepted |-> FALSE, placing |-> FALSE,
                failed |-> FALSE, going |-> "here", overlapped |-> FALSE, old |-> FALSE]

Underway == {c \in Call : call[c] # None}

\* What a key was spent on.
Spent(k) == keys[<<Me, k>>]

\* A uuid nobody has.
Unused(k) == /\ Spent(k) = None
             /\ \A t \in Tab : page[t].key # k
             /\ \A c \in Underway : call[c].page # k
             /\ \A id \in CheckoutId : made[id] # k

\* The page c was sent from is still the one its tab shows.
Mounted(c) == call[c].tab # None /\ page[call[c].tab].key = call[c].page

Sent(t, k, op) == [tab |-> t, page |-> k, op |-> op, answer |-> None,
                   cart |-> None, wrote |-> FALSE, old |-> FALSE]

Busy(k) == \E c \in Underway : call[c].page = k

\* A page is mounted with fresh state, and its effect asks for the cart.
Mount(t, r, c, calls) ==
  \E k \in Key : /\ Unused(k)
                 /\ page' = [page EXCEPT ![t] = Blank(r, k)]
                 /\ call' = [calls EXCEPT ![c] = Sent(t, k, [kind |-> "load"])]

Unmoved == UNCHANGED <<tables, price, added, made>>

\* A link is followed; what the tab has under way goes on.
Open(t, r, c) == /\ call[c] = None
                 /\ Mount(t, r, c, call)
                 /\ Unmoved

\* A reload: the answers to this tab's requests have nobody to arrive at.
Orphaned(t) == [c \in Call |-> IF call[c] # None /\ call[c].tab = t
                                 THEN [call[c] EXCEPT !.tab = None] ELSE call[c]]

Reload(t, c) == /\ page[t].route # "elsewhere"
                /\ call[c] = None
                /\ Mount(t, page[t].route, c, Orphaned(t))
                /\ Unmoved

\* router.push takes effect; until then the old page is on the screen and works.
Arrive(t, c) ==
  /\ \/ /\ page[t].going = "placed"
        /\ page' = [page EXCEPT ![t] = Blank("elsewhere", None)]
        /\ UNCHANGED call
     \/ /\ page[t].going = "cart"
        /\ call[c] = None
        /\ Mount(t, "cart", c, call)
  /\ Unmoved

-----------------------------------------------------------------------------
(***************************************************************************)
(* The cart page.                                                          *)
(***************************************************************************)
\* apply: the message of the last attempt goes, and the edit is sent.
Edit(t, c, op) ==
  /\ page[t].route = "cart" /\ page[t].view # None
  /\ page[t].view.qty[op.product] > 0
  /\ call[c] = None
  /\ call' = [call EXCEPT ![c] = Sent(t, page[t].key, op)]
  /\ page' = [page EXCEPT ![t].failed = FALSE, ![t].overlapped = @ \/ Busy(page[t].key)]
  /\ Unmoved

\* A product page, or another device of the buyer, edits the same cart.
EditElsewhere(c, op) == /\ call[c] = None
                        /\ call' = [call EXCEPT ![c] = Sent(None, None, op)]
                        /\ UNCHANGED page
                        /\ Unmoved

-----------------------------------------------------------------------------
(***************************************************************************)
(* The review step.                                                        *)
(***************************************************************************)
InCart(v) == {p \in Product : v.qty[p] > 0}

PriceChanges(v) == {p \in InCart(v) : v.price[p] # v.added[p]}

\* Mutant: nobody has to accept a changed price.
CanPlaceUnasked(v, accepted) ==
  /\ InCart(v) # {}
  /\ Cardinality({CurrencyOf[p] : p \in InCart(v)}) = 1
  /\ ~v.short

CanPlace(v, accepted) ==
  /\ InCart(v) # {}
  /\ Cardinality({CurrencyOf[p] : p \in InCart(v)}) = 1
  /\ ~v.short
  /\ PriceChanges(v) = {} \/ accepted

\* The review step renders the cart: it has one, and no error took its place.
Reviewing(t) == page[t].route = "review" /\ page[t].view # None /\ ~page[t].failed

\* The checkbox stands beside a list of price changes.
Tick(t) == /\ Reviewing(t)
           /\ PriceChanges(page[t].view) # {}
           /\ page' = [page EXCEPT ![t].accepted = ~@]
           /\ UNCHANGED call
           /\ Unmoved

\* Mutant: a key for every click.
KeysForClick(t) == {k \in Key : Spent(k) = None}

\* One key per mount (D100): every click of this page carries it.
KeysOf(t) == {page[t].key}

\* place(): the confirmed lines are the ones on the screen.
Click(t, c) ==
  /\ Reviewing(t)
  /\ CanPlace(page[t].view, page[t].accepted)
  /\ ~page[t].placing
  /\ call[c] = None
  /\ \E k \in KeysOf(t) :
       call' = [call EXCEPT ![c] = Sent(t, page[t].key,
                  [kind |-> "place", key |-> k, screen |-> page[t].view, ticked |-> page[t].accepted])]
  /\ page' = [page EXCEPT ![t].placing = TRUE]
  /\ Unmoved

\* A line that is not asked for has no price; a basket holds any.
Body(op) == [qty |-> op.screen.qty,
             price |-> [p \in Product |-> IF op.screen.qty[p] > 0 THEN op.screen.price[p]
                                          ELSE CHOOSE x \in Price : TRUE]]

-----------------------------------------------------------------------------
(***************************************************************************)
(* The API, one statement at a time; POST /checkouts as AtomicCheckout.    *)
(***************************************************************************)
Asked(c, kind) == call[c] # None /\ call[c].op.kind = kind /\ call[c].answer = None

\* findPublicPrice, before the transaction that writes the line.
PriceLine(c) ==
  /\ Asked(c, "set") /\ call[c].op.price = None
  /\ call' = [call EXCEPT ![c].op.price = price[call[c].op.product]]
  /\ UNCHANGED page
  /\ Unmoved

\* What the writing page knows of the cart is from before this write.
Outdated(c) ==
  /\ call' = [d \in Call |->
       IF d = c THEN [call[c] EXCEPT !.wrote = TRUE]
       ELSE IF call[d] # None /\ call[d].page = call[c].page /\ call[d].answer # None
         THEN [call[d] EXCEPT !.old = TRUE] ELSE call[d]]
  /\ page' = [t \in Tab |-> IF page[t].key = call[c].page
                                   /\ page[t].route = "cart"
                              THEN [page[t] EXCEPT !.old = TRUE] ELSE page[t]]

\* Mutant: an edit adds to the line.
AddToLine(c) ==
  LET op == call[c].op IN
  /\ Asked(c, "set") /\ op.price # None /\ ~call[c].wrote
  /\ Api!EditCart(Me, op.product, cart[Me][op.product] + op.qty)
  /\ added' = [added EXCEPT ![op.product] = IF @ = None THEN op.price ELSE @]
  /\ Outdated(c)
  /\ UNCHANGED <<price, made>>

\* The upsert: the price is written with the line and never again (D82).
SetLine(c) ==
  LET op == call[c].op IN
  /\ Asked(c, "set") /\ op.price # None /\ ~call[c].wrote
  /\ Api!EditCart(Me, op.product, op.qty)
  /\ added' = [added EXCEPT ![op.product] = IF @ = None THEN op.price ELSE @]
  /\ Outdated(c)
  /\ UNCHANGED <<price, made>>

RemoveLine(c) ==
  /\ Asked(c, "remove") /\ ~call[c].wrote
  /\ Api!EditCart(Me, call[c].op.product, 0)
  /\ added' = [added EXCEPT ![call[c].op.product] = None]
  /\ Outdated(c)
  /\ UNCHANGED <<price, made>>

\* toCart over the lines as they are.
CartNow == [qty |-> cart[Me],
            added |-> added,
            price |-> [p \in Product |-> IF cart[Me][p] > 0 THEN price[p] ELSE None],
            short |-> \E p \in Product : cart[Me][p] > available[p]]

\* CartService.get, alone or after a write.
ReadCart(c) ==
  /\ Asked(c, "load") \/ (call[c] # None /\ call[c].wrote /\ call[c].answer = None)
  /\ call' = [call EXCEPT ![c].answer = "CART", ![c].cart = CartNow]
  /\ UNCHANGED page
  /\ Unmoved

\* Mutant: the order is taken at the prices of the day.
LinesHold(op) == \A p \in InCart(op.screen) : available[p] >= op.screen.qty[p]

LinesStand(op) == \A p \in InCart(op.screen) : /\ available[p] >= op.screen.qty[p]
                                               /\ price[p] = op.screen.price[p]

\* What POST /checkouts says without writing: contention, or the first refusal.
Refusals(op) ==
  LET spent == Spent(op.key) IN
  {"CONFLICT"} \cup
  (IF spent # None THEN (IF spent.basket = Body(op) THEN {"PLACED"} ELSE {})
   ELSE IF cart[Me] = op.screen.qty /\ ~LinesStand(op) THEN {"LINES"} ELSE {})

RefuseOrReplay(c) ==
  /\ Asked(c, "place")
  /\ \E a \in Refusals(call[c].op) : call' = [call EXCEPT ![c].answer = a]
  /\ UNCHANGED page
  /\ Unmoved

Place(c, id) ==
  LET op == call[c].op IN
  /\ Asked(c, "place")
  /\ LinesStand(op)
  /\ Api!Place(Me, op.key, Body(op), id)
  /\ made' = [made EXCEPT ![id] = call[c].page]
  /\ added' = [p \in Product |-> None]
  /\ call' = [call EXCEPT ![c].answer = "PLACED"]
  /\ UNCHANGED <<price, page>>

-----------------------------------------------------------------------------
(***************************************************************************)
(* Answers.                                                                *)
(***************************************************************************)
\* Mutant: an edit's answer is not rendered.
ShowLoads(c) ==
  IF Mounted(c) /\ call[c].op.kind = "load"
    THEN [page EXCEPT ![call[c].tab].view = call[c].cart, ![call[c].tab].old = call[c].old]
    ELSE page

\* setCart, on a page that is still mounted.
Show(c) ==
  IF Mounted(c)
    THEN [page EXCEPT ![call[c].tab].view = call[c].cart, ![call[c].tab].old = call[c].old]
    ELSE page

GetCart(c) == /\ call[c] # None /\ call[c].answer = "CART"
              /\ page' = Show(c)
              /\ call' = [call EXCEPT ![c] = None]
              /\ Unmoved

\* The button comes back before the navigation it waits for.
Pushed(c, to) == LET t == call[c].tab IN
  [page EXCEPT ![t].going = to, ![t].placing = IF Mounted(c) THEN FALSE ELSE @]

\* The rest of place(): push, or a notice and another load, and finally.
GetVerdict(c) ==
  LET r == call[c] IN
  /\ r # None /\ r.tab # None
  /\ \/ /\ r.answer = "PLACED"
        /\ page' = Pushed(c, "placed")
        /\ call' = [call EXCEPT ![c] = None]
     \/ /\ r.answer = "LINES"
        /\ page' = Pushed(c, "cart")
        /\ call' = [call EXCEPT ![c] = None]
     \/ /\ r.answer = "CONFLICT" /\ Mounted(c)
        /\ page' = [page EXCEPT ![r.tab].placing = FALSE]
        /\ call' = [call EXCEPT ![c] = Sent(r.tab, r.page, [kind |-> "load"])]
     \/ /\ r.answer = "CONFLICT" /\ ~Mounted(c)
        /\ call' = [call EXCEPT ![c] = None]
        /\ UNCHANGED page
  /\ Unmoved

\* The request fails for the page, whatever the API still does with it.
Break(c) ==
  LET r == call[c] IN
  /\ r # None /\ r.tab # None
  /\ page' = IF Mounted(c)
               THEN [page EXCEPT ![r.tab].failed = TRUE,
                                 ![r.tab].placing = IF r.op.kind = "place" THEN FALSE ELSE @]
               ELSE page
  /\ call' = [call EXCEPT ![c].tab = None]
  /\ Unmoved

\* A request nobody waits for ends: it never arrived, failed, or was answered in vain.
Vanish(c) == /\ call[c] # None /\ call[c].tab = None
             /\ call' = [call EXCEPT ![c] = None]
             /\ UNCHANGED page
             /\ Unmoved

-----------------------------------------------------------------------------
\* Sellers reprice and count stock.
SetPrice(p, x) == /\ <<price[p], x>> \in Change
                  /\ price' = [price EXCEPT ![p] = x]
                  /\ UNCHANGED <<tables, added, page, call, made>>

SetAvailable(p, n) == /\ Api!SetAvailable(p, n)
                      /\ UNCHANGED <<price, added, page, call, made>>

Init ==
  /\ Api!Init
  /\ price \in Prices
  /\ added = [p \in Product |-> None]
  /\ page = [t \in Tab |-> Blank("elsewhere", None)]
  /\ call = [c \in Call |-> None]
  /\ made = [id \in CheckoutId |-> None]

Edits == [kind: {"set"}, product: Product, qty: 1..MaxQty, price: {None}]
           \cup [kind: {"remove"}, product: Product]

TabStep(t, c) ==
  \/ \E r \in {"cart", "review"} : Open(t, r, c)
  \/ Reload(t, c) \/ Arrive(t, c) \/ Click(t, c)
  \/ \E op \in Edits : Edit(t, c, op)

CallStep(c) ==
  \/ PriceLine(c) \/ SetLine(c) \/ RemoveLine(c) \/ ReadCart(c)
  \/ RefuseOrReplay(c) \/ \E id \in CheckoutId : Place(c, id)
  \/ GetCart(c) \/ GetVerdict(c) \/ Break(c) \/ Vanish(c)

Next ==
  \/ \E t \in Tab, c \in Call : TabStep(t, c)
  \/ \E t \in Tab : Tick(t)
  \/ \E c \in Call : CallStep(c) \/ \E op \in Edits : EditElsewhere(c, op)
  \/ \E p \in Product, x \in Price : SetPrice(p, x)
  \/ \E p \in Product, n \in Stock : SetAvailable(p, n)

Spec == Init /\ [][Next]_vars

-----------------------------------------------------------------------------
\* A checkout charges the prices its click was made on, and none of them differs
\* from the price the line was added at unless the box was ticked on that page,
\* whatever sellers and other tabs did meanwhile (D60, D77).
PaidAsShown ==
  [][\A k \in Key : Spent(k) = None /\ Spent(k)' # None =>
       \E c \in Underway :
         LET op == call[c].op IN
         /\ op.kind = "place" /\ op.key = k
         /\ \A p \in InCart(op.screen) :
              /\ price[p] = op.screen.price[p]
              /\ op.screen.price[p] = op.screen.added[p] \/ op.ticked]_vars

\* One mount of the review step is one placement attempt (D100): however often its
\* button is used, also after it was told of a checkout and before the next page is
\* there, and whatever other tabs put in the cart, it makes one checkout.
OneAttemptOneCheckout ==
  \A i, j \in CheckoutId :
    made[i] # None /\ made[i] = made[j] => i = j

\* A cart page that made its edits one at a time, and is not showing a failure,
\* shows a cart read after the last of them.
QuietPageIsFresh ==
  \A t \in Tab :
    page[t].route = "cart" /\ page[t].view # None /\ ~page[t].failed
      /\ ~page[t].overlapped /\ ~Busy(page[t].key) => ~page[t].old
=============================================================================
