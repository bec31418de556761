------------------------------ MODULE Catalog -------------------------------
(***************************************************************************)
(* The products controller, behind the guards of module Organizations: a   *)
(* seller creates products, reprices, publishes and unpublishes them and   *)
(* counts their stock.  Every query composes tenantScope, and a decision   *)
(* and the write it allows are two statements with nothing locked.         *)
(*                                                                         *)
(* Names, currencies (fixed when a product is created) and what checkouts  *)
(* do to a count are left out.                                             *)
(***************************************************************************)
EXTENDS Organizations

CONSTANTS
  Product,   \* the uuids a product may get
  Price,     \* prices the contract admits, free and negative ones included
  Stock,     \* counts the contract admits
  Catalogs,  \* the product tables earlier calls may have left
  NoProduct  \* no row

\* MIN_PUBLISHABLE_PRICE_MINOR
MinPrice == 1

Writes == {"product", "update", "publish", "unpublish", "stock"}

ASSUME PricesAreInt == Price \subseteq Int /\ Stock \subseteq Nat
ASSUME CatalogAsks ==
  \A a \in Ask : /\ a.op \in {"update", "publish", "unpublish", "stock", "read"} => a.product \in Product
                 /\ a.op \in {"product", "update"} => a.price \in Price
                 /\ a.op = "stock" => a.count \in Stock

ASSUME CatalogsAreRows ==
  Catalogs \subseteq [Product -> [org: Org, price: Price, status: {"DRAFT", "PUBLISHED"}] \cup {NoProduct}]

VARIABLES
  product,    \* products: the organization, the price and the status
  available,  \* inventory.available
  stage,      \* where a handler stands
  seen        \* the product row it read

catalogVars == <<product, available, stage, seen>>
vars == <<orgVars, catalogVars>>

Row == [org: Org, price: Price, status: {"DRAFT", "PUBLISHED"}]

TypeOK ==
  /\ OrgTypeOK
  /\ product \in [Product -> Row \cup {NoProduct}]
  /\ available \in [Product -> Stock \cup {0}]
  /\ stage \in [Call -> {"read", "write", "readback"}]
  /\ seen \in [Call -> Row \cup {NoProduct}]

Init ==
  /\ OrgInit
  /\ product \in Catalogs
  /\ available = [p \in Product |-> 0]
  /\ stage = [c \in Call |-> "read"]
  /\ seen = [c \in Call |-> NoProduct]

-----------------------------------------------------------------------------
\* Mutant: a query by id alone.
AnyTenant(c, p) == product[p] # NoProduct

\* `where: { id, ...tenantScope(tenant) }` finds the row.
InScope(c, p) == product[p] # NoProduct /\ product[p].org = asked[c].org

Asks(c, op) == pc[c] = "handle" /\ asked[c].op = op

\* The handler answers; a step it takes before that leaves the call where it is.
Reply(c, what) == Handle(c, what)

\* It has written, and answers unless the answer is lost.
Written(c) == \E what \in {"OK", "ERROR"} : Reply(c, what)

Stay == UNCHANGED orgVars

\* The row the handler decides on is kept until it writes.
Decided(c) == /\ stage' = [stage EXCEPT ![c] = "write"]
              /\ seen' = [seen EXCEPT ![c] = product[asked[c].product]]
              /\ Stay

\* CatalogRepository.create: a draft and its empty shelf.
CreateProduct(c) ==
  /\ Asks(c, "product")
  /\ RowFree(asked[c].org)
  /\ \E p \in Product :
       /\ product[p] = NoProduct
       /\ product' = [product EXCEPT ![p] =
            [org |-> asked[c].org, price |-> asked[c].price, status |-> "DRAFT"]]
       /\ available' = [available EXCEPT ![p] = 0]
  /\ Written(c)
  /\ UNCHANGED <<stage, seen>>

\* findOne, inventory; a list, which is never refused, is a "handle" of module
\* Organizations.
Read(c) == /\ Asks(c, "read")
           /\ Reply(c, IF InScope(c, asked[c].product) THEN "OK" ELSE "NOT_FOUND")
           /\ UNCHANGED catalogVars

\* update, its check: made only for a price nothing may be published at.
CheckPrice(c) ==
  /\ Asks(c, "update") /\ stage[c] = "read"
  /\ asked[c].price < MinPrice
  /\ LET p == asked[c].product IN
     \/ /\ ~InScope(c, p)
        /\ Reply(c, "NOT_FOUND")
        /\ UNCHANGED <<stage, seen>>
     \/ /\ InScope(c, p) /\ product[p].status = "PUBLISHED"
        /\ Reply(c, "CONFLICT")
        /\ UNCHANGED <<stage, seen>>
     \/ /\ InScope(c, p) /\ product[p].status = "DRAFT"
        /\ Decided(c)
  /\ UNCHANGED <<product, available>>

SetPrice(p, x) == product' = [product EXCEPT ![p].price = x]

\* Mutant: the check is gone.
RepriceUnchecked(c) == /\ Asks(c, "update")
                       /\ InScope(c, asked[c].product)
                       /\ SetPrice(asked[c].product, asked[c].price)
                       /\ Written(c)
                       /\ UNCHANGED <<available, stage, seen>>

\* update, its write: whatever the status is by now.  No row touched is a 404.
Reprice(c) == /\ Asks(c, "update")
              /\ asked[c].price >= MinPrice \/ stage[c] = "write"
              /\ \/ /\ InScope(c, asked[c].product)
                    /\ SetPrice(asked[c].product, asked[c].price)
                    /\ Written(c)
                 \/ /\ ~InScope(c, asked[c].product)
                    /\ Reply(c, "NOT_FOUND")
                    /\ UNCHANGED product
              /\ UNCHANGED <<available, stage, seen>>

Target(c) == IF asked[c].op = "publish" THEN "PUBLISHED" ELSE "DRAFT"

\* planProductTransition, on the row as read.
Allowed(row, to) == /\ row.status # to
                    /\ to = "PUBLISHED" => row.price >= MinPrice

\* transition, its decision.
Plan(c) ==
  /\ Asks(c, "publish") \/ Asks(c, "unpublish")
  /\ stage[c] = "read"
  /\ LET p == asked[c].product IN
     \/ /\ ~InScope(c, p)
        /\ Reply(c, "NOT_FOUND")
        /\ UNCHANGED <<stage, seen>>
     \/ /\ InScope(c, p) /\ ~Allowed(product[p], Target(c))
        /\ Reply(c, "CONFLICT")
        /\ UNCHANGED <<stage, seen>>
     \/ /\ InScope(c, p) /\ Allowed(product[p], Target(c))
        /\ Decided(c)
  /\ UNCHANGED <<product, available>>

\* transition, its write: nobody looks at the count it returns.
Transition(c) == /\ Asks(c, "publish") \/ Asks(c, "unpublish")
                 /\ stage[c] = "write"
                 /\ LET p == asked[c].product IN
                    product' = IF InScope(c, p) THEN [product EXCEPT ![p].status = Target(c)]
                                                ELSE product
                 /\ Written(c)
                 /\ UNCHANGED <<available, stage, seen>>

\* Mutant: a delta, not an absolute count.
SetStockAsDelta(c) ==
  /\ Asks(c, "stock") /\ stage[c] = "read"
  /\ InScope(c, asked[c].product)
  /\ available' = [available EXCEPT ![asked[c].product] = @ + asked[c].count]
  /\ stage' = [stage EXCEPT ![c] = "readback"]
  /\ Stay
  /\ UNCHANGED <<product, seen>>

\* setInventory: an absolute count, and then the row is read back.
SetStock(c) ==
  /\ Asks(c, "stock") /\ stage[c] = "read"
  /\ \/ /\ InScope(c, asked[c].product)
        /\ available' = [available EXCEPT ![asked[c].product] = asked[c].count]
        /\ stage' = [stage EXCEPT ![c] = "readback"]
        /\ Stay
     \/ /\ ~InScope(c, asked[c].product)
        /\ Reply(c, "NOT_FOUND")
        /\ UNCHANGED <<available, stage>>
  /\ UNCHANGED <<product, seen>>

ReadBack(c) == /\ Asks(c, "stock") /\ stage[c] = "readback"
               /\ Reply(c, IF InScope(c, asked[c].product) THEN "OK" ELSE "NOT_FOUND")
               /\ UNCHANGED catalogVars

\* The lists of organizations, of members and of products.
List(c) == /\ pc[c] = "handle"
           /\ asked[c].op \notin Writes \cup {"read"}
           /\ Reply(c, "OK")
           /\ UNCHANGED catalogVars

ProductStep(c) == \/ CreateProduct(c) \/ Read(c) \/ CheckPrice(c) \/ Reprice(c)
                  \/ Plan(c) \/ Transition(c) \/ SetStock(c) \/ ReadBack(c) \/ List(c)

Next == \/ \E c \in Call : ProductStep(c)
        \/ /\ \/ \E c \in Call : MemberStep(c)
              \/ \E o \in Org : SetStatus(o)
           /\ UNCHANGED catalogVars

Spec == Init /\ [][Next]_vars

-----------------------------------------------------------------------------
Published(p) == product[p] # NoProduct /\ product[p].status = "PUBLISHED"

\* A published product nobody can have in a cart.
Giveaway(p) == Published(p) /\ product[p].price < MinPrice

\* "A published product must not be repriced below the minimum": it ends up there
\* only when a reprice and a publication crossed, each having decided on a row the
\* other has changed since.  No single call, and no sequence of them, does it.
GiveawaysAreRaces ==
  [][\A p \in Product : Giveaway(p)' /\ ~Giveaway(p) =>
       \E c \in Call : /\ pc[c] = "handle" /\ pc'[c] = "done"
                       /\ asked[c].product = p
                       /\ seen[c] # NoProduct /\ seen[c] # product[p]]_vars

\* INV-9: a product and its stock change only by a call made within the
\* organization that owns it, and the guard found the caller to be a member.
WithinTheTenant ==
  [][\A p \in Product : product'[p] # product[p] \/ available'[p] # available[p] =>
       \E c \in Call : /\ pc[c] = "handle" /\ asRole[c] # "NONE"
                       /\ product'[p].org = asked[c].org
                       /\ \/ product[p] = NoProduct
                          \/ product[p].org = asked[c].org]_vars
=============================================================================
