----------------------------- MODULE MCCatalog ------------------------------
EXTENDS Catalog, TLC

CONSTANTS ann, bob, cat, acme, rival, p1

MCUser == {ann, bob, cat}
MCOrg == {acme, rival}

Roles3(a, b, c) == (ann :> a) @@ (bob :> b) @@ (cat :> c)

\* Two owners and a slug nobody has taken yet; or an owner and a member, and the
\* rival is Cat's.
MCTables == {(acme :> Roles3("OWNER", "OWNER", "NONE")) @@ (rival :> Roles3("NONE", "NONE", "NONE")),
             (acme :> Roles3("OWNER", "MEMBER", "NONE")) @@ (rival :> Roles3("NONE", "NONE", "OWNER"))}

MCCatalogs == {p1 :> [org |-> acme, price |-> 1, status |-> "DRAFT"], p1 :> NoProduct}

Member(op, u, target) == [op |-> op, user |-> u, org |-> acme, target |-> target]
Of(op, u, o) == [op |-> op, user |-> u, org |-> o]
On(op, u, o) == [op |-> op, user |-> u, org |-> o, product |-> p1]
Price_(op, u, o, x) == [op |-> op, user |-> u, org |-> o, product |-> p1, price |-> x]

\* The owners remove each other and add Cat, who founds the rival; Ann and Bob
\* manage the product, and Cat tries to from the rival.
MCAsk ==
  {Member("remove", ann, bob), Member("remove", bob, ann), Member("remove", ann, cat),
   Member("add", ann, cat), Member("add", ann, bob),
   Of("create", cat, rival), Of("organizations", ann, acme),
   Price_("product", ann, acme, 0), Price_("update", ann, acme, 0), Price_("update", bob, acme, 1),
   Price_("update", cat, rival, 0), On("publish", ann, acme), On("unpublish", bob, acme),
   On("publish", cat, rival), On("read", cat, rival),
   [op |-> "stock", user |-> bob, org |-> acme, product |-> p1, count |-> 1]}

Calls == Permutations(Call)
=============================================================================
