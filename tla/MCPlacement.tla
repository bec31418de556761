---------------------------- MODULE MCPlacement -----------------------------
(***************************************************************************)
(* Small instances of Placement.                                           *)
(***************************************************************************)
EXTENDS Placement, TLC

CONSTANTS b1, b2, k1, k2, s1, s2, usd, egp, r1, r2, w1, w2, id1, id2

\* A body that asks for q at the given prices, product 1 first.
Body(q, x) == [qty |-> q, price |-> x]

MCSellerOf == (1 :> s1) @@ (2 :> s2)
MCOneCurrency == (1 :> usd) @@ (2 :> usd)
MCTwoCurrencies == (1 :> usd) @@ (2 :> egp)

\* One of each; and the second product alone.
MCBaskets == {Body(<<1, 1>>, <<1, 1>>), Body(<<0, 1>>, <<1, 1>>)}
MCOneOfEach == {Body(<<1, 1>>, <<1, 1>>)}

\* Either product alone, or a body that mixes their currencies.
MCEitherOrBoth == {Body(q, <<1, 1>>) : q \in {<<1, 0>>, <<0, 1>>, <<1, 1>>}}

\* One buyer, one key: retries and double clicks; or a buyer and key each.
MCSameBuyer == [r \in Request |-> b1]
MCSameKey   == [r \in Request |-> k1]
MCTwoBuyers == [r \in Request |-> IF r = r1 THEN b1 ELSE b2]

MCIdSymmetry == Permutations(CheckoutId) \cup Permutations(Worker)
=============================================================================
