----------------------------- MODULE MCShopping -----------------------------
(***************************************************************************)
(* A small instance of Shopping.                                           *)
(***************************************************************************)
EXTENDS Shopping, TLC

CONSTANTS me, s1, usd, t1, c1, c2, k1, k2, id1, id2

MCSellerOf == [p \in Product |-> s1]
MCCurrencyOf == [p \in Product |-> usd]
MCBaskets == [qty: Quantities \ {NoLines}, price: Prices]

MCRise == {<<1, 2>>}

MCSymmetry == Permutations(Tab) \cup Permutations(Call) \cup Permutations(Key)
                \cup Permutations(CheckoutId)
=============================================================================
