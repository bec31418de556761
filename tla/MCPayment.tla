----------------------------- MODULE MCPayment ------------------------------
(***************************************************************************)
(* Small instances of Payment.                                             *)
(***************************************************************************)
EXTENDS Payment, TLC

CONSTANTS b1, b2, a1, a2, a3, c1, c2

\* The first checkout is b1's, the second b2's; every attempt is b1's, so
\* attempts on the second are refused and all others contend for the first.
MCOwnerOf == (c1 :> b1) @@ (c2 :> b2)
MCOwnerOfOne == (c1 :> b1)
MCBuyerOf == [a \in Attempt |-> b1]
=============================================================================
