--------------------------- MODULE MCAutoCancel ---------------------------
EXTENDS AutoCancel

\* A unit each of one product: with room for three, the three checkouts fit, unless
\* the seller counts units again that they still hold.
OneUnitEach == [c \in Checkout |-> [p \in Product |-> 1]]
=============================================================================
