----------------------------- MODULE OnePayment -----------------------------
(***************************************************************************)
(* What payment promises, with no attempts in it: for each checkout money  *)
(* moves at most once, it pays the checkout only while the checkout is     *)
(* pending, and it is given back only when the checkout was cancelled.     *)
(***************************************************************************)
CONSTANT CheckoutId

VARIABLES
  status,   \* checkouts.status
  money     \* "none" moved, "taken" by the provider, "returned" by a refund

vars == <<status, money>>

Init == /\ status = [c \in CheckoutId |-> "ABSENT"]
        /\ money = [c \in CheckoutId |-> "none"]

Place(c)  == /\ status[c] = "ABSENT"
             /\ status' = [status EXCEPT ![c] = "PENDING_PAYMENT"]
             /\ UNCHANGED money

Cancel(c) == /\ status[c] = "PENDING_PAYMENT"
             /\ status' = [status EXCEPT ![c] = "CANCELLED"]
             /\ UNCHANGED money

\* The provider moves the money; the checkout may meanwhile have been cancelled.
Take(c)   == /\ status[c] # "ABSENT"
             /\ status[c] # "PAID"
             /\ money[c] = "none"
             /\ money' = [money EXCEPT ![c] = "taken"]
             /\ UNCHANGED status

Pay(c)    == /\ status[c] = "PENDING_PAYMENT"
             /\ money[c] = "taken"
             /\ status' = [status EXCEPT ![c] = "PAID"]
             /\ UNCHANGED money

Return(c) == /\ status[c] = "CANCELLED"
             /\ money[c] = "taken"
             /\ money' = [money EXCEPT ![c] = "returned"]
             /\ UNCHANGED status

Next == \E c \in CheckoutId : Place(c) \/ Cancel(c) \/ Take(c) \/ Pay(c) \/ Return(c)

Spec == Init /\ [][Next]_vars
=============================================================================
