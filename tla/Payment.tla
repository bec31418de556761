------------------------------ MODULE Payment -------------------------------
(***************************************************************************)
(* Capturing the payment of a checkout: PaymentService.pay, its two        *)
(* transactions, and the provider call between them (ADR 004).             *)
(*                                                                         *)
(* An Attempt is one call of pay, in any API process.  Every await that    *)
(* reads or writes shared rows is a step of its own, so attempts and the   *)
(* worker's cancellation interleave between them.  Each transaction locks  *)
(* the checkout row first and touches no other contended row, so it is one *)
(* step.  A process may die at any point; a client that saw no answer, or  *)
(* PENDING, may call again.                                                *)
(*                                                                         *)
(* The provider is the simulator the code ships: charges are recorded in a *)
(* store keyed by the checkout, and the verdict is a function of the       *)
(* checkout's total, which no operation changes after placement.           *)
(* The stock a cancellation restores is module Placement's subject.        *)
(***************************************************************************)
EXTENDS Naturals

CONSTANTS
  CheckoutId, Buyer, OwnerOf,   \* checkouts and whose they are
  Attempt, BuyerOf,             \* calls of pay and who makes them
  Mortal,                       \* attempts whose process may die
  None

\* attempts counts the claims; ref stands for capturedAt and providerRef.
PaymentRow == [status: {"PROCESSING", "SUCCEEDED", "FAILED", "REFUNDED"},
               attempts: Nat, ref: {"NULL", "SET"}]

ASSUME PayFacts == /\ OwnerOf \in [CheckoutId -> Buyer]
                   /\ BuyerOf \in [Attempt -> Buyer]
                   /\ Mortal \subseteq Attempt
                   /\ None \notin CheckoutId \cup PaymentRow

VARIABLES
  status,   \* checkouts.status
  orders,   \* the status of the checkout's orders, which only move together
  payment,  \* the payments row of a checkout, None before the first attempt
  charges,  \* how many times the provider's store has recorded a charge
  verdict,  \* simulatorVerdict of the checkout's total
  pc,       \* where each attempt stands
  target,   \* the checkout it is for
  answer    \* what it answers

vars == <<status, orders, payment, charges, verdict, pc, target, answer>>

Verdicts == {"CAPTURED", "DECLINED", "TIMEOUT"}

InFlight == {"claim", "lookup", "refund", "find", "record", "settle", "fail"}

Answers == {"NONE", "NOT_FOUND", "PAID", "ALREADY_PAID", "CANCELLED", "DECLINED", "PENDING", "LOST"}

TypeOK ==
  /\ status \in [CheckoutId -> {"ABSENT", "PENDING_PAYMENT", "PAID", "CANCELLED"}]
  /\ orders \in [CheckoutId -> {"ABSENT", "PENDING_PAYMENT", "PAID", "CANCELLED"}]
  /\ payment \in [CheckoutId -> PaymentRow \cup {None}]
  /\ charges \in [CheckoutId -> Nat]
  /\ verdict \in [CheckoutId -> Verdicts]
  /\ pc \in [Attempt -> {"idle", "done"} \cup InFlight]
  /\ target \in [Attempt -> CheckoutId \cup {None}]
  /\ answer \in [Attempt -> Answers]

Init ==
  /\ status = [c \in CheckoutId |-> "ABSENT"]
  /\ orders = [c \in CheckoutId |-> "ABSENT"]
  /\ payment = [c \in CheckoutId |-> None]
  /\ charges = [c \in CheckoutId |-> 0]
  /\ verdict \in [CheckoutId -> Verdicts]
  /\ pc = [a \in Attempt |-> "idle"]
  /\ target = [a \in Attempt |-> None]
  /\ answer = [a \in Attempt |-> "NONE"]

-----------------------------------------------------------------------------
(***************************************************************************)
(* The checkout's other life: placement, and the worker's auto-cancel.     *)
(***************************************************************************)
Move(c, to) == /\ status' = [status EXCEPT ![c] = to]
               /\ orders' = [orders EXCEPT ![c] = to]

PlaceCheckout(c) == /\ status[c] = "ABSENT"
                    /\ Move(c, "PENDING_PAYMENT")
                    /\ UNCHANGED <<payment, charges, verdict, pc, target, answer>>

\* The worker's transaction, as every payment transaction sees it.
AutoCancel(c) == /\ status[c] = "PENDING_PAYMENT"
                 /\ Move(c, "CANCELLED")
                 /\ UNCHANGED <<payment, charges, verdict, pc, target, answer>>

-----------------------------------------------------------------------------
(***************************************************************************)
(* An attempt.                                                             *)
(***************************************************************************)
Goto(a, l) == /\ pc' = [pc EXCEPT ![a] = l]
              /\ UNCHANGED answer

Finish(a, kind) == /\ pc' = [pc EXCEPT ![a] = "done"]
                   /\ answer' = [answer EXCEPT ![a] = kind]

\* findForBuyer: another buyer's checkout answers as an unknown one (INV-12).
Start(a, c) ==
  /\ pc[a] = "idle"
  /\ target' = [target EXCEPT ![a] = c]
  /\ \/ /\ status[c] # "ABSENT" /\ OwnerOf[c] = BuyerOf[a]
        /\ Goto(a, "claim")
     \/ /\ status[c] = "ABSENT" \/ OwnerOf[c] # BuyerOf[a]
        /\ Finish(a, "NOT_FOUND")
  /\ UNCHANGED <<status, orders, payment, charges, verdict>>

\* Mutant: the payment row is left to the settlement to write.
ClaimWithoutRow(a) ==
  LET c == target[a] IN
  /\ pc[a] = "claim"
  /\ \/ /\ status[c] = "PAID" /\ Finish(a, "ALREADY_PAID")
     \/ /\ status[c] = "CANCELLED" /\ Goto(a, "lookup")
     \/ /\ status[c] = "PENDING_PAYMENT" /\ Goto(a, "find")
  /\ UNCHANGED <<payment, status, orders, charges, verdict, target>>

\* The first attempt creates the row; a later one only counts itself, so a row
\* that says FAILED says so until this attempt too is over.
Claimed(row) ==
  IF row = None THEN [status |-> "PROCESSING", attempts |-> 1, ref |-> "NULL"]
                ELSE [row EXCEPT !.attempts = @ + 1]

\* Tx A: under the checkout's lock, decide whether to charge at all.
Claim(a) ==
  LET c == target[a] IN
  /\ pc[a] = "claim"
  /\ \/ /\ status[c] = "PAID"
        /\ Finish(a, "ALREADY_PAID")
        /\ UNCHANGED payment
     \/ /\ status[c] = "CANCELLED"
        /\ Goto(a, "lookup")
        /\ UNCHANGED payment
     \/ /\ status[c] = "PENDING_PAYMENT"
        /\ payment' = [payment EXCEPT ![c] = Claimed(@)]
        /\ Goto(a, "find")
  /\ UNCHANGED <<status, orders, charges, verdict, target>>

\* Mutant: a cancelled checkout is answered without asking the provider.
LookupSkipped(a) ==
  /\ pc[a] = "lookup"
  /\ Finish(a, "CANCELLED")
  /\ UNCHANGED <<status, orders, payment, charges, verdict, target>>

\* The checkout was cancelled: ask the provider whether it charged before.
Lookup(a) ==
  /\ pc[a] = "lookup"
  /\ \/ charges[target[a]] > 0 /\ Goto(a, "refund")
     \/ charges[target[a]] = 0 /\ Finish(a, "CANCELLED")
  /\ UNCHANGED <<status, orders, payment, charges, verdict, target>>

\* refundWithin: updateMany, so no row is no error.
Refunded(c) == payment' = [payment EXCEPT ![c] =
  IF @ = None THEN None ELSE [@ EXCEPT !.status = "REFUNDED", !.ref = "SET"]]

\* refundCancelled: the one write of a payment that does not lock the checkout.
RefundCancelled(a) ==
  /\ pc[a] = "refund"
  /\ Refunded(target[a])
  /\ Finish(a, "CANCELLED")
  /\ UNCHANGED <<status, orders, charges, verdict, target>>

\* capture: the store is consulted before the rule; a decline records nothing.
Find(a) ==
  LET c == target[a] IN
  /\ pc[a] = "find"
  /\ \/ charges[c] > 0 /\ Goto(a, "settle")
     \/ charges[c] = 0 /\ verdict[c] = "DECLINED" /\ Goto(a, "fail")
     \/ charges[c] = 0 /\ verdict[c] # "DECLINED" /\ Goto(a, "record")
  /\ UNCHANGED <<status, orders, payment, charges, verdict, target>>

\* Mutant: the charge is recorded on the strength of the read before it.
RecordAgain(a) ==
  /\ pc[a] = "record"
  /\ charges' = [charges EXCEPT ![target[a]] = @ + 1]
  /\ \/ verdict[target[a]] = "CAPTURED" /\ Goto(a, "settle")
     \/ verdict[target[a]] = "TIMEOUT" /\ Finish(a, "PENDING")
  /\ UNCHANGED <<status, orders, payment, verdict, target>>

\* record: INSERT … ON CONFLICT DO NOTHING; the loser reads the winner's charge.
\* TIMEOUT is "charged, answer lost".
Record(a) ==
  LET c == target[a] IN
  /\ pc[a] = "record"
  /\ \/ /\ charges[c] > 0
        /\ Goto(a, "settle")
        /\ UNCHANGED charges
     \/ /\ charges[c] = 0
        /\ charges' = [charges EXCEPT ![c] = @ + 1]
        /\ \/ verdict[c] = "CAPTURED" /\ Goto(a, "settle")
           \/ verdict[c] = "TIMEOUT" /\ Finish(a, "PENDING")
  /\ UNCHANGED <<status, orders, payment, verdict, target>>

Succeed(c) == /\ payment' = [payment EXCEPT ![c] = [@ EXCEPT !.status = "SUCCEEDED", !.ref = "SET"]]
              /\ Move(c, "PAID")

\* Mutants: the checkout is not read again after the charge; whatever is not
\* pending is refunded.
SettleOnTrust(a) ==
  /\ pc[a] = "settle"
  /\ Succeed(target[a])
  /\ Finish(a, "PAID")
  /\ UNCHANGED <<charges, verdict, target>>
SettleOrRefund(a) ==
  LET c == target[a] IN
  /\ pc[a] = "settle"
  /\ \/ /\ status[c] = "PENDING_PAYMENT" /\ Succeed(c) /\ Finish(a, "PAID")
     \/ /\ status[c] # "PENDING_PAYMENT" /\ Refunded(c) /\ Finish(a, "CANCELLED")
        /\ UNCHANGED <<status, orders>>
  /\ UNCHANGED <<charges, verdict, target>>

\* Tx B: what the charge means, now that the checkout has been read again.
Settle(a) ==
  LET c == target[a] IN
  /\ pc[a] = "settle"
  /\ \/ /\ status[c] = "PAID"
        /\ Finish(a, "ALREADY_PAID")
        /\ UNCHANGED <<status, orders, payment>>
     \/ /\ status[c] = "CANCELLED"
        /\ Refunded(c)
        /\ Finish(a, "CANCELLED")
        /\ UNCHANGED <<status, orders>>
     \/ /\ status[c] = "PENDING_PAYMENT"
        /\ Succeed(c)
        /\ Finish(a, "PAID")
  /\ UNCHANGED <<charges, verdict, target>>

\* Mutant: the row is given the provider's word for the failure.
MarkDeclined(a) ==
  /\ pc[a] = "fail"
  /\ payment' = [payment EXCEPT ![target[a]] = [@ EXCEPT !.status = "DECLINED"]]
  /\ Finish(a, "DECLINED")
  /\ UNCHANGED <<status, orders, charges, verdict, target>>

\* A decline is recorded only while the checkout is payable, on a PROCESSING row.
MarkFailed(a) ==
  LET c == target[a] IN
  /\ pc[a] = "fail"
  /\ payment' = [payment EXCEPT ![c] =
       IF status[c] = "PENDING_PAYMENT" /\ @ # None /\ @.status = "PROCESSING"
         THEN [@ EXCEPT !.status = "FAILED"] ELSE @]
  /\ Finish(a, "DECLINED")
  /\ UNCHANGED <<status, orders, charges, verdict, target>>

\* The process dies between two awaits.
Crash(a) == /\ a \in Mortal
            /\ pc[a] \in InFlight
            /\ Finish(a, "LOST")
            /\ UNCHANGED <<status, orders, payment, charges, verdict, target>>

Step(a) == \/ Claim(a) \/ Lookup(a) \/ RefundCancelled(a) \/ Find(a)
           \/ Record(a) \/ Settle(a) \/ MarkFailed(a)

Next == \/ \E c \in CheckoutId : PlaceCheckout(c) \/ AutoCancel(c)
        \/ \E a \in Attempt : Step(a) \/ Crash(a) \/ \E c \in CheckoutId : Start(a, c)

Spec == Init /\ [][Next]_vars

-----------------------------------------------------------------------------
(***************************************************************************)
(* Safety.                                                                 *)
(***************************************************************************)
Has(c, st) == payment[c] # None /\ payment[c].status = st

\* INV-3: whatever attempts overlap, the provider charges a checkout once.
ChargedOnce == \A c \in CheckoutId : charges[c] <= 1

\* The checkout, its payment row and the provider agree: paid exactly when the
\* payment succeeded, refunded only when cancelled, and either only for money
\* that moved.  They are written by different transactions of different attempts.
MoneyFollowsCheckout ==
  \A c \in CheckoutId :
    /\ Has(c, "SUCCEEDED") <=> status[c] = "PAID"
    /\ Has(c, "REFUNDED") => status[c] = "CANCELLED"
    /\ Has(c, "SUCCEEDED") \/ Has(c, "REFUNDED") => charges[c] > 0
    /\ payment[c] # None => (payment[c].ref = "SET" <=> payment[c].status \in {"SUCCEEDED", "REFUNDED"})

\* Money never moves unrecorded: once the provider has charged, the checkout has
\* a payment row that does not call the charge failed, so that an attempt lost
\* between the charge and tx B leaves something for the next one to resolve.
NoChargeUnrecorded ==
  \A c \in CheckoutId : charges[c] > 0 => payment[c] # None /\ payment[c].status # "FAILED"

\* One attempt settles a checkout and every other is told what is so: PAID is
\* answered at most once, DECLINED and CANCELLED never for a checkout that is
\* paid, PENDING only when money did move.
AnswersAreTrue ==
  \A a, b \in Attempt :
    /\ a # b /\ target[a] = target[b] => ~(answer[a] = "PAID" /\ answer[b] = "PAID")
    /\ answer[a] \in {"PAID", "ALREADY_PAID"} => Has(target[a], "SUCCEEDED")
    /\ answer[a] = "CANCELLED" => status[target[a]] = "CANCELLED"
    /\ answer[a] = "DECLINED" => charges[target[a]] = 0
    /\ answer[a] = "PENDING" => charges[target[a]] = 1

\* docs/domain-model.md, the illegal moves: a paid or cancelled checkout stays
\* so, a succeeded or refunded payment too, and a failed one never succeeds.
LegalMoves ==
  [][\A c \in CheckoutId :
       /\ status[c] \in {"PAID", "CANCELLED"} => status'[c] = status[c]
       /\ orders[c] \in {"PAID", "CANCELLED"} => orders'[c] = orders[c]
       /\ \A st \in {"SUCCEEDED", "REFUNDED", "FAILED"} : Has(c, st) => Has(c, st)']_vars

\* Payment as a whole: money moves once, pays a pending checkout or is returned
\* for a cancelled one.
money == [c \in CheckoutId |-> IF Has(c, "REFUNDED") THEN "returned"
                               ELSE IF charges[c] > 0 THEN "taken" ELSE "none"]
One == INSTANCE OnePayment
ImplementsOnePayment == One!Spec

-----------------------------------------------------------------------------
(***************************************************************************)
(* Progress.  A handler that is running takes its next step unless its     *)
(* process dies.  Buyers, placements and the worker owe nothing.           *)
(***************************************************************************)
FairSpec == Spec /\ \A a \in Attempt : WF_vars(Step(a))

Resolved(c) == Has(c, "SUCCEEDED") \/ Has(c, "REFUNDED")

\* "the next attempt resolves it" (D107, D111): an attempt that begins after the
\* provider has charged settles or refunds that charge, unless it dies too.
RetryResolves ==
  \A a \in Attempt, c \in CheckoutId :
    (target[a] = c /\ pc[a] = "claim" /\ charges[c] > 0)
      ~> (Resolved(c) \/ answer[a] = "LOST")

\* docs/failure-scenarios.md: a payment captured after the checkout was cancelled
\* "is refunded in full".
CaptureAfterCancelIsRefunded ==
  \A c \in CheckoutId : (status[c] = "CANCELLED" /\ charges[c] > 0) ~> Has(c, "REFUNDED")
=============================================================================
