--------------------------- MODULE PaymentProofs ----------------------------
(***************************************************************************)
(* Theorems about Payment, for any number of checkouts, buyers and         *)
(* attempts, and any of them dying at any point.                           *)
(*                                                                         *)
(* Books relates the three places that know about one checkout's money;    *)
(* Stage says what an attempt may count on at each await, given that every *)
(* other attempt and the worker run in between.  What makes Stage survive  *)
(* them is that a checkout's history only grows (Grown).                   *)
(***************************************************************************)
EXTENDS Payment, TLAPS

\* What is known of one checkout's money.
Books(c) ==
  /\ charges[c] \in {0, 1}
  /\ orders[c] = status[c]
  /\ status[c] = "ABSENT" => payment[c] = None /\ charges[c] = 0
  /\ Has(c, "SUCCEEDED") <=> status[c] = "PAID"
  /\ Has(c, "REFUNDED") => status[c] = "CANCELLED"
  /\ Has(c, "SUCCEEDED") \/ Has(c, "REFUNDED") => charges[c] = 1
  /\ payment[c] # None => (payment[c].ref = "SET" <=> payment[c].status \in {"SUCCEEDED", "REFUNDED"})
  /\ charges[c] = 1 => payment[c] # None /\ verdict[c] # "DECLINED"
  /\ Has(c, "FAILED") => verdict[c] = "DECLINED"

\* What an attempt may count on where it stands, and what its answer meant.
Stage(a) ==
  LET c == target[a] IN
  /\ pc[a] \in {"idle"} \cup InFlight => answer[a] = "NONE"
  /\ pc[a] # "idle" => c \in CheckoutId
  /\ pc[a] \in InFlight => status[c] # "ABSENT"
  /\ pc[a] \in {"find", "record", "settle", "fail"} => payment[c] # None
  /\ pc[a] \in {"lookup", "refund"} => status[c] = "CANCELLED"
  /\ pc[a] \in {"refund", "settle"} => charges[c] = 1
  /\ pc[a] = "record" => verdict[c] # "DECLINED"
  /\ pc[a] = "fail" => verdict[c] = "DECLINED"
  /\ answer[a] \in {"PAID", "ALREADY_PAID"} => Has(c, "SUCCEEDED")
  /\ answer[a] = "CANCELLED" => status[c] = "CANCELLED"
  /\ answer[a] = "DECLINED" => verdict[c] = "DECLINED"
  /\ answer[a] = "PENDING" => charges[c] = 1

\* One attempt at most is told that it paid.
OnePaid == \A a, b \in Attempt : a # b /\ target[a] = target[b]
                                   => ~(answer[a] = "PAID" /\ answer[b] = "PAID")

IInv == /\ TypeOK
        /\ \A c \in CheckoutId : Books(c)
        /\ \A a \in Attempt : Stage(a)
        /\ OnePaid

\* What no step undoes about a checkout.
Grown(c) ==
  /\ verdict'[c] = verdict[c]
  /\ charges[c] = 1 => charges'[c] = 1
  /\ payment[c] # None => payment'[c] # None
  /\ status[c] # "ABSENT" => status'[c] # "ABSENT"
  /\ status[c] = "CANCELLED" => status'[c] = "CANCELLED"
  /\ Has(c, "SUCCEEDED") => Has(c, "SUCCEEDED")'
  /\ Has(c, "REFUNDED") => Has(c, "REFUNDED")'
  /\ Has(c, "FAILED") => Has(c, "FAILED")'

-----------------------------------------------------------------------------
\* A step of others leaves an attempt's stage standing.
LEMMA StageStands ==
  ASSUME NEW a \in Attempt, Stage(a), \A c \in CheckoutId : Grown(c),
         pc'[a] = pc[a], target'[a] = target[a], answer'[a] = answer[a],
         TypeOK
  PROVE  Stage(a)'
<1>1. CASE pc[a] = "idle"
  BY <1>1 DEF Stage, InFlight
<1>2. CASE pc[a] # "idle"
  <2>1. target[a] \in CheckoutId /\ Grown(target[a])
    BY <1>2 DEF Stage
  <2> QED BY <2>1 DEF Stage, Grown, Has
<1> QED BY <1>1, <1>2

\* A step of one attempt: its own stage, the books it wrote, and the rest stands.
LEMMA OneMoves ==
  ASSUME IInv, NEW a \in Attempt, \A c \in CheckoutId : Grown(c),
         \A b \in Attempt : b # a => pc'[b] = pc[b] /\ target'[b] = target[b] /\ answer'[b] = answer[b],
         Stage(a)',
         answer'[a] = "PAID" => ~Has(target'[a], "SUCCEEDED")
  PROVE  (\A b \in Attempt : Stage(b)') /\ OnePaid'
<1>1. ASSUME NEW b \in Attempt, b # a PROVE Stage(b)'
  BY <1>1, StageStands DEF IInv
<1>2. OnePaid'
  <2>1. ASSUME NEW b \in Attempt, b # a, target'[a] = target'[b], answer'[a] = "PAID", answer'[b] = "PAID"
        PROVE  FALSE
    <3>1. Has(target[b], "SUCCEEDED")
      BY <2>1 DEF IInv, Stage
    <3> QED BY <2>1, <3>1
  <2> QED BY <2>1 DEF OnePaid, IInv
<1> QED BY <1>1, <1>2

\* A checkout whose rows a step leaves alone keeps its books and its history.
LEMMA BooksStand ==
  ASSUME NEW c \in CheckoutId, Books(c), status'[c] = status[c], orders'[c] = orders[c],
         payment'[c] = payment[c], charges'[c] = charges[c], verdict'[c] = verdict[c]
  PROVE  Books(c)' /\ Grown(c)
BY DEF Books, Grown, Has

\* A claimed row is a row, and keeps the status it had.
LEMMA ClaimedRow ==
  ASSUME NEW row \in PaymentRow \cup {None}
  PROVE  /\ Claimed(row) \in PaymentRow
         /\ Claimed(row) # None
         /\ Claimed(row).status = IF row = None THEN "PROCESSING" ELSE row.status
         /\ Claimed(row).ref = IF row = None THEN "NULL" ELSE row.ref
<1>1. CASE row = None
  BY <1>1, PayFacts DEF Claimed, PaymentRow
<1>2. CASE row # None
  <2>1. row.attempts \in Nat /\ row.attempts + 1 \in Nat
    BY <1>2 DEF PaymentRow
  <2> QED BY <1>2, <2>1, PayFacts DEF Claimed, PaymentRow
<1> QED BY <1>1, <1>2

\* Nor is a row whose status changed the absence of one.
LEMMA ChangedRow ==
  ASSUME NEW row \in PaymentRow, NEW st \in {"PROCESSING", "SUCCEEDED", "FAILED", "REFUNDED"}
  PROVE  /\ [row EXCEPT !.status = st] \in PaymentRow
         /\ [row EXCEPT !.status = st] # None
         /\ [row EXCEPT !.status = st].status = st
         /\ [row EXCEPT !.status = st].ref = row.ref
         /\ [row EXCEPT !.status = st, !.ref = "SET"] \in PaymentRow
         /\ [row EXCEPT !.status = st, !.ref = "SET"] # None
         /\ [row EXCEPT !.status = st, !.ref = "SET"].status = st
         /\ [row EXCEPT !.status = st, !.ref = "SET"].ref = "SET"
BY PayFacts DEF PaymentRow

\* The types survive every step.
LEMMA TypeStep == ASSUME IInv, [Next]_vars PROVE TypeOK'
<1> USE DEF IInv
<1>1. ASSUME NEW c \in CheckoutId, PlaceCheckout(c) \/ AutoCancel(c) PROVE TypeOK'
  BY <1>1 DEF TypeOK, PlaceCheckout, AutoCancel, Move
<1>2. ASSUME NEW a \in Attempt, NEW c \in CheckoutId, Start(a, c) PROVE TypeOK'
  BY <1>2 DEF TypeOK, Start, Goto, Finish, InFlight, Answers
<1>3. ASSUME NEW a \in Attempt, Claim(a) PROVE TypeOK'
  <2>1. target[a] \in CheckoutId
    BY <1>3 DEF Stage, Claim
  <2>2. payment' \in [CheckoutId -> PaymentRow \cup {None}]
    <3>1. CASE payment' = payment
      BY <3>1 DEF TypeOK
    <3>2. CASE payment' = [payment EXCEPT ![target[a]] = Claimed(@)]
      BY <2>1, <3>2, ClaimedRow DEF TypeOK
    <3> QED BY <1>3, <3>1, <3>2 DEF Claim
  <2> QED BY <1>3, <2>2 DEF TypeOK, Claim, Goto, Finish, InFlight, Answers
<1>4. ASSUME NEW a \in Attempt, Lookup(a) \/ Find(a) \/ Record(a) \/ Crash(a) PROVE TypeOK'
  <2>1. charges' \in [CheckoutId -> Nat]
    BY <1>4 DEF TypeOK, Lookup, Find, Record, Crash
  <2> QED BY <1>4, <2>1 DEF TypeOK, Lookup, Find, Record, Crash, Goto, Finish, InFlight, Answers
<1>5. ASSUME NEW a \in Attempt, RefundCancelled(a) \/ MarkFailed(a) \/ Settle(a) PROVE TypeOK'
  <2>1. target[a] \in CheckoutId /\ (pc[a] = "settle" => payment[target[a]] # None)
    BY <1>5 DEF Stage, RefundCancelled, MarkFailed, Settle
  <2>2. payment' \in [CheckoutId -> PaymentRow \cup {None}]
    <3>1. payment[target[a]] # None => payment[target[a]] \in PaymentRow
      BY <2>1 DEF TypeOK
    <3>2. PICK row \in PaymentRow \cup {None} : payment' = [payment EXCEPT ![target[a]] = row]
      <4>1. CASE RefundCancelled(a)
        BY <2>1, <3>1, <4>1, ChangedRow DEF TypeOK, RefundCancelled, Refunded
      <4>2. CASE MarkFailed(a)
        BY <2>1, <3>1, <4>2, ChangedRow DEF TypeOK, MarkFailed
      <4>3. CASE Settle(a)
        <5>1. payment[target[a]] \in PaymentRow
          BY <2>1, <3>1, <4>3 DEF Settle
        <5>2. CASE payment' = payment
          BY <2>1, <5>1, <5>2 DEF TypeOK
        <5>3. CASE Refunded(target[a])
          BY <2>1, <5>1, <5>3, ChangedRow DEF Refunded
        <5>4. CASE Succeed(target[a])
          <6>1. [payment[target[a]] EXCEPT !.status = "SUCCEEDED", !.ref = "SET"] \in PaymentRow
            BY <5>1, ChangedRow
          <6> QED BY <5>4, <6>1 DEF Succeed
        <5> QED BY <4>3, <5>2, <5>3, <5>4 DEF Settle
      <4> QED BY <1>5, <4>1, <4>2, <4>3
    <3> QED BY <2>1, <3>2 DEF TypeOK
  <2> QED BY <1>5, <2>2 DEF TypeOK, RefundCancelled, MarkFailed, Settle, Succeed, Move, Finish, Answers
<1>6. CASE UNCHANGED vars
  BY <1>6 DEF TypeOK, vars
<1> QED BY <1>1, <1>2, <1>3, <1>4, <1>5, <1>6 DEF Next, Step

\* Each step keeps every checkout's books, only adds to its history, and leaves
\* the attempt that took it where Stage says.
LEMMA InvStep ==
  ASSUME IInv, [Next]_vars
  PROVE  (\A c \in CheckoutId : Books(c)' /\ Grown(c)) /\ (\A a \in Attempt : Stage(a)') /\ OnePaid'
<1> USE DEF IInv
<1>1. ASSUME NEW d \in CheckoutId, PlaceCheckout(d) \/ AutoCancel(d)
      PROVE  (\A c \in CheckoutId : Books(c)' /\ Grown(c)) /\ (\A a \in Attempt : Stage(a)') /\ OnePaid'
  <2>1. ASSUME NEW c \in CheckoutId PROVE Books(c)' /\ Grown(c)
    <3>1. CASE c # d
      BY <1>1, <3>1, BooksStand DEF TypeOK, PlaceCheckout, AutoCancel, Move
    <3>2. CASE c = d
      <4>1. status'[d] = orders'[d] /\ status'[d] \in {"PENDING_PAYMENT", "CANCELLED"}
            /\ status[d] \notin {"CANCELLED", "PAID"}
        BY <1>1 DEF TypeOK, PlaceCheckout, AutoCancel, Move
      <4>2. UNCHANGED <<payment, charges, verdict>>
        BY <1>1 DEF PlaceCheckout, AutoCancel
      <4>3. Books(d)
        OBVIOUS
      <4>4. status[d] = "ABSENT" => ~Has(d, "REFUNDED")
        BY <4>3 DEF Books, Has
      <4> QED BY <3>2, <4>1, <4>2, <4>3, <4>4 DEF Books, Grown, Has
    <3> QED BY <3>1, <3>2
  <2>2. UNCHANGED <<pc, target, answer>>
    BY <1>1 DEF PlaceCheckout, AutoCancel
  <2> QED BY <2>1, <2>2, StageStands DEF OnePaid
\* What the steps of an attempt that write no row have in common.
<1>a. ASSUME NEW a \in Attempt, UNCHANGED <<status, orders, payment, charges, verdict>>,
             \A b \in Attempt : b # a => pc'[b] = pc[b] /\ target'[b] = target[b] /\ answer'[b] = answer[b],
             Stage(a)', answer'[a] # "PAID"
      PROVE  (\A c \in CheckoutId : Books(c)' /\ Grown(c)) /\ (\A b \in Attempt : Stage(b)') /\ OnePaid'
  <2>1. \A c \in CheckoutId : Books(c)' /\ Grown(c)
    BY <1>a, BooksStand
  <2> QED BY <1>a, <2>1, OneMoves
\* And of those that write the rows of the checkout they are for.
<1>b. ASSUME NEW a \in Attempt, target[a] \in CheckoutId, target' = target, verdict' = verdict,
             \A c \in CheckoutId : c # target[a] =>
               /\ status'[c] = status[c] /\ orders'[c] = orders[c]
               /\ payment'[c] = payment[c] /\ charges'[c] = charges[c],
             \A b \in Attempt : b # a => pc'[b] = pc[b] /\ answer'[b] = answer[b],
             Books(target[a])', Grown(target[a]), Stage(a)',
             answer'[a] = "PAID" => ~Has(target[a], "SUCCEEDED")
      PROVE  (\A c \in CheckoutId : Books(c)' /\ Grown(c)) /\ (\A b \in Attempt : Stage(b)') /\ OnePaid'
  <2>1. \A c \in CheckoutId : Books(c)' /\ Grown(c)
    BY <1>b, BooksStand
  <2> QED BY <1>b, <2>1, OneMoves
<1>2. ASSUME NEW a \in Attempt, NEW d \in CheckoutId, Start(a, d)
      PROVE  (\A c \in CheckoutId : Books(c)' /\ Grown(c)) /\ (\A b \in Attempt : Stage(b)') /\ OnePaid'
  <2>1. answer[a] = "NONE" /\ target'[a] = d
    BY <1>2 DEF TypeOK, Stage, Start
  <2>2. Stage(a)' /\ answer'[a] # "PAID"
    BY <1>2, <2>1 DEF TypeOK, Stage, Start, Goto, Finish, InFlight
  <2> QED BY <1>2, <1>a, <2>2 DEF TypeOK, Start, Goto, Finish
<1>3. ASSUME NEW a \in Attempt, Claim(a)
      PROVE  (\A c \in CheckoutId : Books(c)' /\ Grown(c)) /\ (\A b \in Attempt : Stage(b)') /\ OnePaid'
  <2> DEFINE c == target[a]
  <2>1. c \in CheckoutId /\ Books(c) /\ Stage(a) /\ pc[a] = "claim" /\ answer[a] = "NONE"
    BY <1>3 DEF Stage, Claim, InFlight
  <2>2. CASE payment' = payment /\ (status[c] = "PAID" \/ status[c] = "CANCELLED")
    <3>1. Stage(a)' /\ answer'[a] # "PAID"
      BY <1>3, <2>1, <2>2 DEF TypeOK, Stage, Books, Claim, Goto, Finish, InFlight, Has
    <3> QED BY <1>3, <1>a, <2>2, <3>1 DEF TypeOK, Claim, Goto, Finish
  <2>3. CASE /\ status[c] = "PENDING_PAYMENT"
             /\ payment' = [payment EXCEPT ![c] = Claimed(@)]
             /\ Goto(a, "find")
    <3>1. /\ payment'[c] # None
          /\ payment'[c].status = IF payment[c] = None THEN "PROCESSING" ELSE payment[c].status
          /\ payment'[c].ref = IF payment[c] = None THEN "NULL" ELSE payment[c].ref
      BY <2>1, <2>3, ClaimedRow DEF TypeOK
    <3>2. UNCHANGED <<status, orders, charges, verdict, target>>
      BY <1>3 DEF Claim
    <3>3. Books(c)' /\ Grown(c)
      BY <2>1, <2>3, <3>1, <3>2 DEF Books, Grown, Has
    <3>4. Stage(a)' /\ answer'[a] # "PAID"
      BY <2>1, <2>3, <3>1, <3>2 DEF TypeOK, Stage, Goto, InFlight, Has
    <3> HIDE DEF c
    <3>5. \A d \in CheckoutId : d # c => payment'[d] = payment[d]
      BY <2>3 DEF TypeOK
    <3> QED BY <1>b, <2>1, <2>3, <3>2, <3>3, <3>4, <3>5 DEF TypeOK, Goto, c
  <2> QED BY <1>3, <2>2, <2>3 DEF Claim
<1>4. ASSUME NEW a \in Attempt, Lookup(a) \/ Find(a) \/ Crash(a)
      PROVE  (\A c \in CheckoutId : Books(c)' /\ Grown(c)) /\ (\A b \in Attempt : Stage(b)') /\ OnePaid'
  <2>1. target[a] \in CheckoutId /\ Books(target[a]) /\ Stage(a) /\ answer[a] = "NONE"
    BY <1>4 DEF Stage, Lookup, Find, Crash, InFlight
  <2>2. Stage(a)' /\ answer'[a] # "PAID"
    BY <1>4, <2>1 DEF TypeOK, Stage, Books, Lookup, Find, Crash, Goto, Finish, InFlight
  <2> QED BY <1>4, <1>a, <2>2 DEF TypeOK, Lookup, Find, Crash, Goto, Finish
<1>5. ASSUME NEW a \in Attempt, Record(a)
      PROVE  (\A c \in CheckoutId : Books(c)' /\ Grown(c)) /\ (\A b \in Attempt : Stage(b)') /\ OnePaid'
  <2>1. target[a] \in CheckoutId /\ Books(target[a]) /\ Stage(a) /\ answer[a] = "NONE" /\ pc[a] = "record"
    BY <1>5 DEF Stage, Record, InFlight
  <2>2. charges'[target[a]] = 1 /\ \A d \in CheckoutId : d # target[a] => charges'[d] = charges[d]
    BY <1>5, <2>1 DEF TypeOK, Record, Books
  <2>3. UNCHANGED <<status, orders, payment, verdict, target>>
    BY <1>5 DEF Record
  <2>4. Books(target[a])' /\ Grown(target[a])
    BY <2>1, <2>2, <2>3 DEF Books, Grown, Stage, Has, InFlight
  <2>5. Stage(a)' /\ answer'[a] # "PAID"
    BY <1>5, <2>1, <2>2, <2>3 DEF TypeOK, Stage, Record, Goto, Finish, InFlight
  <2> QED BY <1>5, <1>b, <2>1, <2>2, <2>3, <2>4, <2>5 DEF TypeOK, Record, Goto, Finish
<1>6. ASSUME NEW a \in Attempt, RefundCancelled(a) \/ MarkFailed(a) \/ Settle(a)
      PROVE  (\A c \in CheckoutId : Books(c)' /\ Grown(c)) /\ (\A b \in Attempt : Stage(b)') /\ OnePaid'
  <2> DEFINE c == target[a]
  <2>1. /\ c \in CheckoutId /\ Books(c) /\ Stage(a) /\ pc[a] \in {"refund", "fail", "settle"}
        /\ payment[c] # None
    <3>1. c \in CheckoutId /\ Stage(a) /\ pc[a] \in {"refund", "fail", "settle"}
      BY <1>6 DEF Stage, RefundCancelled, MarkFailed, Settle
    <3>2. payment[c] # None
      BY <3>1 DEF Stage, Books
    <3> QED BY <3>1, <3>2
  <2>2. payment[c] \in PaymentRow
    BY <2>1 DEF TypeOK
  <2>3. /\ UNCHANGED <<charges, verdict, target>>
        /\ pc' = [pc EXCEPT ![a] = "done"]
        /\ \A b \in Attempt : b # a => answer'[b] = answer[b]
        /\ \A d \in CheckoutId : d # c =>
             status'[d] = status[d] /\ orders'[d] = orders[d] /\ payment'[d] = payment[d]
    BY <1>6, <2>1 DEF TypeOK, RefundCancelled, MarkFailed, Settle, Refunded, Succeed, Move, Finish
  <2>4. CASE /\ UNCHANGED <<status, orders>> /\ status[c] = "CANCELLED" /\ charges[c] = 1
             /\ Refunded(c) /\ answer'[a] = "CANCELLED"
    <3>1. payment'[c] = [payment[c] EXCEPT !.status = "REFUNDED", !.ref = "SET"]
      BY <2>1, <2>4 DEF TypeOK, Refunded
    <3>2. /\ payment'[c] # None /\ payment'[c].status = "REFUNDED" /\ payment'[c].ref = "SET"
          /\ ~Has(c, "SUCCEEDED")
      <4>1. ~Has(c, "SUCCEEDED")
        BY <2>1, <2>4 DEF Books
      <4> QED BY <2>2, <3>1, <4>1, PayFacts DEF PaymentRow
    <3>3. Books(c)' /\ Grown(c)
      BY <2>1, <2>3, <2>4, <3>2 DEF Books, Grown, Has
    <3>4. Stage(a)' /\ answer'[a] # "PAID"
      BY <2>1, <2>3, <2>4 DEF TypeOK, Stage, InFlight
    <3> QED BY <1>b, <2>1, <2>3, <2>4, <3>3, <3>4 DEF TypeOK
  <2>5. CASE /\ UNCHANGED <<status, orders>> /\ status[c] = "PENDING_PAYMENT"
             /\ payment[c].status = "PROCESSING" /\ verdict[c] = "DECLINED" /\ answer'[a] = "DECLINED"
             /\ payment' = [payment EXCEPT ![c] = [@ EXCEPT !.status = "FAILED"]]
    <3>1. payment'[c] = [payment[c] EXCEPT !.status = "FAILED"]
      BY <2>1, <2>5 DEF TypeOK
    <3>2. /\ payment'[c] # None /\ payment'[c].status = "FAILED"
          /\ payment'[c].ref = payment[c].ref
          /\ ~Has(c, "SUCCEEDED")
      <4>1. ~Has(c, "SUCCEEDED")
        BY <2>1, <2>5 DEF Books
      <4> QED BY <2>2, <3>1, <4>1, PayFacts DEF PaymentRow
    <3>3. Books(c)' /\ Grown(c)
      BY <2>1, <2>3, <2>5, <3>2 DEF Books, Grown, Has
    <3>4. Stage(a)' /\ answer'[a] # "PAID"
      BY <2>1, <2>3, <2>5 DEF TypeOK, Stage, InFlight
    <3> QED BY <1>b, <2>1, <2>3, <2>5, <3>3, <3>4 DEF TypeOK
  <2>6. CASE /\ UNCHANGED <<status, orders, payment>>
             /\ \/ answer'[a] = "DECLINED" /\ verdict[c] = "DECLINED"
                \/ answer'[a] = "ALREADY_PAID" /\ status[c] = "PAID"
    <3>1. Stage(a)' /\ answer'[a] # "PAID"
      BY <2>1, <2>3, <2>6 DEF TypeOK, Stage, Books, InFlight, Has
    <3> QED BY <1>a, <2>3, <2>6, <3>1 DEF TypeOK
  <2>7. CASE /\ status[c] = "PENDING_PAYMENT" /\ charges[c] = 1 /\ Succeed(c) /\ answer'[a] = "PAID"
    <3>1. /\ payment'[c] = [payment[c] EXCEPT !.status = "SUCCEEDED", !.ref = "SET"]
          /\ status'[c] = "PAID" /\ orders'[c] = "PAID"
      BY <2>1, <2>7 DEF TypeOK, Succeed, Move
    <3>2. payment'[c] # None /\ payment'[c].status = "SUCCEEDED" /\ payment'[c].ref = "SET"
      BY <2>2, <3>1, PayFacts DEF PaymentRow
    <3>3. Books(c)' /\ Grown(c)
      BY <2>1, <2>3, <2>7, <3>1, <3>2 DEF Books, Grown, Has
    <3>4. Stage(a)' /\ ~Has(c, "SUCCEEDED")
      <4>1. ~Has(c, "SUCCEEDED")
        BY <2>1, <2>7 DEF Books
      <4>2. target'[a] = c /\ pc'[a] = "done" /\ Has(c, "SUCCEEDED")'
        BY <2>1, <2>3, <3>2 DEF TypeOK, Has
      <4> QED BY <2>1, <2>7, <4>1, <4>2 DEF Stage, InFlight
    <3> QED BY <1>b, <2>1, <2>3, <2>7, <3>3, <3>4 DEF TypeOK
  <2>8. CASE RefundCancelled(a)
    BY <2>1, <2>4, <2>8 DEF TypeOK, Stage, RefundCancelled, Finish
  <2>9. CASE MarkFailed(a)
    <3>1. answer'[a] = "DECLINED" /\ verdict[c] = "DECLINED" /\ UNCHANGED <<status, orders>>
      BY <2>1, <2>9 DEF TypeOK, Stage, MarkFailed, Finish
    <3>2. CASE status[c] = "PENDING_PAYMENT" /\ payment[c].status = "PROCESSING"
      BY <2>1, <2>5, <2>9, <3>1, <3>2 DEF TypeOK, MarkFailed
    <3>3. CASE ~(status[c] = "PENDING_PAYMENT" /\ payment[c].status = "PROCESSING")
      <4>1. payment' = payment
        BY <2>1, <2>9, <3>3 DEF TypeOK, MarkFailed
      <4> QED BY <2>6, <3>1, <4>1
    <3> QED BY <3>2, <3>3
  <2>10. CASE Settle(a)
    <3>1. charges[c] = 1
      BY <2>1, <2>10 DEF Stage, Settle
    <3> QED BY <2>1, <2>4, <2>6, <2>7, <2>10, <3>1 DEF TypeOK, Settle, Finish
  <2> QED BY <1>6, <2>8, <2>9, <2>10
<1>7. CASE UNCHANGED vars
  BY <1>7, BooksStand, StageStands DEF vars, OnePaid
<1> QED BY <1>1, <1>2, <1>3, <1>4, <1>5, <1>6, <1>7 DEF Next, Step

\* In every reachable state each checkout's money is accounted for, and every
\* attempt can still count on what it has established.
THEOREM Invariance == Spec => []IInv
<1>1. Init => IInv
  BY DEF Init, IInv, TypeOK, Books, Stage, OnePaid, Has, InFlight, Answers, Verdicts
<1>2. IInv /\ [Next]_vars => IInv'
  BY TypeStep, InvStep DEF IInv
<1> QED BY <1>1, <1>2, PTL DEF Spec

\* Every variable keeps its type.
THEOREM TypeCorrect == Spec => []TypeOK
BY Invariance, PTL DEF IInv

\* INV-3: the provider charges a checkout at most once, however many attempts,
\* processes and crashes there are.
THEOREM AtMostOneCharge == Spec => []ChargedOnce
<1>1. IInv => ChargedOnce
  <2>1. \A n \in {0, 1} : n <= 1
    OBVIOUS
  <2> QED BY <2>1 DEF IInv, Books, ChargedOnce
<1> QED BY <1>1, Invariance, PTL

\* A checkout is paid exactly when its payment succeeded, and refunded only when
\* it was cancelled (SRS-FR-PAY-004).
THEOREM MoneyFollows == Spec => []MoneyFollowsCheckout
<1>1. IInv => MoneyFollowsCheckout
  <2>1. ASSUME IInv, NEW c \in CheckoutId PROVE Books(c) /\ (charges[c] = 1 => charges[c] > 0)
    BY <2>1 DEF IInv
  <2> QED BY <2>1 DEF Books, MoneyFollowsCheckout
<1> QED BY <1>1, Invariance, PTL

\* Money that moved always has a payment row that admits it, whoever died.
THEOREM ChargesAreRecorded == Spec => []NoChargeUnrecorded
<1>1. IInv => NoChargeUnrecorded
  <2>1. ASSUME IInv, NEW c \in CheckoutId, charges[c] > 0
        PROVE  payment[c] # None /\ payment[c].status # "FAILED"
    BY <2>1 DEF IInv, Books, Has
  <2> QED BY <2>1 DEF NoChargeUnrecorded
<1> QED BY <1>1, Invariance, PTL

\* No attempt is told what is not so, and one at most that it paid.
THEOREM AnswersHold == Spec => []AnswersAreTrue
<1>1. IInv => AnswersAreTrue
  <2>1. ASSUME IInv, NEW a \in Attempt, answer[a] = "DECLINED" PROVE charges[target[a]] = 0
    <3>1. Stage(a) /\ pc[a] # "idle"
      BY <2>1 DEF IInv, Stage
    <3> QED BY <2>1, <3>1 DEF IInv, Stage, Books
  <2> QED BY <2>1 DEF IInv, Stage, OnePaid, AnswersAreTrue
<1> QED BY <1>1, Invariance, PTL

-----------------------------------------------------------------------------
\* The illegal moves of docs/domain-model.md are never made: nothing leaves PAID,
\* CANCELLED, SUCCEEDED, REFUNDED or FAILED.
THEOREM MovesAreLegal == Spec => LegalMoves
<1>1. ASSUME IInv, IInv', [Next]_vars, NEW c \in CheckoutId
      PROVE  /\ status[c] \in {"PAID", "CANCELLED"} => status'[c] = status[c]
             /\ orders[c] \in {"PAID", "CANCELLED"} => orders'[c] = orders[c]
             /\ \A st \in {"SUCCEEDED", "REFUNDED", "FAILED"} : Has(c, st) => Has(c, st)'
  <2>1. Books(c) /\ Books(c)' /\ Grown(c)
    BY <1>1, InvStep DEF IInv
  <2>2. status[c] \in {"PAID", "CANCELLED"} => status'[c] = status[c]
    BY <2>1 DEF Books, Grown
  <2> QED BY <2>1, <2>2 DEF Books, Grown
<1>2. IInv /\ IInv' /\ [Next]_vars
        => [\A c \in CheckoutId :
              /\ status[c] \in {"PAID", "CANCELLED"} => status'[c] = status[c]
              /\ orders[c] \in {"PAID", "CANCELLED"} => orders'[c] = orders[c]
              /\ \A st \in {"SUCCEEDED", "REFUNDED", "FAILED"} : Has(c, st) => Has(c, st)']_vars
  BY <1>1
<1> QED BY <1>2, Invariance, PTL DEF Spec, LegalMoves

\* A step that touches one checkout moves the money of no other.
LEMMA MoneyMoves ==
  ASSUME NEW c \in CheckoutId,
         \A d \in CheckoutId : d # c => payment'[d] = payment[d] /\ charges'[d] = charges[d]
  PROVE  money' = [money EXCEPT ![c] = IF Has(c, "REFUNDED")' THEN "returned"
                                       ELSE IF charges'[c] > 0 THEN "taken" ELSE "none"]
BY DEF money, Has

\* What the money of one checkout is, given its books.
LEMMA MoneyOf ==
  ASSUME IInv, NEW c \in CheckoutId
  PROVE  /\ money[c] = "none" <=> charges[c] = 0
         /\ money[c] = "returned" <=> Has(c, "REFUNDED")
         /\ money[c] = "taken" <=> charges[c] = 1 /\ ~Has(c, "REFUNDED")
<1>1. Books(c)
  BY DEF IInv
<1>2. charges[c] = 0 \/ (charges[c] = 1 /\ charges[c] > 0)
  BY <1>1 DEF Books
<1> QED BY <1>1, <1>2 DEF Books, money

\* Each step takes, pays, returns, places or cancels as the abstract payment
\* does, or changes nothing it can see.
LEMMA OneStep == ASSUME IInv, IInv', [Next]_vars PROVE [One!Next]_(One!vars)
<1>1. ASSUME NEW c \in CheckoutId, PlaceCheckout(c) \/ AutoCancel(c) PROVE One!Next
  <2>1. money' = money
    BY <1>1 DEF PlaceCheckout, AutoCancel, money, Has
  <2>2. One!Place(c) \/ One!Cancel(c)
    BY <1>1, <2>1 DEF PlaceCheckout, AutoCancel, Move, One!Place, One!Cancel
  <2> QED BY <2>2 DEF One!Next
\* A step that leaves status and, of every checkout, what the money depends on.
<1>a. ASSUME status' = status,
             \A c \in CheckoutId : charges'[c] = charges[c] /\ (Has(c, "REFUNDED")' <=> Has(c, "REFUNDED"))
      PROVE  UNCHANGED One!vars
  BY <1>a DEF money, One!vars
<1>2. ASSUME NEW a \in Attempt, NEW c \in CheckoutId, c = target[a], Claim(a) \/ MarkFailed(a) PROVE UNCHANGED One!vars
  <2>1. c \in CheckoutId /\ (pc[a] = "fail" => payment[c] # None)
    BY <1>2 DEF IInv, Stage, Claim, MarkFailed, InFlight
  <2>2. payment[c] \in PaymentRow \cup {None}
    BY <2>1 DEF IInv, TypeOK
  <2>3. Has(c, "REFUNDED")' <=> Has(c, "REFUNDED")
    <3>1. CASE Claim(a)
      BY <2>1, <2>2, <3>1, ClaimedRow DEF IInv, TypeOK, Claim, Has
    <3>2. CASE MarkFailed(a)
      <4>1. payment[c] \in PaymentRow
        BY <2>1, <2>2, <3>2 DEF MarkFailed
      <4>2. payment'[c] = payment[c]
            \/ /\ payment[c].status = "PROCESSING"
               /\ payment'[c] = [payment[c] EXCEPT !.status = "FAILED"]
        BY <2>1, <3>2 DEF IInv, TypeOK, MarkFailed
      <4> QED BY <4>1, <4>2 DEF PaymentRow, Has
    <3> QED BY <1>2, <3>1, <3>2
  <2>4. \A d \in CheckoutId : d # c => payment'[d] = payment[d]
    BY <1>2 DEF IInv, TypeOK, Claim, MarkFailed
  <2> QED BY <1>2, <1>a, <2>3, <2>4 DEF Claim, MarkFailed, Has
<1>3. ASSUME NEW a \in Attempt, NEW c \in CheckoutId, c = target[a], Record(a) PROVE [One!Next]_(One!vars)
  <2>1. CASE charges' = charges
    BY <1>3, <1>a, <2>1 DEF Record, Has
  <2>2. CASE charges[c] = 0 /\ charges' = [charges EXCEPT ![c] = @ + 1]
    <3>1. /\ c \in CheckoutId /\ Books(c) /\ charges \in [CheckoutId -> Nat]
          /\ status[c] # "ABSENT"
      BY <1>3 DEF IInv, TypeOK, Stage, Record, InFlight
    <3>2. status[c] # "PAID" /\ ~Has(c, "REFUNDED") /\ status' = status /\ payment' = payment
      BY <1>3, <2>2, <3>1 DEF Books, Record
    <3>3. charges'[c] = 1 /\ \A d \in CheckoutId : d # c => charges'[d] = charges[d]
      BY <2>2, <3>1
    <3>4. money' = [money EXCEPT ![c] = "taken"]
      BY <3>1, <3>2, <3>3, MoneyMoves DEF Has
    <3>5. money[c] = "none"
      BY <2>2, <3>1, MoneyOf
    <3>6. One!Take(c)
      BY <3>1, <3>2, <3>4, <3>5 DEF One!Take
    <3> QED BY <3>1, <3>6 DEF One!Next
  <2> QED BY <1>3, <2>1, <2>2 DEF Record
<1>4. ASSUME NEW a \in Attempt, NEW c \in CheckoutId, c = target[a], RefundCancelled(a) \/ Settle(a) PROVE [One!Next]_(One!vars)
  <2>1. /\ c \in CheckoutId /\ Books(c) /\ charges[c] = 1
        /\ pc[a] = "refund" => status[c] = "CANCELLED"
    BY <1>4 DEF IInv, Stage, RefundCancelled, Settle
  <2>2. payment[c] \in PaymentRow /\ payment \in [CheckoutId -> PaymentRow \cup {None}]
    BY <2>1 DEF IInv, TypeOK, Books
  <2>3. CASE UNCHANGED <<status, payment, charges>>
    BY <1>a, <2>3 DEF Has
  <2>4. CASE Refunded(c) /\ status[c] = "CANCELLED" /\ UNCHANGED <<status, charges>>
    <3>1. /\ \A d \in CheckoutId : d # c => payment'[d] = payment[d]
          /\ payment'[c] = [payment[c] EXCEPT !.status = "REFUNDED", !.ref = "SET"]
      BY <2>1, <2>2, <2>4, PayFacts DEF Refunded
    <3>2. Has(c, "REFUNDED")'
      BY <2>2, <3>1, PayFacts DEF PaymentRow, Has
    <3>3. CASE Has(c, "REFUNDED")
      <4>1. \A d \in CheckoutId : Has(d, "REFUNDED")' <=> Has(d, "REFUNDED")
        BY <3>1, <3>2, <3>3 DEF Has
      <4> QED BY <1>a, <2>4, <4>1
    <3>4. CASE ~Has(c, "REFUNDED")
      <4>1. money' = [money EXCEPT ![c] = "returned"]
        BY <2>1, <2>4, <3>1, <3>2, MoneyMoves
      <4>2. money[c] = "taken"
        BY <2>1, <3>4, MoneyOf
      <4>3. One!Return(c)
        BY <2>4, <4>1, <4>2 DEF One!Return
      <4> QED BY <2>1, <4>3 DEF One!Next
    <3> QED BY <3>3, <3>4
  <2>5. CASE Succeed(c) /\ status[c] = "PENDING_PAYMENT" /\ charges' = charges
    <3>1. /\ \A d \in CheckoutId : d # c => payment'[d] = payment[d]
          /\ payment'[c] = [payment[c] EXCEPT !.status = "SUCCEEDED", !.ref = "SET"]
      BY <2>1, <2>2, <2>5 DEF Succeed
    <3>2. ~Has(c, "REFUNDED")' /\ ~Has(c, "REFUNDED")
      BY <2>1, <2>2, <2>5, <3>1 DEF PaymentRow, Has, Books
    <3>3. \A d \in CheckoutId : Has(d, "REFUNDED")' <=> Has(d, "REFUNDED")
      BY <3>1, <3>2 DEF Has
    <3>4. money' = money
      BY <2>5, <3>3 DEF money
    <3>5. money[c] = "taken"
      BY <2>1, <3>2, MoneyOf
    <3>6. One!Pay(c)
      BY <2>5, <3>4, <3>5 DEF One!Pay, Succeed, Move
    <3> QED BY <2>1, <3>6 DEF One!Next
  <2> QED BY <1>4, <2>1, <2>3, <2>4, <2>5 DEF RefundCancelled, Settle
<1>5. ASSUME NEW a \in Attempt, Lookup(a) \/ Find(a) \/ Crash(a) \/ \E c \in CheckoutId : Start(a, c)
      PROVE  UNCHANGED One!vars
  BY <1>5, <1>a DEF Lookup, Find, Crash, Start, Has
<1>6. CASE UNCHANGED vars
  BY <1>6, <1>a DEF vars, Has
<1>7. \A a \in Attempt : Step(a) => target[a] \in CheckoutId
  BY DEF IInv, Stage, Step, Claim, Lookup, RefundCancelled, Find, Record, Settle, MarkFailed
<1> QED BY <1>1, <1>2, <1>3, <1>4, <1>5, <1>6, <1>7 DEF Next, Step

\* Whatever attempts overlap, die or are repeated, they implement the payment
\* that has no attempts in it.
THEOREM PaymentIsOne == Spec => ImplementsOnePayment
<1>1. Init => One!Init
  BY DEF Init, One!Init, money, Has
<1>2. IInv /\ IInv' /\ [Next]_vars => [One!Next]_(One!vars)
  BY OneStep
<1> QED BY <1>1, <1>2, Invariance, PTL DEF Spec, ImplementsOnePayment, One!Spec
=============================================================================
