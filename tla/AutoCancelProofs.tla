-------------------------- MODULE AutoCancelProofs --------------------------
(***************************************************************************)
(* Theorems about AutoCancel, for any number of processes, checkouts and   *)
(* products, any batch size and any int4 bound.                            *)
(*                                                                         *)
(* Chain says how the scheduler's variables hang together in one process,  *)
(* Divided that no checkout is in two open transactions.                   *)
(***************************************************************************)
EXTENDS AutoCancel, TLAPS

\* A process that is down has nothing; an open batch belongs to a run in flight,
\* a run and a tick to an open connection, and a closed connection to a process
\* that was told to stop.
Chain(w) == /\ ~up[w] => ~stopped[w] /\ ~open[w]
            /\ batch[w] # {} => run[w] = "claimed"
            /\ run[w] # "none" => open[w] /\ ~timer[w]
            /\ timer[w] => open[w] /\ up[w] /\ ~stopped[w]
            /\ up[w] /\ ~open[w] => stopped[w]

\* Two runs, in one process after another or in two, never cancel one checkout
\* together: SKIP LOCKED divides the due ones.
Divided == \A v, w \in Process : v # w => batch[v] \cap batch[w] = {}

IInv == TypeOK /\ (\A w \in Process : Chain(w)) /\ Divided

-----------------------------------------------------------------------------
\* A batch that leaves takes nothing of another one with it.
LEMMA LeaveTypes ==
  ASSUME IInv, NEW ids \in SUBSET pending, Leave(ids)
  PROVE  /\ pending' \subseteq Checkout
         /\ before' \subseteq pending' \X pending'
         /\ due' \subseteq pending'
BY SMTT(30) DEF IInv, TypeOK, Leave

LEMMA TypeStep == ASSUME IInv, [Next]_vars PROVE TypeOK'
<1> USE LimitsAreNat DEF IInv, TypeOK
<1>1. ASSUME NEW w \in Process, Claim(w) PROVE TypeOK'
  <2>1. PICK ids \in SUBSET due : /\ batch' = [batch EXCEPT ![w] = ids]
                                  /\ run' = [run EXCEPT ![w] = IF ids = {} THEN "settled" ELSE "claimed"]
    BY <1>1 DEF Claim
  <2> QED BY <1>1, <2>1 DEF Claim, rows
<1>2. ASSUME NEW w \in Process, Commit(w) PROVE TypeOK'
  <2>1. available' \in [Product -> 0..MaxInt]
    BY <1>2 DEF Commit, Fits
  <2>2. \A v \in Process : batch'[v] \subseteq pending'
    BY <1>2 DEF Commit, Leave, Divided
  <2>3. batch[w] \in SUBSET pending
    OBVIOUS
  <2>4. Leave(batch[w])
    BY <1>2 DEF Commit
  <2>5. /\ pending' \subseteq Checkout
        /\ before' \subseteq pending' \X pending'
        /\ due' \subseteq pending'
    BY <2>3, <2>4, LeaveTypes
  <2>6. batch' \in [Process -> SUBSET pending']
    <3>1. batch' = [v \in Process |-> batch'[v]]
      BY <1>2 DEF Commit
    <3> QED BY <2>2, <3>1
  <2> QED BY <1>2, <2>1, <2>5, <2>6 DEF Commit
<1>3. ASSUME NEW w \in Process, Overflow(w) \/ Fail(w) PROVE TypeOK'
  <2>1. RollBack(w)
    BY <1>3 DEF Overflow, Fail
  <2>2. faults' \in 0..MaxFaults
    BY <1>3 DEF Overflow, Fail
  <2> QED BY <2>1, <2>2 DEF RollBack, rows
<1>4. ASSUME NEW w \in Process, Tick(w) \/ Finish(w) \/ Start(w) \/ Signal(w) \/ Disconnect(w)
      PROVE  TypeOK'
  BY <1>4 DEF Tick, Finish, Start, Signal, Disconnect, rows
<1>5. ASSUME NEW w \in Process, Exit(w) \/ Crash(w) PROVE TypeOK'
  <2>1. Gone(w)
    BY <1>5 DEF Exit, Crash
  <2>2. faults' \in 0..MaxFaults
    BY <1>5 DEF Exit, Crash
  <2> QED BY <2>1, <2>2 DEF Gone, rows
<1>6. ASSUME NEW c \in Checkout, Place(c) PROVE TypeOK'
  <2>1. \A p \in Product : available[p] - ItemsOf[c][p] \in 0..MaxInt
    BY <1>6, ItemsAreCounts DEF Place
  <2> QED BY <1>6, <2>1 DEF Place, processes
<1>7. ASSUME NEW c \in Checkout, Age(c) PROVE TypeOK'
  BY <1>7 DEF Age, processes
<1>8. ASSUME NEW c \in Checkout, Settle(c) PROVE TypeOK'
  <2>1. {c} \in SUBSET pending /\ Leave({c})
    BY <1>8 DEF Settle
  <2>2. /\ pending' \subseteq Checkout
        /\ before' \subseteq pending' \X pending'
        /\ due' \subseteq pending'
    BY <2>1, LeaveTypes
  <2>3. batch' \in [Process -> SUBSET pending']
    BY <1>8 DEF Settle, Leave, Locked, processes
  <2> QED BY <1>8, <2>2, <2>3 DEF Settle, processes
<1>9. ASSUME NEW p \in Product, NEW n \in 0..MaxInt, SetAvailable(p, n) PROVE TypeOK'
  BY <1>9 DEF SetAvailable, processes
<1>10. CASE UNCHANGED vars
  BY <1>10 DEF vars, rows, processes
<1> QED
  BY <1>1, <1>2, <1>3, <1>4, <1>5, <1>6, <1>7, <1>8, <1>9, <1>10 DEF Next, Environment, Step

LEMMA ChainStep == ASSUME IInv, [Next]_vars, NEW v \in Process PROVE Chain(v)'
<1> USE DEF IInv, TypeOK, Chain
<1>1. ASSUME NEW w \in Process, Claim(w) PROVE Chain(v)'
  <2>1. PICK ids : /\ batch' = [batch EXCEPT ![w] = ids]
                   /\ run' = [run EXCEPT ![w] = IF ids = {} THEN "settled" ELSE "claimed"]
    BY <1>1 DEF Claim
  <2> QED BY <1>1, <2>1 DEF Claim
<1>2. ASSUME NEW w \in Process, Commit(w) \/ Overflow(w) \/ Fail(w) PROVE Chain(v)'
  BY <1>2 DEF Commit, Overflow, Fail, RollBack
<1>3. ASSUME NEW w \in Process, Tick(w) \/ Finish(w) PROVE Chain(v)'
  BY <1>3 DEF Tick, Finish
<1>4. ASSUME NEW w \in Process, Start(w) \/ Signal(w) \/ Disconnect(w) PROVE Chain(v)'
  BY <1>4 DEF Start, Signal, Disconnect
<1>5. ASSUME NEW w \in Process, Exit(w) \/ Crash(w) PROVE Chain(v)'
  BY <1>5 DEF Exit, Crash, Gone
<1>6. ASSUME NEW c \in Checkout, Place(c) \/ Age(c) \/ Settle(c) PROVE Chain(v)'
  BY <1>6 DEF Place, Age, Settle, processes
<1>7. ASSUME NEW p \in Product, NEW n \in 0..MaxInt, SetAvailable(p, n) PROVE Chain(v)'
  BY <1>7 DEF SetAvailable, processes
<1>8. CASE UNCHANGED vars
  BY <1>8 DEF vars, processes
<1> QED
  BY <1>1, <1>2, <1>3, <1>4, <1>5, <1>6, <1>7, <1>8 DEF Next, Environment, Step

LEMMA DividedStep == ASSUME IInv, [Next]_vars PROVE Divided'
<1> USE DEF IInv, TypeOK, Divided
<1>1. ASSUME NEW w \in Process, Claim(w) PROVE Divided'
  <2>1. PICK ids \in SUBSET {c \in due : ~Locked(c)} : batch' = [batch EXCEPT ![w] = ids]
    BY <1>1 DEF Claim
  <2> QED BY <2>1 DEF Locked
<1>2. ASSUME NEW w \in Process, batch' = [batch EXCEPT ![w] = {}] PROVE Divided'
  BY <1>2
<1>3. ASSUME batch' = batch PROVE Divided'
  BY <1>3
<1>4. ASSUME NEW w \in Process, Commit(w) \/ Overflow(w) \/ Fail(w) \/ Exit(w) \/ Crash(w)
      PROVE  batch' = [batch EXCEPT ![w] = {}]
  BY <1>4 DEF Commit, Overflow, Fail, RollBack, Exit, Crash, Gone
<1>5. ASSUME NEW w \in Process, Tick(w) \/ Finish(w) \/ Start(w) \/ Signal(w) \/ Disconnect(w)
      PROVE  batch' = batch
  BY <1>5 DEF Tick, Finish, Start, Signal, Disconnect
<1>6. ASSUME NEW c \in Checkout, Place(c) \/ Age(c) \/ Settle(c) PROVE batch' = batch
  BY <1>6 DEF Place, Age, Settle, processes
<1>7. ASSUME NEW p \in Product, NEW n \in 0..MaxInt, SetAvailable(p, n) PROVE batch' = batch
  BY <1>7 DEF SetAvailable, processes
<1>8. CASE UNCHANGED vars
  BY <1>8 DEF vars, processes
<1> QED
  BY <1>1, <1>2, <1>3, <1>4, <1>5, <1>6, <1>7, <1>8 DEF Next, Environment, Step

LEMMA Initially == Init => IInv
BY LimitsAreNat DEF Init, IInv, TypeOK, Chain, Divided

LEMMA Inductive == IInv /\ [Next]_vars => IInv'
BY TypeStep, ChainStep, DividedStep DEF IInv

-----------------------------------------------------------------------------
\* The variables keep their types: in particular every shelf stays within the
\* column, and what a run holds is always still pending.
THEOREM TypeCorrect == Spec => []TypeOK
<1>1. IInv => TypeOK
  BY DEF IInv
<1> QED BY <1>1, Initially, Inductive, PTL DEF Spec

\* startInterval never has a tick armed beside a run in flight or after stop().
THEOREM OneRunAlways == Spec => []OneRunAtATime
<1>1. IInv => OneRunAtATime
  BY DEF IInv, TypeOK, Chain, OneRunAtATime
<1> QED BY <1>1, Initially, Inductive, PTL DEF Spec

\* No run is ever on a closed connection.
THEOREM NoRunAfterDisconnectAlways == Spec => []NoRunAfterDisconnect
<1>1. IInv => NoRunAfterDisconnect
  BY DEF IInv, TypeOK, Chain, NoRunAfterDisconnect
<1> QED BY <1>1, Initially, Inductive, PTL DEF Spec

\* "two runs — in this process or another — divide the due checkouts between them
\* instead of both claiming one", however many processes run.
THEOREM RunsDivideTheDue == Spec => []Divided
<1>1. IInv => Divided
  BY DEF IInv
<1> QED BY <1>1, Initially, Inductive, PTL DEF Spec
=============================================================================
