----------------------------- MODULE AutoCancel -----------------------------
(***************************************************************************)
(* The auto-cancel worker: the processes that run it, the scheduler inside *)
(* each of them, and the batches they take from the unpaid checkouts.      *)
(*                                                                         *)
(* A process is started, runs its job at once and again an interval after  *)
(* each run ends, is asked to stop by a signal, and may die at any moment. *)
(* Time is what it decides: the unpaid checkouts in the order of placedAt, *)
(* and which of them have passed the payment window.  A checkout that      *)
(* leaves PENDING_PAYMENT leaves the model, and its id stands for a later  *)
(* one: arrivals never end, so a batch that is not oldest-first starves    *)
(* somebody.                                                               *)
(*                                                                         *)
(* Left to module Placement: the inventory rows a restock locks one by     *)
(* one, and what it does to orders.  Here a run takes its checkout rows    *)
(* in one step and commits in another.                                     *)
(***************************************************************************)
EXTENDS Integers, FiniteSets, FiniteSetsExt

CONSTANTS
  Process,     \* worker processes
  Checkout,    \* ids of unpaid checkouts
  Product,
  ItemsOf,     \* the units each checkout took off the shelf, by product
  MaxInt,      \* the largest inventory.available, Postgres INTEGER's
  BatchSize,   \* AUTO_CANCEL_BATCH_SIZE
  MaxFaults    \* bound: runs that fail and processes that die

ASSUME BatchIsPositive == BatchSize \in Nat \ {0}
ASSUME LimitsAreNat == /\ MaxInt \in Nat
                       /\ MaxFaults \in Nat
ASSUME ItemsAreCounts == ItemsOf \in [Checkout -> [Product -> Nat]]

VARIABLES
  \* committed rows
  pending,    \* the checkouts that are PENDING_PAYMENT
  before,     \* <<c, d>>: c was placed before d, both pending
  due,        \* those past the payment window
  available,  \* inventory.available
  \* each process
  up,         \* the process is running
  timer,      \* startInterval's handle: a tick is armed
  run,        \* where the run in flight stands
  stopped,    \* startInterval's stopped
  open,       \* the Prisma client is connected
  batch,      \* the checkout rows its transaction has updated, uncommitted
  faults      \* failures so far

rows      == <<pending, before, due, available>>
processes == <<up, timer, run, stopped, open, batch>>
vars      == <<rows, processes, faults>>

TypeOK ==
  /\ pending \subseteq Checkout
  /\ before \subseteq pending \X pending
  /\ due \subseteq pending
  /\ available \in [Product -> 0..MaxInt]
  /\ up \in [Process -> BOOLEAN]
  /\ timer \in [Process -> BOOLEAN]
  /\ run \in [Process -> {"none", "started", "claimed", "settled"}]
  /\ stopped \in [Process -> BOOLEAN]
  /\ open \in [Process -> BOOLEAN]
  /\ batch \in [Process -> SUBSET pending]
  /\ faults \in 0..MaxFaults

Init ==
  /\ pending = {}
  /\ before = {}
  /\ due = {}
  /\ available \in [Product -> 0..MaxInt]
  /\ up = [w \in Process |-> FALSE]
  /\ timer = [w \in Process |-> FALSE]
  /\ run = [w \in Process |-> "none"]
  /\ stopped = [w \in Process |-> FALSE]
  /\ open = [w \in Process |-> FALSE]
  /\ batch = [w \in Process |-> {}]
  /\ faults = 0

-----------------------------------------------------------------------------
(***************************************************************************)
(* One run: cancelExpired.                                                 *)
(***************************************************************************)
Locked(c) == \E w \in Process : c \in batch[w]

\* What a cancelled batch puts back on the shelf of p.
Units(ids, p) == LET items(c) == ItemsOf[c][p] IN MapThenSumSet(items, ids)

\* `increment` stays within the column.
Fits(ids) == \A p \in Product : available[p] + Units(ids, p) \in 0..MaxInt

\* Those checkouts leave PENDING_PAYMENT.
Leave(ids) == /\ pending' = pending \ ids
              /\ before' = {e \in before : e[1] \notin ids /\ e[2] \notin ids}
              /\ due' = due \ ids

\* Mutant: the due rows are taken in no order, the latest placed first.
LatestFirst(ids, free) == \A c \in ids, d \in free \ ids : <<d, c>> \in before

\* ORDER BY "placedAt".
OldestFirst(ids, free) == \A c \in ids, d \in free \ ids : <<c, d>> \in before

\* UPDATE … WHERE id IN (SELECT … ORDER BY "placedAt" LIMIT batchSize FOR UPDATE
\* SKIP LOCKED): the oldest due checkouts no other run holds.  The cutoff is read
\* from the clock just before; one that becomes due in between only waits for
\* the next run.  An empty batch ends the run.
Claim(w) ==
  /\ run[w] = "started"
  /\ LET free == {c \in due : ~Locked(c)} IN
       \E ids \in SUBSET free :
         /\ Cardinality(ids) = Min({BatchSize, Cardinality(free)})
         /\ OldestFirst(ids, free)
         /\ batch' = [batch EXCEPT ![w] = ids]
         /\ run' = [run EXCEPT ![w] = IF ids = {} THEN "settled" ELSE "claimed"]
  /\ UNCHANGED <<rows, up, timer, stopped, open, faults>>

\* Mutant: the batch's rows are cancelled without checking that they fit.
CommitWrapping(w) ==
  /\ run[w] = "claimed"
  /\ available' = [p \in Product |-> available[p] + Units(batch[w], p)]
  /\ Leave(batch[w])
  /\ batch' = [batch EXCEPT ![w] = {}]
  /\ run' = [run EXCEPT ![w] = "settled"]
  /\ UNCHANGED <<up, timer, stopped, open, faults>>

\* Every product is incremented and the transaction commits.
Commit(w) ==
  /\ run[w] = "claimed"
  /\ Fits(batch[w])
  /\ available' = [p \in Product |-> available[p] + Units(batch[w], p)]
  /\ Leave(batch[w])
  /\ batch' = [batch EXCEPT ![w] = {}]
  /\ run' = [run EXCEPT ![w] = "settled"]
  /\ UNCHANGED <<up, timer, stopped, open, faults>>

\* AutoCancelJob.run: a failure is logged and the run resolves all the same.
RollBack(w) == /\ batch' = [batch EXCEPT ![w] = {}]
               /\ run' = [run EXCEPT ![w] = "settled"]
               /\ UNCHANGED <<rows, up, timer, stopped, open>>

\* "integer out of range": one increment aborts the batch it is in.
Overflow(w) == /\ run[w] = "claimed"
               /\ ~Fits(batch[w])
               /\ RollBack(w)
               /\ UNCHANGED faults

\* Any other failure: the 30 s timeout, a lost connection.
Fail(w) == /\ run[w] \in {"started", "claimed"}
           /\ faults < MaxFaults
           /\ faults' = faults + 1
           /\ RollBack(w)

-----------------------------------------------------------------------------
(***************************************************************************)
(* The scheduler and its process.                                          *)
(***************************************************************************)
\* Mutant: an interval, not a chain: the next tick is armed as this one starts.
TickOfInterval(w) == /\ timer[w]
                     /\ run' = [run EXCEPT ![w] = "started"]
                     /\ UNCHANGED <<rows, up, timer, stopped, open, batch, faults>>

\* The timer fires and the job is called.
Tick(w) == /\ timer[w]
           /\ timer' = [timer EXCEPT ![w] = FALSE]
           /\ run' = [run EXCEPT ![w] = "started"]
           /\ UNCHANGED <<rows, up, stopped, open, batch, faults>>

\* Mutant: the finally does not look at `stopped`.
FinishArming(w) == /\ run[w] = "settled"
                   /\ run' = [run EXCEPT ![w] = "none"]
                   /\ timer' = [timer EXCEPT ![w] = TRUE]
                   /\ UNCHANGED <<rows, up, stopped, open, batch, faults>>

\* The finally: the next tick is armed unless stop() has been called.
Finish(w) == /\ run[w] = "settled"
             /\ run' = [run EXCEPT ![w] = "none"]
             /\ timer' = [timer EXCEPT ![w] = ~stopped[w]]
             /\ UNCHANGED <<rows, up, stopped, open, batch, faults>>

\* bootstrap: startInterval ticks at once.
Start(w) == /\ ~up[w]
            /\ up' = [up EXCEPT ![w] = TRUE]
            /\ open' = [open EXCEPT ![w] = TRUE]
            /\ run' = [run EXCEPT ![w] = "started"]
            /\ UNCHANGED <<rows, timer, stopped, batch, faults>>

\* SIGTERM or SIGINT, in any order and either once: stop() up to its await.
Signal(w) == /\ up[w]
             /\ stopped' = [stopped EXCEPT ![w] = TRUE]
             /\ timer' = [timer EXCEPT ![w] = FALSE]
             /\ UNCHANGED <<rows, up, run, open, batch, faults>>

\* Mutant: stop() does not await the run in flight.
DisconnectAtOnce(w) == /\ up[w] /\ stopped[w] /\ open[w]
                       /\ open' = [open EXCEPT ![w] = FALSE]
                       /\ UNCHANGED <<rows, up, timer, run, stopped, batch, faults>>

\* `await inFlight`, then prisma.$disconnect().
Disconnect(w) == /\ up[w] /\ stopped[w] /\ open[w]
                 /\ run[w] = "none"
                 /\ open' = [open EXCEPT ![w] = FALSE]
                 /\ UNCHANGED <<rows, up, timer, run, stopped, batch, faults>>

\* The process is gone, and with it everything it only had in memory; an open
\* transaction is rolled back by the server.
Gone(w) == /\ up' = [up EXCEPT ![w] = FALSE]
           /\ timer' = [timer EXCEPT ![w] = FALSE]
           /\ run' = [run EXCEPT ![w] = "none"]
           /\ stopped' = [stopped EXCEPT ![w] = FALSE]
           /\ open' = [open EXCEPT ![w] = FALSE]
           /\ batch' = [batch EXCEPT ![w] = {}]
           /\ UNCHANGED rows

\* process.exit(0).
Exit(w) == /\ up[w] /\ stopped[w] /\ ~open[w]
           /\ Gone(w)
           /\ UNCHANGED faults

Crash(w) == /\ up[w]
            /\ faults < MaxFaults
            /\ faults' = faults + 1
            /\ Gone(w)

Step(w) == \/ Claim(w) \/ Commit(w) \/ Overflow(w)
           \/ Tick(w) \/ Finish(w) \/ Start(w) \/ Disconnect(w) \/ Exit(w)

-----------------------------------------------------------------------------
(***************************************************************************)
(* What happens to checkouts and shelves outside the worker.               *)
(***************************************************************************)
Place(c) == /\ c \notin pending
            /\ \A p \in Product : ItemsOf[c][p] <= available[p]
            /\ available' = [p \in Product |-> available[p] - ItemsOf[c][p]]
            /\ pending' = pending \cup {c}
            /\ before' = before \cup (pending \X {c})
            /\ UNCHANGED <<due, processes, faults>>

\* The window passes, for the oldest first.
Age(c) == /\ c \in pending \ due
          /\ \A d \in pending : <<d, c>> \in before => d \in due
          /\ due' = due \cup {c}
          /\ UNCHANGED <<pending, before, available, processes, faults>>

\* The settlement of a payment, which waits for a run that holds the row.
Settle(c) == /\ c \in pending
             /\ ~Locked(c)
             /\ Leave({c})
             /\ UNCHANGED <<available, processes, faults>>

\* setInventory writes any count the contract admits.
SetAvailable(p, n) == /\ available' = [available EXCEPT ![p] = n]
                      /\ UNCHANGED <<pending, before, due, processes, faults>>

Environment == \/ \E c \in Checkout : Place(c) \/ Age(c) \/ Settle(c)
               \/ \E p \in Product, n \in 0..MaxInt : SetAvailable(p, n)
               \/ \E w \in Process : Signal(w) \/ Fail(w) \/ Crash(w)

Next == Environment \/ \E w \in Process : Step(w)

Spec == Init /\ [][Next]_vars

-----------------------------------------------------------------------------
(***************************************************************************)
(* Safety.                                                                 *)
(***************************************************************************)
\* "a slow run can never overlap the next one in this process": a tick is armed
\* only while no run is in flight, and never once the process was told to stop,
\* whichever of the signal, the timer and the end of a run comes first.
OneRunAtATime ==
  \A w \in Process : timer[w] => /\ run[w] = "none"
                                 /\ up[w] /\ ~stopped[w]

\* "stop the interval — which waits for a run in flight — disconnect, and only
\* then leave": no run, no armed tick and no open batch outlives the connection.
NoRunAfterDisconnect ==
  \A w \in Process : ~open[w] => /\ run[w] = "none"
                                 /\ ~timer[w]
                                 /\ batch[w] = {}

-----------------------------------------------------------------------------
(***************************************************************************)
(* Progress.  A process takes its next step unless it dies; one that is    *)
(* down is started again, as the deployment must see to; checkouts,        *)
(* payments, sellers, signals and failures owe nothing, and failures are   *)
(* finitely many.                                                          *)
(***************************************************************************)
FairSpec == Spec /\ \A w \in Process : WF_vars(Step(w))

\* Some batch of due checkouts would overflow a shelf.
Poisoned == \E ids \in SUBSET due : Cardinality(ids) <= BatchSize /\ ~Fits(ids)

\* "nothing is lost, only late": a checkout past the window stops being pending
\* whatever arrives behind it, however often processes die, are stopped and
\* started, and however runs share the work — unless a count a seller set leaves
\* no room to put a due batch back, which stops every checkout of that batch.
LateButNeverLost ==
  \A c \in Checkout : c \in due ~> (c \notin due \/ Poisoned)

\* A process that was told to stop does leave.
StopEnds == \A w \in Process : stopped[w] ~> ~up[w]
=============================================================================
