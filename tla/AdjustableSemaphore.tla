------------------------ MODULE AdjustableSemaphore ------------------------
(***************************************************************************)
(* The semaphore whose number of permits can be changed while permits are  *)
(* in use. Every atomic update of its counters is a step of its own: only  *)
(* the adjustments exclude each other, while permits are dropped and       *)
(* acquired by other threads at any time. The queue of tokio's Semaphore,  *)
(* on which it is built, is modelled as far as it is used: a waiter keeps  *)
(* what it has been given and the first in the queue is served first.      *)
(* A module that composes the operations gives the clients their control.  *)
(***************************************************************************)
EXTENDS Integers, Sequences, SequencesExt, FiniteSetsExt, Functions

CONSTANTS
  Clients,        \* tasks that wait for permits, one request at a time
  Holders,        \* owners of a permit
  MinPermits, MaxPermits, InitialPermits, \* logical, the arguments of new
  PermitLimit     \* PERMIT_LIMIT, the most permits of the platform's semaphore

ASSUME PermitsAssumption ==
  /\ MinPermits \in Nat /\ MaxPermits \in Nat /\ InitialPermits \in Nat
  /\ MinPermits <= InitialPermits /\ InitialPermits <= MaxPermits
ASSUME LimitAssumption == PermitLimit \in Nat \ {0}

VARIABLES
  total,      \* total_permits
  enqueued,   \* enqueued_permit_decreases
  available,  \* permits of the tokio semaphore that nobody holds or waits for
  queue,      \* its waiters, in order
  want,       \* per client: the permits it waits for, 0 when it does not wait
  got,        \* per client: the permits it was given while it waits
  permit,     \* per holder: num_physical_permits, 0 when there is no permit
  returning,  \* per holder: permits a drop has still to return to the semaphore
  change,     \* the adjustment that holds adjustment_lock
  out         \* history: permits given to waiters or held, and not returned

svars == <<total, enqueued, available, queue, want, got, permit, returning, change, out>>

\* u64::div_ceil
DivCeil(n, d) == (n + d - 1) \div d

\* The smallest power of two that brings the maximum below the limit.
compute_basis(n) ==
  LET Fits(b) == DivCeil(n, b) <= PermitLimit
  IN  CHOOSE b \in {2^i : i \in 0..n} :
        Fits(b) /\ (b = 1 \/ ~Fits(b \div 2))

basis == compute_basis(MaxPermits)
\* The loop that computes the basis ends.
ASSUME BasisAssumption == basis \in Nat \ {0}

MinPhysical == DivCeil(MinPermits, basis)
MaxPhysical == DivCeil(MaxPermits, basis)

\* u64::clamp
Clamped(n, low, high) == IF n < low THEN low ELSE IF n > high THEN high ELSE n

\* Mutant: the lower bound is not kept.
SubUnbounded(v, n, min) == n

\* What attempt_add and attempt_sub add to and take from v.
attempt_add(v, n, max) ==
  IF v >= max THEN 0 ELSE (IF v + n > max THEN max ELSE v + n) - v
attempt_sub(v, n, min) ==
  IF v <= min THEN 0 ELSE v - (IF v - n < min THEN min ELSE v - n)

NoChange == [kind |-> "none", n |-> 0]

SemaphoreInit ==
  /\ total = Clamped(DivCeil(InitialPermits, basis), MinPhysical, MaxPhysical)
  /\ available = total
  /\ enqueued = 0
  /\ queue = <<>>
  /\ want = [c \in Clients |-> 0]
  /\ got = [c \in Clients |-> 0]
  /\ permit = [h \in Holders |-> 0]
  /\ returning = [h \in Holders |-> 0]
  /\ change = NoChange
  /\ out = 0

-----------------------------------------------------------------------------
(***************************************************************************)
(* The tokio semaphore.                                                    *)
(***************************************************************************)
\* add_permits: n permits that were in use come back and go to the
\* waiters of q in order; the waiters that have all they want leave the
\* queue. What is left becomes available.
AddPermits(q, g, n) ==
  LET Before(c) ==
        LET i == CHOOSE k \in DOMAIN q : q[k] = c
        IN  MapThenSumSet(LAMBDA j : want[q[j]] - g[q[j]], 1..(i - 1))
      Given(c) == IF c \in Range(q) THEN Clamped(n - Before(c), 0, want[c] - g[c]) ELSE 0
  IN  \E given \in {[c \in Clients |-> Given(c)]} \cap [Clients -> 0..n],
         handed \in {MapThenSumSet(Given, Clients)} \cap 0..n :
        /\ got' = [c \in Clients |-> g[c] + given[c]]
        /\ queue' = SelectSeq(q, LAMBDA c : g[c] + given[c] < want[c])
        /\ available' = available + (n - handed)
        /\ out' = out - (n - handed)

\* acquire_many_owned, first poll: all that is available up to the request is
\* taken, and the client waits for the rest.
Enqueue(c) ==
  LET n == IF available < want[c] THEN available ELSE want[c]
  IN  /\ available' = available - n
      /\ got' = [got EXCEPT ![c] = n]
      /\ queue' = IF n < want[c] THEN Append(queue, c) ELSE queue
      /\ out' = out + n
      /\ UNCHANGED <<total, enqueued, want, permit, returning, change>>

\* The future of a request is dropped: what it was given returns to the
\* semaphore, and no enqueued decrease is looked at.
CancelRequest(c) ==
  /\ AddPermits(SelectSeq(queue, LAMBDA d : d # c), [got EXCEPT ![c] = 0], got[c])
  /\ want' = [want EXCEPT ![c] = 0]
  /\ UNCHANGED <<total, enqueued, permit, returning, change>>

-----------------------------------------------------------------------------
(***************************************************************************)
(* Acquiring and returning.                                                *)
(***************************************************************************)
\* acquire_many: the request is clamped to the total of this moment ...
to_physical_acquire(n) ==
  Clamped(DivCeil(n, basis), 1, IF total > 1 THEN total ELSE 1)

acquire_many(c, n) ==
  /\ want' = [want EXCEPT ![c] = to_physical_acquire(n)]
  /\ got' = [got EXCEPT ![c] = 0]
  /\ UNCHANGED <<total, enqueued, available, queue, permit, returning, change, out>>

\* ... and becomes a permit once the client has been given all it waits for.
Obtain(c, h) ==
  /\ want[c] > 0
  /\ got[c] = want[c]
  /\ permit' = [permit EXCEPT ![h] = want[c]]
  /\ want' = [want EXCEPT ![c] = 0]
  /\ got' = [got EXCEPT ![c] = 0]
  /\ UNCHANGED <<total, enqueued, available, queue, returning, change, out>>

\* split: n logical permits move from the permit of h to a new one of k.
CanSplit(h, n) == DivCeil(n, basis) \in 1..permit[h]

split(h, k, n) ==
  /\ CanSplit(h, n)
  /\ permit' = [permit EXCEPT ![h] = @ - DivCeil(n, basis), ![k] = DivCeil(n, basis)]
  /\ UNCHANGED <<total, enqueued, available, queue, want, got, returning, change, out>>

\* Mutant: all permits are returned, also those that resolved a decrease.
DropAndReturnAll(h) ==
  LET resolved == attempt_sub(enqueued, permit[h], 0)
  IN  /\ enqueued' = enqueued - resolved
      /\ returning' = [returning EXCEPT ![h] = permit[h]]
      /\ permit' = [permit EXCEPT ![h] = 0]
      /\ UNCHANGED <<total, available, queue, want, got, change, out>>

\* drop, first update: as many enqueued decreases are resolved as the permit
\* can pay for. These permits are forgotten.
DropPermit(h) ==
  LET resolved == attempt_sub(enqueued, permit[h], 0)
  IN  /\ enqueued' = enqueued - resolved
      /\ returning' = [returning EXCEPT ![h] = permit[h] - resolved]
      /\ permit' = [permit EXCEPT ![h] = 0]
      /\ out' = out - resolved
      /\ UNCHANGED <<total, available, queue, want, got, change>>

\* Mutant: the others are forgotten as well.
ForgetPermits(h) ==
  /\ returning' = [returning EXCEPT ![h] = 0]
  /\ out' = out - returning[h]
  /\ UNCHANGED <<total, enqueued, available, queue, want, got, permit, change>>

\* drop, second update: the others return to the semaphore.
ReturnPermits(h) ==
  /\ AddPermits(queue, got, returning[h])
  /\ returning' = [returning EXCEPT ![h] = 0]
  /\ UNCHANGED <<total, enqueued, want, permit, change>>

-----------------------------------------------------------------------------
(***************************************************************************)
(* Adjustments. They hold adjustment_lock from their first to their last   *)
(* update; drops, requests and cancelled requests do not take it.          *)
(***************************************************************************)
Unlocked == change.kind = "none"

\* increment_permits_to_target, first update. Nothing happens when the total is
\* at the target, or at the maximum, already.
Adding(target) ==
  IF target <= total * basis THEN 0
  ELSE attempt_add(total, DivCeil(target - total * basis, basis), MaxPhysical)

increment_permits_to_target(target) ==
  /\ Unlocked
  /\ total' = total + Adding(target)
  /\ change' = IF Adding(target) = 0 THEN NoChange
               ELSE [kind |-> "adding", n |-> Adding(target)]
  /\ UNCHANGED <<enqueued, available, queue, want, got, permit, returning, out>>

\* Mutant: the new permit holds the whole increase.
HoldWholeIncrease(h) ==
  /\ change.kind = "adding"
  /\ enqueued' = enqueued - attempt_sub(enqueued, change.n, 0)
  /\ permit' = [permit EXCEPT ![h] = change.n]
  /\ out' = out + change.n
  /\ change' = NoChange
  /\ UNCHANGED <<total, available, queue, want, got, returning>>

\* Second update: the increase cancels decreases that are still enqueued, and
\* the rest is a new permit for the caller, h.
CancelDecreases(h) ==
  LET cancelled == attempt_sub(enqueued, change.n, 0)
  IN  /\ change.kind = "adding"
      /\ enqueued' = enqueued - cancelled
      /\ permit' = [permit EXCEPT ![h] = change.n - cancelled]
      /\ out' = out + (change.n - cancelled)
      /\ change' = NoChange
      /\ UNCHANGED <<total, available, queue, want, got, returning>>

\* decrement_permits_to_target, first update.
Removing(target) ==
  IF target >= total * basis THEN 0
  ELSE attempt_sub(total, DivCeil(total * basis - target, basis), MinPhysical)

decrement_permits_to_target(target) ==
  /\ Unlocked
  /\ total' = total - Removing(target)
  /\ change' = IF Removing(target) = 0 THEN NoChange
               ELSE [kind |-> "removing", n |-> Removing(target)]
  /\ UNCHANGED <<enqueued, available, queue, want, got, permit, returning, out>>

\* Mutant: what is available is forgotten, and not the rest.
ForgetSome ==
  /\ change.kind = "removing"
  /\ available' = IF available < change.n THEN 0 ELSE available - change.n
  /\ change' = NoChange
  /\ UNCHANGED <<total, enqueued, queue, want, got, permit, returning, out>>

\* Second update: try_acquire_many_owned, whose permits are forgotten ...
ForgetAvailable ==
  /\ change.kind = "removing"
  /\ available >= change.n
  /\ available' = available - change.n
  /\ change' = NoChange
  /\ UNCHANGED <<total, enqueued, queue, want, got, permit, returning, out>>

\* ... and which fails when there are too few of them, even if there are some.
FailToForget ==
  /\ change.kind = "removing"
  /\ available < change.n
  /\ change' = [change EXCEPT !.kind = "queueing"]
  /\ UNCHANGED <<total, enqueued, available, queue, want, got, permit, returning, out>>

\* Mutant: the decrease is dropped.
ForgetDecrease ==
  /\ change.kind = "queueing"
  /\ change' = NoChange
  /\ UNCHANGED <<total, enqueued, available, queue, want, got, permit, returning, out>>

\* Third update: the decrease is left to the permits that are dropped later.
EnqueueDecrease ==
  /\ change.kind = "queueing"
  /\ enqueued' = enqueued + change.n
  /\ change' = NoChange
  /\ UNCHANGED <<total, available, queue, want, got, permit, returning, out>>

-----------------------------------------------------------------------------
\* Amounts that an adjustment has applied to the total, and not yet to permits.
InAddition == IF change.kind = "adding" THEN change.n ELSE 0
InRemoval == IF change.kind \in {"removing", "queueing"} THEN change.n ELSE 0

SemaphoreTypeOK ==
  /\ total \in MinPhysical..MaxPhysical
  /\ enqueued \in Nat
  /\ available \in Nat
  /\ queue \in Seq(Clients)
  /\ want \in [Clients -> Nat]
  /\ got \in [Clients -> Nat]
  /\ permit \in [Holders -> Nat]
  /\ returning \in [Holders -> Nat]
  /\ change \in [kind : {"none", "adding", "removing", "queueing"}, n : Nat]
  /\ out \in Int

\* No permit is lost or made up: those that exist are the total and the
\* decreases still to be resolved, whichever updates of dropping, cancelling
\* and adjusting threads have been made so far.
Conservation == available + out = total + enqueued + InRemoval - InAddition

\* However drops, cancelled requests and adjustments interleave, there are never
\* more permits, free and in use, than the maximum: for the download buffer, the
\* memory all downloads together may fill.
WithinMaximum == available + out <= MaxPhysical

\* What the counters say is in use is what waiters and holders have: the value
\* that active_permits computes is exact whenever no adjustment is under way.
InUse == MapThenSumSet(LAMBDA c : got[c], Clients)
       + MapThenSumSet(LAMBDA h : permit[h] + returning[h], Holders)
active_permits == IF total + enqueued < available THEN 0 ELSE total + enqueued - available
ActiveIsExact == out = InUse /\ (Unlocked => active_permits = InUse)

\* The interleaved updates implement the semaphore whose operations are atomic.
Lazy == INSTANCE LazySemaphore WITH
          Least <- MinPhysical, Most <- MaxPhysical,
          Start <- Clamped(DivCeil(InitialPermits, basis), MinPhysical, MaxPhysical),
          total <- total - InAddition, debt <- enqueued + InRemoval, out <- out
=============================================================================
