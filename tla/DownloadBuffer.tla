-------------------------- MODULE DownloadBuffer --------------------------
(***************************************************************************)
(* The memory that the downloads of a process share: every download grows  *)
(* the semaphore when it starts and may keep the growth for itself, takes  *)
(* permits for the terms it has scheduled, which its writer drops when the *)
(* data is written, and shrinks the semaphore when it ends, also when it   *)
(* fails or is cancelled while it waits.                                   *)
(***************************************************************************)
EXTENDS AdjustableSemaphore

CONSTANTS
  Downloads,
  Slots,       \* terms of a download whose data is not written yet; their number is bounded
  Sizes,       \* sizes of terms
  PerFile,     \* download_buffer_perfile_size
  MaxTerms     \* bound: terms of a download

ASSUME DownloadsAssumption ==
  /\ Clients = Downloads
  /\ Holders = Downloads \X (Slots \cup {"seed"})
  /\ IsFiniteSet(Downloads)
  /\ InitialPermits = MinPermits
  /\ Sizes \subseteq Nat
  /\ PerFile \in Nat
  /\ MaxTerms \in Nat

VARIABLES
  active,   \* active_downloads
  target,   \* per download: the total it computed last
  pc,       \* per download: where run_impl is
  terms,    \* per download: terms scheduled so far
  size      \* per download: the term it could not take from its seed permit

dvars == <<active, target, pc, terms, size>>
vars == <<total, enqueued, available, queue, want, got, permit, returning, change, out,
          active, target, pc, terms, size>>

\* The seed permit of a download, and the permit of a term.
Seed(d) == <<d, "seed">>
Term(d, s) == <<d, s>>

BufferInit ==
  /\ SemaphoreInit
  /\ active = 0
  /\ target = [d \in Downloads |-> 0]
  /\ pc = [d \in Downloads |-> "idle"]
  /\ terms = [d \in Downloads |-> 0]
  /\ size = [d \in Downloads |-> 0]

Goto(d, from, to) == pc[d] = from /\ pc' = [pc EXCEPT ![d] = to]

\* base.saturating_add(n.saturating_mul(perfile)).min(limit)
BufferTarget(n) ==
  IF MinPermits + n * PerFile < MaxPermits THEN MinPermits + n * PerFile ELSE MaxPermits

\* The start of run_impl counts the download and computes the target. It is
\* applied later: other downloads may start and end in between.
StartDownload(d) ==
  /\ Goto(d, "idle", "grow")
  /\ active' = active + 1
  /\ target' = [target EXCEPT ![d] = BufferTarget(active + 1)]
  /\ UNCHANGED <<terms, size>> /\ UNCHANGED svars

GrowBuffer(d) ==
  /\ Goto(d, "grow", IF Adding(target[d]) = 0 THEN "run" ELSE "seed")
  /\ increment_permits_to_target(target[d])
  /\ UNCHANGED <<active, target, terms, size>>

TakeSeed(d) ==
  /\ Goto(d, "seed", "run")
  /\ CancelDecreases(Seed(d))
  /\ UNCHANGED <<active, target, terms, size>>

\* A term of n bytes that the seed permit has room for.
ScheduleFromSeed(d, s, n) ==
  /\ Goto(d, "run", "run")
  /\ terms[d] < MaxTerms
  /\ permit[Term(d, s)] = 0 /\ returning[Term(d, s)] = 0
  /\ split(Seed(d), Term(d, s), n)
  /\ terms' = [terms EXCEPT ![d] = @ + 1]
  /\ UNCHANGED <<active, target, size>>

\* Otherwise what is left of the seed permit is dropped, and the download waits
\* for permits with all the others.
DropSeed(d, n) ==
  /\ Goto(d, "run", "unseed")
  /\ terms[d] < MaxTerms
  /\ permit[Seed(d)] > 0
  /\ ~CanSplit(Seed(d), n)
  /\ DropPermit(Seed(d))
  /\ size' = [size EXCEPT ![d] = n]
  /\ UNCHANGED <<active, target, terms>>

ReturnSeed(d) ==
  /\ Goto(d, "unseed", "ask")
  /\ ReturnPermits(Seed(d))
  /\ UNCHANGED <<active, target, terms, size>>

Ask(d, n) ==
  /\ \/ Goto(d, "ask", "asked") /\ n = size[d]
     \/ Goto(d, "run", "asked") /\ terms[d] < MaxTerms /\ permit[Seed(d)] = 0
  /\ acquire_many(d, n)
  /\ size' = [size EXCEPT ![d] = 0]
  /\ UNCHANGED <<active, target, terms>>

Wait(d) ==
  /\ Goto(d, "asked", "wait")
  /\ Enqueue(d)
  /\ UNCHANGED <<active, target, terms, size>>

Schedule(d, s) ==
  /\ Goto(d, "wait", "run")
  /\ permit[Term(d, s)] = 0 /\ returning[Term(d, s)] = 0
  /\ Obtain(d, Term(d, s))
  /\ terms' = [terms EXCEPT ![d] = @ + 1]
  /\ UNCHANGED <<active, target, size>>

\* The writer has written a term, or has been dropped: its permit goes.
DropTerm(d, s) ==
  /\ permit[Term(d, s)] > 0
  /\ DropPermit(Term(d, s))
  /\ UNCHANGED dvars

ReturnTerm(d, s) ==
  /\ returning[Term(d, s)] > 0
  /\ ReturnPermits(Term(d, s))
  /\ UNCHANGED dvars

\* The run state is cancelled while the download waits for permits.
CancelWait(d) ==
  /\ Goto(d, "wait", "end")
  /\ CancelRequest(d)
  /\ UNCHANGED <<active, target, terms, size>>

\* run_impl is left, because all is scheduled and written or on any error.
LeaveRun(d) ==
  /\ Goto(d, "run", "end")
  /\ UNCHANGED <<active, target, terms, size>> /\ UNCHANGED svars

\* Mutant: the target of the downloads with this one is applied.
EndAndKeep(d) ==
  /\ Goto(d, "end", "shrink")
  /\ active' = active - 1
  /\ target' = [target EXCEPT ![d] = BufferTarget(active)]
  /\ UNCHANGED <<terms, size>> /\ UNCHANGED svars

\* The guard of run_impl: the download is no longer counted, and the total
\* shrinks to the target of those that remain.
EndDownload(d) ==
  /\ Goto(d, "end", "shrink")
  /\ active' = active - 1
  /\ target' = [target EXCEPT ![d] = BufferTarget(active - 1)]
  /\ UNCHANGED <<terms, size>> /\ UNCHANGED svars

ShrinkBuffer(d) ==
  /\ Goto(d, "shrink", IF Removing(target[d]) = 0 THEN "leave" ELSE "settle")
  /\ decrement_permits_to_target(target[d])
  /\ UNCHANGED <<active, target, terms, size>>

Settle(d) ==
  /\ \/ Goto(d, "settle", "leave") /\ ForgetAvailable
     \/ Goto(d, "settle", "queue") /\ FailToForget
     \/ Goto(d, "queue", "leave") /\ EnqueueDecrease
  /\ UNCHANGED <<active, target, terms, size>>

\* The seed permit is declared before the guard, so it is dropped after it.
LeaveSeed(d) ==
  /\ \/ Goto(d, "leave", "left") /\ permit[Seed(d)] > 0 /\ DropPermit(Seed(d))
     \/ Goto(d, "left", "done") /\ ReturnPermits(Seed(d))
  /\ UNCHANGED <<active, target, terms, size>>

Step(d) ==
  \/ StartDownload(d) \/ GrowBuffer(d) \/ TakeSeed(d)
  \/ \E s \in Slots, n \in Sizes : ScheduleFromSeed(d, s, n)
  \/ \E n \in Sizes : DropSeed(d, n) \/ Ask(d, n)
  \/ ReturnSeed(d)
  \/ Wait(d)
  \/ \E s \in Slots : Schedule(d, s)
  \/ EndDownload(d) \/ ShrinkBuffer(d) \/ Settle(d) \/ LeaveSeed(d)

WriteTerm(d) == \E s \in Slots : DropTerm(d, s) \/ ReturnTerm(d, s)

Next == \E d \in Downloads : Step(d) \/ WriteTerm(d) \/ CancelWait(d) \/ LeaveRun(d)

\* Tasks are scheduled, and data that has been scheduled is written or dropped.
\* Nothing is assumed of cancellation, of errors or of the order of threads. That
\* a download runs out of terms is part of the model's bound.
Fairness ==
  /\ \A d \in Downloads :
       /\ WF_vars(Step(d))
       /\ WF_vars(LeaveRun(d) /\ terms[d] = MaxTerms)
       /\ \A s \in Slots : WF_vars(DropTerm(d, s)) /\ WF_vars(ReturnTerm(d, s))

Spec == BufferInit /\ [][Next]_vars /\ Fairness

-----------------------------------------------------------------------------
TypeOK ==
  /\ SemaphoreTypeOK
  /\ active \in Nat
  /\ target \in [Downloads -> Nat]
  /\ pc \in [Downloads -> {"idle", "grow", "seed", "run", "unseed", "ask", "asked", "wait",
                           "end", "shrink", "settle", "queue", "leave", "left", "done"}]
  /\ terms \in [Downloads -> 0..MaxTerms]
  /\ size \in [Downloads -> Sizes \cup {0}]

\* When no download runs, the buffer is back at its configured size, although
\* every download applied a target that may have been out of date.
Counted(d) == pc[d] \in {"grow", "seed", "run", "unseed", "ask", "asked", "wait", "end"}
Over(d) == ~Counted(d) /\ pc[d] # "shrink"
BufferReturnsToBase == (\A d \in Downloads : Over(d)) => total = MinPhysical

\* A request is served unless the total has become smaller than a request that
\* is served before it: the clamp of acquire_many looks at the total only once.
Outgrown(d) == \E e \in Downloads : e \in ToSet(queue) \cup {d} /\ want[e] > total
AcquireSucceeds ==
  \A d \in Downloads : pc[d] = "wait" ~> (pc[d] # "wait" \/ Outgrown(d))

\* The refinement, as a property of this specification.
ImplementsLazy == Lazy!LSpec
=============================================================================
