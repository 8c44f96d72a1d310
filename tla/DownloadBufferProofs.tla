------------------------ MODULE DownloadBufferProofs ------------------------
(***************************************************************************)
(* Proofs about AdjustableSemaphore and DownloadBuffer, for any number of  *)
(* downloads, any sizes of terms and any configuration of the buffer.      *)
(***************************************************************************)
EXTENDS DownloadBuffer, FiniteSetTheorems, TLAPS

\* What DivCeil computes: the least q with b * q >= x.
LEMMA DivCeilBounds ==
  ASSUME NEW x \in Nat, NEW b \in Nat \ {0}
  PROVE  /\ DivCeil(x, b) \in Nat
         /\ b * DivCeil(x, b) >= x
         /\ b * DivCeil(x, b) < x + b
BY DEF DivCeil

\* Multiplication by a positive factor can be cancelled.
LEMMA CancelFactor ==
  ASSUME NEW p \in Int, NEW q \in Int, NEW b \in Nat \ {0}, b * p < b * q + b
  PROVE  p <= q
<1> SUFFICES ASSUME p >= q + 1 PROVE FALSE
  OBVIOUS
<1>1. b * (p - (q + 1)) >= 0
  OBVIOUS
<1>2. b * (p - (q + 1)) = b * p - b * q - b
  OBVIOUS
<1> QED BY <1>1, <1>2

\* The bounds of the semaphore are ordered as the arguments of new are.
LEMMA PhysicalBounds ==
  MinPhysical \in Nat /\ MaxPhysical \in Nat /\ MinPhysical <= MaxPhysical
<1>1. /\ MinPhysical \in Nat /\ MaxPhysical \in Nat
      /\ basis * MinPhysical < MinPermits + basis
      /\ basis * MaxPhysical >= MaxPermits
  BY DivCeilBounds, PermitsAssumption, BasisAssumption, ZenonT(40) DEF MinPhysical, MaxPhysical
<1>2. basis * MinPhysical < basis * MaxPhysical + basis
  BY <1>1, PermitsAssumption, BasisAssumption
<1>3. MinPhysical <= MaxPhysical
  BY <1>1, <1>2, CancelFactor, BasisAssumption
<1> QED BY <1>1, <1>3

\* attempt_add and attempt_sub change a counter within its bounds.
LEMMA AttemptBounds ==
  ASSUME NEW v \in Nat, NEW n \in Nat, NEW m \in Nat
  PROVE  /\ attempt_add(v, n, m) \in Nat
         /\ v <= m => v + attempt_add(v, n, m) <= m
         /\ attempt_sub(v, n, m) \in Nat
         /\ attempt_sub(v, n, m) <= n
         /\ v >= m => v - attempt_sub(v, n, m) >= m
         /\ v >= m /\ n >= v - m => attempt_sub(v, n, m) = v - m
BY DEF attempt_add, attempt_sub

-----------------------------------------------------------------------------
(***************************************************************************)
(* The semaphore.                                                          *)
(***************************************************************************)
\* The types the accounting rests on.
CountersOK ==
  /\ total \in MinPhysical..MaxPhysical
  /\ enqueued \in Nat
  /\ available \in Nat
  /\ want \in [Clients -> Nat]
  /\ got \in [Clients -> Nat]
  /\ permit \in [Holders -> Nat]
  /\ returning \in [Holders -> Nat]
  /\ change \in [kind : {"none", "adding", "removing", "queueing"}, n : Nat]
  /\ out \in Int

SemInv == CountersOK /\ Conservation /\ WithinMaximum

\* A step keeps the accounting and is a step of the lazy semaphore, or none.
GoodStep == SemInv' /\ [Lazy!LNext]_(Lazy!lvars)

\* Giving permits back, whoever waits for them.
LEMMA AddPermitsStep ==
  ASSUME NEW q, NEW g \in [Clients -> Nat], NEW n \in Nat, available \in Nat, out \in Int,
         AddPermits(q, g, n)
  PROVE  /\ got' \in [Clients -> Nat]
         /\ available' \in Nat
         /\ out' \in Int
         /\ available' + out' = available + out
         /\ out' <= out
<1>1. PICK given \in [Clients -> 0..n], handed \in 0..n :
        /\ got' = [c \in Clients |-> g[c] + given[c]]
        /\ available' = available + (n - handed)
        /\ out' = out - (n - handed)
  BY Zenon DEF AddPermits
<1> QED BY <1>1

LEMMA EnqueueStep == ASSUME NEW c \in Clients, SemInv, Enqueue(c) PROVE GoodStep
<1> USE PhysicalBounds DEF SemInv, CountersOK
<1> DEFINE n == IF available < want[c] THEN available ELSE want[c]
<1>1. n \in Nat /\ n <= available
  OBVIOUS
<1>2. /\ available' = available - n
      /\ got' = [got EXCEPT ![c] = n]
      /\ out' = out + n
      /\ UNCHANGED <<total, enqueued, want, permit, returning, change>>
  BY DEF Enqueue
<1> HIDE DEF n
<1>3. CountersOK'
  BY <1>1, <1>2
<1>4. SemInv'
  BY <1>1, <1>2, <1>3 DEF Conservation, WithinMaximum, InAddition, InRemoval
<1>5. [Lazy!LNext]_(Lazy!lvars)
  BY <1>1, <1>2 DEF Conservation, InAddition, InRemoval, Lazy!LNext, Lazy!lvars, Lazy!Take
<1> QED BY <1>4, <1>5 DEF GoodStep

LEMMA CancelRequestStep == ASSUME NEW c \in Clients, SemInv, CancelRequest(c) PROVE GoodStep
<1> USE PhysicalBounds DEF SemInv, CountersOK
<1>1. got' \in [Clients -> Nat] /\ available' \in Nat /\ out' \in Int
      /\ available' + out' = available + out /\ out' <= out
  <2> DEFINE g == [got EXCEPT ![c] = 0]
  <2>1. g \in [Clients -> Nat] /\ got[c] \in Nat
    OBVIOUS
  <2>2. AddPermits(SelectSeq(queue, LAMBDA d : d # c), g, got[c])
    BY DEF CancelRequest
  <2> HIDE DEF g
  <2> QED BY <2>1, <2>2, AddPermitsStep
<1>2. SemInv'
  BY <1>1, Zenon DEF CancelRequest, Conservation, WithinMaximum, InAddition, InRemoval
<1>3. [Lazy!LNext]_(Lazy!lvars)
  BY <1>1 DEF CancelRequest, InAddition, InRemoval, Lazy!LNext, Lazy!lvars, Lazy!Give
<1> QED BY <1>2, <1>3 DEF GoodStep

LEMMA ReturnPermitsStep == ASSUME NEW h \in Holders, SemInv, ReturnPermits(h) PROVE GoodStep
<1> USE PhysicalBounds DEF SemInv, CountersOK
<1>1. got' \in [Clients -> Nat] /\ available' \in Nat /\ out' \in Int
      /\ available' + out' = available + out /\ out' <= out
  BY AddPermitsStep DEF ReturnPermits
<1>2. SemInv'
  BY <1>1, ZenonT(40) DEF ReturnPermits, Conservation, WithinMaximum, InAddition, InRemoval
<1>3. [Lazy!LNext]_(Lazy!lvars)
  BY <1>1 DEF ReturnPermits, InAddition, InRemoval, Lazy!LNext, Lazy!lvars, Lazy!Give
<1> QED BY <1>2, <1>3 DEF GoodStep

LEMMA AcquireStep == ASSUME NEW c \in Clients, NEW n \in Nat, SemInv, acquire_many(c, n) PROVE GoodStep
<1>1. to_physical_acquire(n) \in Nat
  BY DivCeilBounds, PhysicalBounds, BasisAssumption
     DEF to_physical_acquire, Clamped, SemInv, CountersOK
<1>2. SemInv'
  BY <1>1 DEF acquire_many, SemInv, CountersOK, Conservation, WithinMaximum, InAddition, InRemoval
<1> QED BY <1>2 DEF acquire_many, GoodStep, InAddition, InRemoval, Lazy!lvars

LEMMA ObtainStep ==
  ASSUME NEW c \in Clients, NEW h \in Holders, SemInv, Obtain(c, h) PROVE GoodStep
<1>1. CountersOK'
  BY DEF Obtain, SemInv, CountersOK
<1>2. Conservation' /\ WithinMaximum'
  BY DEF Obtain, SemInv, Conservation, WithinMaximum, InAddition, InRemoval
<1>3. UNCHANGED Lazy!lvars
  BY DEF Obtain, InAddition, InRemoval, Lazy!lvars
<1> QED BY <1>1, <1>2, <1>3 DEF GoodStep, SemInv

LEMMA SplitStep ==
  ASSUME NEW h \in Holders, NEW k \in Holders, NEW n \in Nat, SemInv, split(h, k, n) PROVE GoodStep
<1>1. permit' \in [Holders -> Nat]
  <2>1. permit[h] \in Nat /\ DivCeil(n, basis) \in 1..permit[h]
    BY DEF split, CanSplit, SemInv, CountersOK
  <2>2. permit' = [permit EXCEPT ![h] = @ - DivCeil(n, basis), ![k] = DivCeil(n, basis)]
    BY DEF split
  <2> QED BY <2>1, <2>2 DEF SemInv, CountersOK
<1>2. CountersOK'
  BY <1>1 DEF split, SemInv, CountersOK
<1>3. Conservation' /\ WithinMaximum'
  BY DEF split, SemInv, Conservation, WithinMaximum, InAddition, InRemoval
<1>4. UNCHANGED Lazy!lvars
  BY DEF split, InAddition, InRemoval, Lazy!lvars
<1> QED BY <1>2, <1>3, <1>4 DEF GoodStep, SemInv

LEMMA DropPermitStep == ASSUME NEW h \in Holders, SemInv, DropPermit(h) PROVE GoodStep
<1> USE PhysicalBounds DEF SemInv, CountersOK
<1> DEFINE resolved == attempt_sub(enqueued, permit[h], 0)
<1>1. resolved \in Nat /\ resolved <= permit[h] /\ resolved <= enqueued
  <2>1. permit[h] \in Nat /\ enqueued \in Nat
    OBVIOUS
  <2> QED BY <2>1 DEF attempt_sub
<1>2. /\ enqueued' = enqueued - resolved
      /\ returning' = [returning EXCEPT ![h] = permit[h] - resolved]
      /\ permit' = [permit EXCEPT ![h] = 0]
      /\ out' = out - resolved
      /\ UNCHANGED <<total, available, queue, want, got, change>>
  BY DEF DropPermit
<1> HIDE DEF resolved
<1>3. SemInv'
  BY <1>1, <1>2 DEF Conservation, WithinMaximum, InAddition, InRemoval
<1>4. [Lazy!LNext]_(Lazy!lvars)
  BY <1>1, <1>2 DEF InAddition, InRemoval, Lazy!LNext, Lazy!lvars, Lazy!Pay
<1> QED BY <1>3, <1>4 DEF GoodStep

LEMMA IncrementStep ==
  ASSUME NEW t \in Int, SemInv, increment_permits_to_target(t) PROVE GoodStep
<1> USE PhysicalBounds DEF SemInv, CountersOK
<1>1. Adding(t) \in Nat /\ total + Adding(t) <= MaxPhysical
  <2>1. CASE t <= total * basis
    BY <2>1, BasisAssumption DEF Adding
  <2>2. CASE t > total * basis
    <3>1. t - total * basis \in Nat
      BY <2>2, BasisAssumption
    <3>2. DivCeil(t - total * basis, basis) \in Nat
      BY <3>1, DivCeilBounds, BasisAssumption
    <3>3. Adding(t) = attempt_add(total, DivCeil(t - total * basis, basis), MaxPhysical)
      BY <2>2, BasisAssumption DEF Adding
    <3>4. total \in Nat /\ MaxPhysical \in Nat /\ total <= MaxPhysical
      OBVIOUS
    <3> HIDE DEF SemInv, CountersOK
    <3> QED BY <3>2, <3>3, <3>4, AttemptBounds
  <2> QED BY <2>1, <2>2, BasisAssumption
<1>2. /\ total' = total + Adding(t)
      /\ change.kind = "none"
      /\ change' = IF Adding(t) = 0 THEN NoChange ELSE [kind |-> "adding", n |-> Adding(t)]
      /\ UNCHANGED <<enqueued, available, queue, want, got, permit, returning, out>>
  BY DEF increment_permits_to_target, Unlocked
<1>3. CountersOK'
  BY <1>1, <1>2 DEF NoChange
<1>4. InAddition' = Adding(t) /\ InRemoval' = 0 /\ InAddition = 0 /\ InRemoval = 0
  BY <1>1, <1>2 DEF NoChange, InAddition, InRemoval
<1>5. SemInv'
  BY <1>1, <1>2, <1>3, <1>4, SMTT(30) DEF Conservation, WithinMaximum
<1>6. UNCHANGED Lazy!lvars
  BY <1>1, <1>2, <1>4, SMTT(30) DEF Lazy!lvars
<1> QED BY <1>5, <1>6 DEF GoodStep

LEMMA CancelDecreasesStep == ASSUME NEW h \in Holders, SemInv, CancelDecreases(h) PROVE GoodStep
<1> USE PhysicalBounds DEF SemInv, CountersOK
<1> DEFINE cancelled == attempt_sub(enqueued, change.n, 0)
<1>1. /\ change.n \in Nat /\ cancelled \in Nat
      /\ cancelled = IF enqueued < change.n THEN enqueued ELSE change.n
  BY DEF attempt_sub
<1>2. /\ change.kind = "adding"
      /\ enqueued' = enqueued - cancelled
      /\ permit' = [permit EXCEPT ![h] = change.n - cancelled]
      /\ out' = out + (change.n - cancelled)
      /\ change' = NoChange
      /\ UNCHANGED <<total, available, queue, want, got, returning>>
  BY DEF CancelDecreases
<1> HIDE DEF cancelled
<1>3. CountersOK'
  BY <1>1, <1>2 DEF NoChange
<1>4. InAddition' = 0 /\ InRemoval' = 0 /\ InAddition = change.n /\ InRemoval = 0
  BY <1>2 DEF NoChange, InAddition, InRemoval
<1>5. SemInv'
  BY <1>1, <1>2, <1>3, <1>4, SMTT(30) DEF Conservation, WithinMaximum
<1>6. [Lazy!LNext]_(Lazy!lvars)
  <2>1. CASE change.n = 0
    BY <1>1, <1>2, <1>4, <2>1, SMTT(30) DEF Lazy!lvars
  <2>2. CASE change.n > 0
    BY <1>1, <1>2, <1>4, <2>2, SMTT(30) DEF Lazy!LNext, Lazy!Grow
  <2> QED BY <1>1, <2>1, <2>2
<1> QED BY <1>5, <1>6 DEF GoodStep

LEMMA DecrementStep ==
  ASSUME NEW t \in Int, SemInv, decrement_permits_to_target(t), t >= 0 PROVE GoodStep
<1> USE PhysicalBounds DEF SemInv, CountersOK
<1>1. Removing(t) \in Nat /\ total - Removing(t) >= MinPhysical
  <2>1. CASE t >= total * basis
    BY <2>1, BasisAssumption DEF Removing
  <2>2. CASE t < total * basis
    <3>1. total * basis - t \in Nat
      BY <2>2, BasisAssumption
    <3>2. DivCeil(total * basis - t, basis) \in Nat
      BY <3>1, DivCeilBounds, BasisAssumption
    <3>3. Removing(t) = attempt_sub(total, DivCeil(total * basis - t, basis), MinPhysical)
      BY <2>2, BasisAssumption DEF Removing
    <3>4. total \in Nat /\ MinPhysical \in Nat /\ total >= MinPhysical
      OBVIOUS
    <3> HIDE DEF SemInv, CountersOK
    <3> QED BY <3>2, <3>3, <3>4, AttemptBounds
  <2> QED BY <2>1, <2>2, BasisAssumption
<1>2. /\ total' = total - Removing(t)
      /\ change.kind = "none"
      /\ change' = IF Removing(t) = 0 THEN NoChange ELSE [kind |-> "removing", n |-> Removing(t)]
      /\ UNCHANGED <<enqueued, available, queue, want, got, permit, returning, out>>
  BY DEF decrement_permits_to_target, Unlocked
<1>3. CountersOK'
  BY <1>1, <1>2 DEF NoChange
<1>4. InAddition' = 0 /\ InRemoval' = Removing(t) /\ InAddition = 0 /\ InRemoval = 0
  BY <1>1, <1>2 DEF NoChange, InAddition, InRemoval
<1>5. SemInv'
  BY <1>1, <1>2, <1>3, <1>4, SMTT(30) DEF Conservation, WithinMaximum
<1>6. [Lazy!LNext]_(Lazy!lvars)
  <2>1. CASE Removing(t) = 0
    BY <1>1, <1>2, <1>4, <2>1, SMTT(30) DEF Lazy!lvars
  <2>2. CASE Removing(t) > 0
    BY <1>1, <1>2, <1>4, <2>2, SMTT(30) DEF Lazy!LNext, Lazy!Shrink
  <2> QED BY <1>1, <2>1, <2>2
<1> QED BY <1>5, <1>6 DEF GoodStep

LEMMA SettleStep ==
  ASSUME SemInv, ForgetAvailable \/ FailToForget \/ EnqueueDecrease PROVE GoodStep
<1> USE PhysicalBounds DEF SemInv, CountersOK
<1>1. CASE ForgetAvailable
  <2>1. /\ InAddition' = 0 /\ InRemoval' = 0 /\ InAddition = 0 /\ InRemoval = change.n
        /\ change.n \in Nat /\ CountersOK'
    BY <1>1 DEF ForgetAvailable, NoChange, InAddition, InRemoval
  <2>2. SemInv'
    BY <1>1, <2>1 DEF ForgetAvailable, Conservation, WithinMaximum
  <2>3. [Lazy!LNext]_(Lazy!lvars)
    BY <1>1, <2>1 DEF ForgetAvailable, Conservation, Lazy!LNext, Lazy!lvars, Lazy!Destroy
  <2> QED BY <2>2, <2>3 DEF GoodStep
<1>2. CASE FailToForget
  <2>1. /\ InAddition' = 0 /\ InRemoval' = change.n /\ InAddition = 0 /\ InRemoval = change.n
        /\ change.n \in Nat /\ CountersOK'
    BY <1>2 DEF FailToForget, InAddition, InRemoval
  <2>2. SemInv' /\ UNCHANGED Lazy!lvars
    BY <1>2, <2>1, SMTT(30) DEF FailToForget, Conservation, WithinMaximum, Lazy!lvars
  <2> QED BY <2>2 DEF GoodStep
<1>3. CASE EnqueueDecrease
  <2>1. /\ InAddition' = 0 /\ InRemoval' = 0 /\ InAddition = 0 /\ InRemoval = change.n
        /\ change.n \in Nat /\ CountersOK'
    BY <1>3 DEF EnqueueDecrease, NoChange, InAddition, InRemoval
  <2>2. SemInv' /\ UNCHANGED Lazy!lvars
    BY <1>3, <2>1 DEF EnqueueDecrease, Conservation, WithinMaximum, Lazy!lvars
  <2> QED BY <2>2 DEF GoodStep
<1> QED BY <1>1, <1>2, <1>3, SMTT(30)
-----------------------------------------------------------------------------
(***************************************************************************)
(* The downloads.                                                          *)
(***************************************************************************)
CountedSet == {d \in Downloads : Counted(d)}

\* As long as the buffer is above its base, a download is counted that will
\* shrink it when it ends, or one is about to shrink it to the base.
Shrinking(d) == pc[d] = "shrink" /\ target[d] = MinPermits
BaseInv == total > MinPhysical => \E d \in Downloads : Counted(d) \/ Shrinking(d)

BufferInv ==
  /\ SemInv
  /\ target \in [Downloads -> Nat]
  /\ pc = [d \in Downloads |-> pc[d]]
  /\ active = Cardinality(CountedSet)
  /\ BaseInv

LEMMA CountedFinite == IsFiniteSet(CountedSet) /\ Cardinality(CountedSet) \in Nat
<1>1. CountedSet \subseteq Downloads /\ IsFiniteSet(Downloads)
  BY DownloadsAssumption DEF CountedSet
<1>2. IsFiniteSet(CountedSet)
  BY <1>1, FS_Subset
<1> QED BY <1>2, FS_CardinalityType

\* Targets are sizes of the buffer; that of no download is its base.
LEMMA TargetBounds ==
  /\ \A n \in Nat : BufferTarget(n) \in Nat
  /\ BufferTarget(0) = MinPermits
BY PermitsAssumption, DownloadsAssumption DEF BufferTarget

LEMMA HoldersOf == \A d \in Downloads : Seed(d) \in Holders /\ \A s \in Slots : Term(d, s) \in Holders
BY DownloadsAssumption DEF Seed, Term

\* A step of d that moves neither in nor out of the counted downloads, and does
\* not finish shrinking, keeps the invariant.
LEMMA QuietStep ==
  ASSUME BufferInv, SemInv', NEW d \in Downloads, NEW to,
         total' = total, active' = active, target' = target,
         pc' = pc \/ pc' = [pc EXCEPT ![d] = to],
         pc' # pc => pc[d] # "shrink" /\ (Counted(d) <=> Counted(d)')
  PROVE  BufferInv'
<1>1. pc' = [e \in Downloads |-> pc'[e]]
  BY DEF BufferInv
<1>2. \A e \in Downloads : Counted(e)' <=> Counted(e)
  BY DEF BufferInv, Counted
<1>3. \A e \in Downloads : pc[e] = "shrink" => pc'[e] = "shrink"
  BY DEF BufferInv
<1>4. CountedSet' = CountedSet
  BY <1>2 DEF CountedSet
<1>5. BaseInv'
  <2> SUFFICES ASSUME total' > MinPhysical PROVE \E e \in Downloads : Counted(e)' \/ Shrinking(e)'
    BY DEF BaseInv
  <2>1. PICK e \in Downloads : Counted(e) \/ Shrinking(e)
    BY DEF BufferInv, BaseInv
  <2>2. Counted(e)' \/ Shrinking(e)'
    BY <1>2, <1>3, <2>1 DEF Shrinking
  <2> QED BY <2>2
<1> QED BY <1>1, <1>4, <1>5 DEF BufferInv

\* A download starts: it is counted.
LEMMA StartStep ==
  ASSUME BufferInv, NEW d \in Downloads, StartDownload(d) PROVE BufferInv' /\ GoodStep
<1> USE DEF BufferInv
<1>1. /\ pc[d] = "idle" /\ pc' = [pc EXCEPT ![d] = "grow"] /\ active' = active + 1
      /\ target' = [target EXCEPT ![d] = BufferTarget(active + 1)]
      /\ UNCHANGED svars
  BY DEF StartDownload, Goto
<1>2. SemInv' /\ UNCHANGED Lazy!lvars
  BY <1>1 DEF svars, SemInv, CountersOK, Conservation, WithinMaximum, InAddition, InRemoval, Lazy!lvars
<1>3. active \in Nat /\ target' \in [Downloads -> Nat] /\ pc' = [e \in Downloads |-> pc'[e]]
  <2>1. active \in Nat
    BY CountedFinite
  <2>2. BufferTarget(active + 1) \in Nat
    BY <2>1, TargetBounds
  <2>3. target' \in [Downloads -> Nat]
    BY <1>1, <2>2
  <2> QED BY <1>1, <2>1, <2>3
<1>4. CountedSet' = CountedSet \cup {d} /\ d \notin CountedSet
  BY <1>1 DEF CountedSet, Counted
<1>5. active' = Cardinality(CountedSet')
  BY <1>1, <1>4, CountedFinite, FS_AddElement, ZenonT(40)
<1>6. BaseInv'
  BY <1>1 DEF BaseInv, Counted
<1> QED BY <1>2, <1>3, <1>5, <1>6, SMTT(30) DEF GoodStep

\* A download ends: the last one to end shrinks the buffer to its base.
LEMMA EndStep ==
  ASSUME BufferInv, NEW d \in Downloads, EndDownload(d) PROVE BufferInv' /\ GoodStep
<1> USE DEF BufferInv
<1>1. /\ pc[d] = "end" /\ pc' = [pc EXCEPT ![d] = "shrink"] /\ active' = active - 1
      /\ target' = [target EXCEPT ![d] = BufferTarget(active - 1)]
      /\ UNCHANGED svars
  BY DEF EndDownload, Goto
<1>2. SemInv' /\ UNCHANGED Lazy!lvars
  BY <1>1 DEF svars, SemInv, CountersOK, Conservation, WithinMaximum, InAddition, InRemoval, Lazy!lvars
<1>3. CountedSet' = CountedSet \ {d} /\ d \in CountedSet
  BY <1>1 DEF CountedSet, Counted
<1>4. active' = Cardinality(CountedSet') /\ active' \in Nat
  <2>1. Cardinality(CountedSet \ {d}) = Cardinality(CountedSet) - 1
    BY <1>3, CountedFinite, FS_RemoveElement
  <2>2. IsFiniteSet(CountedSet \ {d})
    BY CountedFinite, FS_Subset
  <2>3. Cardinality(CountedSet \ {d}) \in Nat
    BY <2>2, FS_CardinalityType
  <2> QED BY <1>1, <1>3, <2>1, <2>3, SMTT(30)
<1>5. target' \in [Downloads -> Nat] /\ pc' = [e \in Downloads |-> pc'[e]]
  <2>1. BufferTarget(active - 1) \in Nat
    BY <1>1, <1>4, TargetBounds
  <2> QED BY <1>1, <2>1
<1>6. BaseInv'
  <2>1. CASE active' = 0
    <3>1. pc'[d] = "shrink" /\ target'[d] = MinPermits
      BY <1>1, <2>1, TargetBounds
    <3> QED BY <3>1 DEF BaseInv, Shrinking
  <2>2. CASE active' # 0
    <3>1. CountedSet' # {}
      BY <1>4, <2>2, FS_EmptySet
    <3> QED BY <3>1 DEF BaseInv, CountedSet
  <2> QED BY <2>1, <2>2
<1> QED BY <1>2, <1>4, <1>5, <1>6 DEF GoodStep

\* Growing leaves the download counted.
LEMMA GrowStep ==
  ASSUME BufferInv, NEW d \in Downloads, GrowBuffer(d) PROVE BufferInv' /\ GoodStep
<1>1. GoodStep
  <2>1. target[d] \in Int /\ SemInv /\ increment_permits_to_target(target[d])
    BY DEF BufferInv, GrowBuffer
  <2> QED BY <2>1, IncrementStep
<1>2. PICK to \in {"run", "seed"} : pc[d] = "grow" /\ pc' = [pc EXCEPT ![d] = to]
  BY ZenonT(40) DEF GrowBuffer, Goto
<1>3. active' = active /\ target' = target /\ pc' = [e \in Downloads |-> pc'[e]]
  BY <1>2 DEF GrowBuffer, BufferInv
<1>4. \A e \in Downloads : Counted(e)' <=> Counted(e)
  BY <1>2 DEF BufferInv, Counted
<1>5. CountedSet' = CountedSet /\ Counted(d)'
  BY <1>2, <1>4 DEF CountedSet, Counted
<1>6. BaseInv'
  BY <1>5 DEF BaseInv
<1> QED BY <1>1, <1>3, <1>5, <1>6, SMTT(30) DEF BufferInv, GoodStep

\* Shrinking to the target of no download reaches the base.
LEMMA ShrinkToBase == ASSUME SemInv PROVE total - Removing(MinPermits) = MinPhysical
<1> DEFINE x == total * basis - MinPermits
<1>0. /\ total \in Nat /\ basis \in Nat \ {0} /\ MinPermits \in Nat /\ MinPhysical \in Nat
      /\ total >= MinPhysical
  BY PhysicalBounds, PermitsAssumption, BasisAssumption DEF SemInv, CountersOK
<1>1. basis * MinPhysical >= MinPermits /\ basis * MinPhysical < MinPermits + basis
  BY <1>0, DivCeilBounds DEF MinPhysical
<1>2. CASE MinPermits >= total * basis
  <2>1. basis * total < basis * MinPhysical + basis
    BY <1>0, <1>1, <1>2
  <2>2. total <= MinPhysical
    BY <1>0, <2>1, CancelFactor
  <2> QED BY <1>0, <1>2, <2>2 DEF Removing
<1>3. CASE ~(MinPermits >= total * basis)
  <2>1. x \in Nat
    BY <1>0, <1>3
  <2>2. DivCeil(x, basis) \in Nat /\ basis * DivCeil(x, basis) >= x
    BY <1>0, <2>1, DivCeilBounds
  <2>3. basis * (total - DivCeil(x, basis)) < basis * MinPhysical + basis
    <3>1. basis * (total - DivCeil(x, basis)) = basis * total - basis * DivCeil(x, basis)
      BY <1>0, <2>2
    <3>2. basis * total = total * basis
      BY <1>0
    <3> HIDE DEF x
    <3>3. basis * total - x = MinPermits
      BY <1>0, <3>2 DEF x
    <3> QED BY <1>0, <1>1, <2>1, <2>2, <3>1, <3>3, SMTT(30)
  <2>4. total - DivCeil(x, basis) <= MinPhysical
    BY <1>0, <2>2, <2>3, CancelFactor, SMTT(30)
  <2>5. attempt_sub(total, DivCeil(x, basis), MinPhysical) = total - MinPhysical
    BY <1>0, <2>2, <2>4, AttemptBounds, SMTT(30)
  <2> QED BY <1>0, <1>3, <2>5 DEF Removing
<1> QED BY <1>2, <1>3

LEMMA ShrinkStep ==
  ASSUME BufferInv, NEW d \in Downloads, ShrinkBuffer(d) PROVE BufferInv' /\ GoodStep
<1>1. GoodStep
  <2>1. target[d] \in Int /\ target[d] >= 0 /\ SemInv /\ decrement_permits_to_target(target[d])
    BY DEF BufferInv, ShrinkBuffer
  <2> QED BY <2>1, DecrementStep
<1>2. PICK to \in {"leave", "settle"} : pc[d] = "shrink" /\ pc' = [pc EXCEPT ![d] = to]
  BY ZenonT(40) DEF ShrinkBuffer, Goto
<1>3. active' = active /\ target' = target /\ pc' = [e \in Downloads |-> pc'[e]]
  BY <1>2 DEF ShrinkBuffer, BufferInv
<1>4. \A e \in Downloads : (Counted(e)' <=> Counted(e)) /\ (e # d => pc'[e] = pc[e])
  BY <1>2 DEF BufferInv, Counted
<1>5. CountedSet' = CountedSet
  BY <1>4 DEF CountedSet
<1>6. BaseInv'
  <2>0. total' = total - Removing(target[d])
    BY DEF ShrinkBuffer, decrement_permits_to_target
  <2>1. CASE target[d] = MinPermits
    BY <2>0, <2>1, ShrinkToBase, PhysicalBounds, SMTT(30) DEF BufferInv, BaseInv
  <2>2. CASE target[d] # MinPermits
    <3> SUFFICES ASSUME total' > MinPhysical
                 PROVE  \E e \in Downloads : Counted(e)' \/ Shrinking(e)'
      BY DEF BaseInv
    <3>1. total' <= total /\ total' \in Int /\ total \in Int /\ MinPhysical \in Int
      <4>1. total' \in Int /\ total \in Int /\ MinPhysical \in Int
        BY <1>1, PhysicalBounds DEF GoodStep, SemInv, CountersOK, BufferInv
      <4>2. Removing(target[d]) \in Nat
        <5>1. target[d] \in Nat /\ total \in Nat /\ basis \in Nat \ {0} /\ MinPhysical \in Nat
          BY BasisAssumption, PhysicalBounds DEF BufferInv, SemInv, CountersOK
        <5>2. CASE target[d] >= total * basis
          BY <5>2 DEF Removing
        <5>3. CASE ~(target[d] >= total * basis)
          <6>1. total * basis - target[d] \in Nat
            BY <5>1, <5>3
          <6>2. DivCeil(total * basis - target[d], basis) \in Nat
            BY <5>1, <6>1, DivCeilBounds
          <6> DEFINE q == DivCeil(total * basis - target[d], basis)
          <6> HIDE DEF q
          <6>3. q \in Nat
            BY <6>2 DEF q
          <6>4. attempt_sub(total, q, MinPhysical) \in Nat
            BY <5>1, <6>3, AttemptBounds, ZenonT(40)
          <6> QED BY <5>3, <6>4 DEF Removing, q
        <5> QED BY <5>2, <5>3
      <4> QED BY <2>0, <4>1, <4>2
    <3>2. total > MinPhysical
      BY <3>1
    <3>3. PICK e \in Downloads : Counted(e) \/ Shrinking(e)
      BY <3>2 DEF BufferInv, BaseInv
    <3>4. Counted(e)' \/ Shrinking(e)'
      BY <1>3, <1>4, <2>2, <3>3 DEF Shrinking
    <3> QED BY <3>4
  <2> QED BY <2>1, <2>2
<1> QED BY <1>1, <1>3, <1>5, <1>6, SMTT(30) DEF BufferInv, GoodStep

\* The other steps of a download use one operation of the semaphore, which
\* leaves the total alone.
LEMMA OtherSteps ==
  ASSUME BufferInv, NEW d \in Downloads,
         \/ TakeSeed(d) \/ ReturnSeed(d) \/ Wait(d) \/ Settle(d) \/ LeaveSeed(d) \/ CancelWait(d)
         \/ LeaveRun(d)
  PROVE  BufferInv' /\ GoodStep
<1> USE DEF Goto
<1>0. SemInv /\ d \in Clients /\ Seed(d) \in Holders
  BY HoldersOf, DownloadsAssumption DEF BufferInv
<1>1. CASE TakeSeed(d)
  <2>1. GoodStep /\ total' = total
    BY <1>0, <1>1, CancelDecreasesStep, Zenon DEF TakeSeed, CancelDecreases
  <2>2. /\ active' = active /\ target' = target /\ pc[d] = "seed" /\ pc' = [pc EXCEPT ![d] = "run"]
    BY <1>1 DEF TakeSeed
  <2>3. BufferInv'
    BY <2>1, <2>2, QuietStep, Zenon DEF GoodStep, Counted, BufferInv
  <2> QED BY <2>1, <2>3, SMTT(30)
<1>2. CASE ReturnSeed(d)
  <2>1. GoodStep /\ total' = total
    BY <1>0, <1>2, ReturnPermitsStep, Zenon DEF ReturnSeed, ReturnPermits
  <2>2. /\ active' = active /\ target' = target /\ pc[d] = "unseed" /\ pc' = [pc EXCEPT ![d] = "ask"]
    BY <1>2 DEF ReturnSeed
  <2>3. BufferInv'
    BY <2>1, <2>2, QuietStep, Zenon DEF GoodStep, Counted, BufferInv
  <2> QED BY <2>1, <2>3
<1>3. CASE Wait(d)
  <2>1. GoodStep /\ total' = total
    BY <1>0, <1>3, EnqueueStep, Zenon DEF Wait, Enqueue
  <2>2. /\ active' = active /\ target' = target /\ pc[d] = "asked" /\ pc' = [pc EXCEPT ![d] = "wait"]
    BY <1>3 DEF Wait
  <2>3. BufferInv'
    BY <2>1, <2>2, QuietStep, ZenonT(40) DEF GoodStep, Counted, BufferInv
  <2> QED BY <2>1, <2>3
<1>4. CASE Settle(d)
  <2>1. GoodStep /\ total' = total
    BY <1>0, <1>4, SettleStep DEF Settle, ForgetAvailable, FailToForget, EnqueueDecrease
  <2>2. PICK to \in {"leave", "queue"} :
          /\ active' = active /\ target' = target
          /\ pc[d] \in {"settle", "queue"} /\ pc' = [pc EXCEPT ![d] = to]
    BY <1>4 DEF Settle
  <2>3. BufferInv'
    BY <2>1, <2>2, QuietStep, SMTT(30) DEF GoodStep, Counted, BufferInv
  <2> QED BY <2>1, <2>3
<1>5. CASE LeaveSeed(d)
  <2>1. GoodStep /\ total' = total
    BY <1>0, <1>5, DropPermitStep, ReturnPermitsStep, SMTT(30) DEF LeaveSeed, DropPermit, ReturnPermits
  <2>2. PICK to \in {"left", "done"} :
          /\ active' = active /\ target' = target
          /\ pc[d] \in {"leave", "left"} /\ pc' = [pc EXCEPT ![d] = to]
    BY <1>5 DEF LeaveSeed
  <2>3. BufferInv'
    BY <2>1, <2>2, QuietStep, SMTT(30) DEF GoodStep, Counted, BufferInv
  <2> QED BY <2>1, <2>3
<1>6. CASE CancelWait(d)
  <2>1. GoodStep /\ total' = total
    BY <1>0, <1>6, CancelRequestStep, Zenon DEF CancelWait, CancelRequest
  <2>2. /\ active' = active /\ target' = target /\ pc[d] = "wait" /\ pc' = [pc EXCEPT ![d] = "end"]
    BY <1>6 DEF CancelWait
  <2>3. BufferInv'
    BY <2>1, <2>2, QuietStep, ZenonT(40) DEF GoodStep, Counted, BufferInv
  <2> QED BY <2>1, <2>3
<1>7. CASE LeaveRun(d)
  <2>1. GoodStep /\ total' = total
    BY <1>0, <1>7 DEF LeaveRun, GoodStep, svars, SemInv, CountersOK, Conservation, WithinMaximum,
                      InAddition, InRemoval, Lazy!lvars
  <2>2. /\ active' = active /\ target' = target /\ pc[d] = "run" /\ pc' = [pc EXCEPT ![d] = "end"]
    BY <1>7 DEF LeaveRun
  <2>3. BufferInv'
    BY <2>1, <2>2, QuietStep, Zenon DEF GoodStep, Counted, BufferInv
  <2> QED BY <2>1, <2>3
<1> QED BY <1>1, <1>2, <1>3, <1>4, <1>5, <1>6, <1>7, SMTT(30)

LEMMA TermSteps ==
  ASSUME BufferInv, NEW d \in Downloads, NEW s \in Slots, NEW n \in Nat,
         \/ ScheduleFromSeed(d, s, n) \/ Schedule(d, s) \/ DropTerm(d, s) \/ ReturnTerm(d, s)
  PROVE  BufferInv' /\ GoodStep
<1> USE DEF Goto
<1>0. SemInv /\ d \in Clients /\ Seed(d) \in Holders /\ Term(d, s) \in Holders
  BY HoldersOf, DownloadsAssumption, Zenon DEF BufferInv
<1>1. GoodStep /\ total' = total
  <2>1. CASE ScheduleFromSeed(d, s, n)
    BY <1>0, <2>1, SplitStep, Zenon DEF ScheduleFromSeed, split
  <2>2. CASE Schedule(d, s)
    BY <1>0, <2>2, ObtainStep, Zenon DEF Schedule, Obtain
  <2>3. CASE DropTerm(d, s)
    BY <1>0, <2>3, DropPermitStep, Zenon DEF DropTerm, DropPermit
  <2>4. CASE ReturnTerm(d, s)
    BY <1>0, <2>4, ReturnPermitsStep, ZenonT(40) DEF ReturnTerm, ReturnPermits
  <2> QED BY <2>1, <2>2, <2>3, <2>4
<1>2. /\ active' = active /\ target' = target
      /\ pc' = pc \/ (pc[d] \in {"run", "wait"} /\ pc' = [pc EXCEPT ![d] = "run"])
  BY DEF ScheduleFromSeed, Schedule, DropTerm, ReturnTerm, dvars
<1>3. BufferInv'
  BY <1>1, <1>2, QuietStep DEF GoodStep, Counted, BufferInv
<1> QED BY <1>1, <1>3

LEMMA AskSteps ==
  ASSUME BufferInv, NEW d \in Downloads, NEW n \in Sizes, DropSeed(d, n) \/ Ask(d, n)
  PROVE  BufferInv' /\ GoodStep
<1> USE DEF Goto
<1>0. SemInv /\ d \in Clients /\ Seed(d) \in Holders /\ n \in Nat
  BY HoldersOf, DownloadsAssumption DEF BufferInv
<1>1. GoodStep /\ total' = total
  <2>1. CASE DropSeed(d, n)
    BY <1>0, <2>1, DropPermitStep, Zenon DEF DropSeed, DropPermit
  <2>2. CASE Ask(d, n)
    BY <1>0, <2>2, AcquireStep, ZenonT(40) DEF Ask, acquire_many
  <2> QED BY <2>1, <2>2, SMTT(30)
<1>2. PICK to \in {"unseed", "asked"} :
        /\ active' = active /\ target' = target
        /\ pc[d] \in {"run", "ask"} /\ pc' = [pc EXCEPT ![d] = to]
  BY DEF DropSeed, Ask
<1>3. BufferInv'
  BY <1>1, <1>2, QuietStep, ZenonT(40) DEF GoodStep, Counted, BufferInv
<1> QED BY <1>1, <1>3

LEMMA NextStep == ASSUME BufferInv, [Next]_vars PROVE BufferInv' /\ [Lazy!LNext]_(Lazy!lvars)
<1>1. CASE Next
  <2>1. BufferInv' /\ GoodStep
    <3>1. PICK d \in Downloads : Step(d) \/ WriteTerm(d) \/ CancelWait(d) \/ LeaveRun(d)
      BY <1>1 DEF Next
    <3>2. CASE StartDownload(d) \/ EndDownload(d) \/ GrowBuffer(d) \/ ShrinkBuffer(d)
      BY <3>2, StartStep, EndStep, GrowStep, ShrinkStep, SMTT(30)
    <3>3. CASE TakeSeed(d) \/ ReturnSeed(d) \/ Wait(d) \/ Settle(d) \/ LeaveSeed(d) \/ CancelWait(d)
               \/ LeaveRun(d)
      BY <3>3, OtherSteps
    <3>4. CASE \E n \in Sizes : DropSeed(d, n) \/ Ask(d, n)
      BY <3>4, AskSteps
    <3>5. CASE \E s \in Slots : Schedule(d, s) \/ DropTerm(d, s) \/ ReturnTerm(d, s)
      BY <3>5, TermSteps
    <3>6. CASE \E s \in Slots, n \in Sizes : ScheduleFromSeed(d, s, n)
      BY <3>6, TermSteps, DownloadsAssumption, SMTT(30)
    <3> QED BY <3>1, <3>2, <3>3, <3>4, <3>5, <3>6 DEF Step, WriteTerm
  <2> QED BY <2>1 DEF GoodStep
<1>2. CASE UNCHANGED vars
  <2>1. UNCHANGED <<total, enqueued, available, out, got, permit, returning, want, change, active, target, pc>>
    BY <1>2 DEF vars
  <2>2. SemInv' /\ UNCHANGED Lazy!lvars
    BY <2>1 DEF BufferInv, SemInv, CountersOK, Conservation, WithinMaximum, InAddition, InRemoval,
                Lazy!lvars
  <2>3. CountedSet' = CountedSet /\ (BaseInv' <=> BaseInv)
    BY <2>1 DEF CountedSet, BaseInv, Counted, Shrinking
  <2> QED BY <2>1, <2>2, <2>3, SMTT(30) DEF BufferInv
<1> QED BY <1>1, <1>2

LEMMA InitStep == ASSUME BufferInit PROVE BufferInv /\ Lazy!LInit
<1>1. /\ total = MinPhysical /\ available = total /\ enqueued = 0 /\ out = 0
      /\ change.kind = "none"
  BY PhysicalBounds, DownloadsAssumption DEF BufferInit, SemaphoreInit, Clamped, NoChange, MinPhysical
<1>2. /\ got \in [Clients -> Nat] /\ permit \in [Holders -> Nat] /\ returning \in [Holders -> Nat]
      /\ want \in [Clients -> Nat] /\ target \in [Downloads -> Nat]
      /\ change \in [kind : {"none", "adding", "removing", "queueing"}, n : Nat]
  BY DEF BufferInit, SemaphoreInit, NoChange
<1>3. SemInv
  BY <1>1, <1>2, PhysicalBounds DEF SemInv, CountersOK, Conservation, WithinMaximum, InAddition, InRemoval
<1>4. pc = [d \in Downloads |-> pc[d]] /\ CountedSet = {} /\ active = 0
  BY DEF BufferInit, CountedSet, Counted
<1>5. active = Cardinality(CountedSet)
  BY <1>4, FS_EmptySet
<1>6. BaseInv
  BY <1>1, PhysicalBounds DEF BaseInv
<1>7. Lazy!LInit
  <2>1. total = Clamped(DivCeil(InitialPermits, basis), MinPhysical, MaxPhysical) /\ total \in Int
    BY <1>1, PhysicalBounds DEF BufferInit, SemaphoreInit
  <2>2. InAddition = 0 /\ InRemoval = 0
    BY <1>1 DEF InAddition, InRemoval
  <2>3. total - InAddition = Clamped(DivCeil(InitialPermits, basis), MinPhysical, MaxPhysical)
    BY <2>1, <2>2
  <2>4. enqueued + InRemoval = 0
    BY <1>1, <2>2
  <2> QED BY <1>1, <2>3, <2>4, SMTT(30) DEF Lazy!LInit
<1> QED BY <1>2, <1>3, <1>4, <1>5, <1>6, <1>7, SMTT(30) DEF BufferInv

LEMMA BufferInvariant == Spec => []BufferInv
<1>1. BufferInit => BufferInv
  BY InitStep
<1>2. BufferInv /\ [Next]_vars => BufferInv'
  BY NextStep
<1> QED BY <1>1, <1>2, PTL DEF Spec

\* The permits that exist always add up to the total and the decreases still to
\* be resolved (split, drop, acquire_many, increment_ and
\* decrement_permits_to_target), for any number of threads.
THEOREM PermitsAreConserved == Spec => []Conservation
<1>1. BufferInv => Conservation
  BY DEF BufferInv, SemInv
<1> QED BY <1>1, BufferInvariant, PTL

\* Downloads never hold more permits, and so never more memory, than the
\* configured limit of the buffer (AdjustableSemaphore::new, max_permits).
THEOREM NeverAboveMaximum == Spec => []WithinMaximum
<1>1. BufferInv => WithinMaximum
  BY DEF BufferInv, SemInv
<1> QED BY <1>1, BufferInvariant, PTL

\* Whichever stale targets the starting and ending downloads of run_impl apply,
\* the buffer is back at its base when none of them runs.
THEOREM ReturnsToBase == Spec => []BufferReturnsToBase
<1>1. BufferInv => BufferReturnsToBase
  BY PhysicalBounds
     DEF BufferInv, SemInv, CountersOK, BaseInv, BufferReturnsToBase, Over, Shrinking
<1> QED BY <1>1, BufferInvariant, PTL

\* The interleaved updates of AdjustableSemaphore implement LazySemaphore, in
\* which every operation is one step.
THEOREM Refinement == Spec => ImplementsLazy
<1>1. BufferInit => Lazy!LInit
  BY InitStep
<1>2. BufferInv /\ [Next]_vars => [Lazy!LNext]_(Lazy!lvars)
  BY NextStep
<1> QED BY <1>1, <1>2, BufferInvariant, PTL DEF Spec, ImplementsLazy, Lazy!LSpec
=============================================================================
