------------------------- MODULE RuntimeLeaseProofs -------------------------
(***************************************************************************)
(* The leadership fence is safe for every number of workers, every lease   *)
(* time-to-live and every clock: no bound of the runs is assumed.          *)
(***************************************************************************)
EXTENDS RuntimeLease, TLAPS

\* The row lock is held exactly by the worker that is mutating.
LockIsMutation ==
  \A w \in Workers : mutation[w] = "mutating" <=> rowLock = w

\* Terms that were used are not newer than the row, and the row's own
\* generation was only used by the row's owner.
UsedTermsAreOld ==
  /\ lastTerm.generation <= row.generation
  /\ lastTerm.generation = row.generation => lastTerm.owner = row.owner

\* An inserted row has a positive generation.
InsertedRowHasGeneration == row.owner # NoWorker <=> row.generation > 0

\* A call's timestamp was read from the clock before the statement runs.
StampsArePast == \A w \in Workers : stamp[w] <= clock

IInv ==
  /\ TypeOK
  /\ LockIsMutation
  /\ MutationUnderOwnLease
  /\ UsedTermsAreOld
  /\ InsertedRowHasGeneration
  /\ StampsArePast

-----------------------------------------------------------------------------
(* The inductive invariant holds initially.                                *)
LEMMA InitIInv == Init => IInv
BY WorkersAssumption
   DEF Init, IInv, TypeOK, LockIsMutation, MutationUnderOwnLease,
       UsedTermsAreOld, InsertedRowHasGeneration, StampsArePast, NoTerm, Phases

(* Every step of every worker keeps the types (hold_active_runtime_         *)
(* leadership_fence, acquire, renew, release and the lifespan).            *)
LEMMA TypeStep == TypeOK /\ [Next]_vars => TypeOK'
<1> SUFFICES ASSUME TypeOK, [Next]_vars PROVE TypeOK'
  OBVIOUS
<1> USE WorkersAssumption, TTLAssumption DEF TypeOK, Phases
<1>1. CASE Tick
  BY <1>1 DEF Tick, leaseVars, workerVars, mutationVars
<1>2. CASE UNCHANGED vars
  BY <1>2 DEF vars
<1>3. ASSUME NEW w \in Workers,
             \/ Start(w) \/ Acquire(w) \/ BeginLeading(w) \/ RecoveryRaises(w)
             \/ Heartbeat(w) \/ BeginShutdown(w) \/ Release(w) \/ Crash(w)
             \/ Fence(w)
      PROVE TypeOK'
  <2>1. CASE Start(w)
    BY <2>1 DEF Start, leaseVars, workerVars, mutationVars
  <2>2. CASE InsertLease(w)
    BY <2>2 DEF InsertLease, leaseVars, workerVars, mutationVars
  <2>3. CASE TakeLease(w)
    BY <2>3 DEF TakeLease, Unlocked, leaseVars, workerVars, mutationVars
  <2>4. CASE ReadGeneration(w)
    BY <2>4 DEF ReadGeneration, leaseVars, workerVars, mutationVars
  <2>5. CASE RefuseLease(w)
    BY <2>5 DEF RefuseLease, leaseVars, workerVars, mutationVars
  <2>6. CASE BeginLeading(w)
    BY <2>6 DEF BeginLeading, leaseVars, workerVars, mutationVars
  <2>7. CASE RecoveryRaises(w)
    BY <2>7 DEF RecoveryRaises, leaseVars, workerVars, mutationVars
  <2>8. CASE StartRenew(w)
    BY <2>8 DEF StartRenew, leaseVars, workerVars, mutationVars
  <2>9. CASE Renew(w)
    BY <2>9 DEF Renew, Unlocked, leaseVars, workerVars, mutationVars
  <2>10. CASE RenewRefused(w)
    BY <2>10 DEF RenewRefused, leaseVars, workerVars, mutationVars
  <2>11. CASE RenewRaises(w)
    BY <2>11 DEF RenewRaises, leaseVars, workerVars, mutationVars
  <2>12. CASE BeginShutdown(w)
    BY <2>12 DEF BeginShutdown, leaseVars, workerVars, mutationVars
  <2>13. CASE Release(w)
    BY <2>13 DEF Release, Released, Unlocked, leaseVars, workerVars, mutationVars
  <2>14. CASE Crash(w)
    BY <2>14 DEF Crash, leaseVars, workerVars, mutationVars
  <2>15. CASE ReadActive(w)
    BY <2>15 DEF ReadActive, leaseVars, workerVars, mutationVars
  <2>16. CASE EnterFence(w)
    BY <2>16 DEF EnterFence, Unlocked, leaseVars, workerVars, mutationVars
  <2>17. CASE FenceRefused(w)
    BY <2>17 DEF FenceRefused, Unlocked, leaseVars, workerVars, mutationVars
  <2>18. CASE LeaveFence(w)
    BY <2>18 DEF LeaveFence, leaseVars, workerVars, mutationVars
  <2> QED
    BY <1>3, <2>1, <2>2, <2>3, <2>4, <2>5, <2>6, <2>7, <2>8, <2>9, <2>10, <2>11, <2>12, <2>13, <2>14, <2>15, <2>16, <2>17, <2>18
       DEF Acquire, Heartbeat, Fence
<1> QED
  BY <1>1, <1>2, <1>3 DEF Next

(* Every step keeps the rest of the inductive invariant: the lock protects *)
(* the row for as long as a mutation is in flight.                         *)
LEMMA NextIInv == IInv /\ [Next]_vars => IInv'
<1> SUFFICES ASSUME IInv, [Next]_vars PROVE IInv'
  OBVIOUS
<1>t. TypeOK'
  BY TypeStep DEF IInv
<1> USE <1>t, WorkersAssumption
        DEF IInv, LockIsMutation, MutationUnderOwnLease, UsedTermsAreOld,
            InsertedRowHasGeneration, StampsArePast
<1>1. CASE Tick
  BY <1>1 DEF Tick, leaseVars, workerVars, mutationVars, TypeOK
<1>2. CASE UNCHANGED vars
  BY <1>2 DEF vars
<1>3. ASSUME NEW w \in Workers,
             \/ Start(w) \/ Acquire(w) \/ BeginLeading(w) \/ RecoveryRaises(w)
             \/ Heartbeat(w) \/ BeginShutdown(w) \/ Release(w) \/ Crash(w)
             \/ Fence(w)
      PROVE IInv'
  <2>1. CASE Start(w)
    BY <2>1 DEF Start, leaseVars, workerVars, mutationVars, TypeOK
  <2>2. CASE InsertLease(w)
    BY <2>2 DEF InsertLease, leaseVars, workerVars, mutationVars, TypeOK
  <2>3. CASE TakeLease(w)
    BY <2>3 DEF TakeLease, Unlocked, Takeable, leaseVars, workerVars, mutationVars, TypeOK
  <2>4. CASE ReadGeneration(w)
    BY <2>4 DEF ReadGeneration, leaseVars, workerVars, mutationVars
  <2>5. CASE RefuseLease(w)
    BY <2>5 DEF RefuseLease, leaseVars, workerVars, mutationVars
  <2>6. CASE BeginLeading(w)
    BY <2>6 DEF BeginLeading, leaseVars, workerVars, mutationVars
  <2>7. CASE RecoveryRaises(w)
    BY <2>7 DEF RecoveryRaises, leaseVars, workerVars, mutationVars
  <2>8. CASE StartRenew(w)
    BY <2>8 DEF StartRenew, leaseVars, workerVars, mutationVars, TypeOK
  <2>9. CASE Renew(w)
    BY <2>9 DEF Renew, Unlocked, Renewable, leaseVars, workerVars, mutationVars, TypeOK
  <2>10. CASE RenewRefused(w)
    BY <2>10 DEF RenewRefused, leaseVars, workerVars, mutationVars
  <2>11. CASE RenewRaises(w)
    BY <2>11 DEF RenewRaises, leaseVars, workerVars, mutationVars
  <2>12. CASE BeginShutdown(w)
    BY <2>12 DEF BeginShutdown, leaseVars, workerVars, mutationVars, TypeOK
  <2>13. CASE Release(w)
    BY <2>13 DEF Release, Released, Unlocked, Releasable, leaseVars, workerVars, mutationVars, TypeOK
  <2>14. CASE Crash(w)
    BY <2>14 DEF Crash, leaseVars, workerVars, mutationVars, TypeOK
  <2>15. CASE ReadActive(w)
    BY <2>15 DEF ReadActive, leaseVars, workerVars, mutationVars, TypeOK
  <2>16. CASE EnterFence(w)
    BY <2>16 DEF EnterFence, Unlocked, FencePasses, leaseVars, workerVars, mutationVars, TypeOK
  <2>17. CASE FenceRefused(w)
    BY <2>17 DEF FenceRefused, Unlocked, leaseVars, workerVars, mutationVars, TypeOK
  <2>18. CASE LeaveFence(w)
    BY <2>18 DEF LeaveFence, leaseVars, workerVars, mutationVars, TypeOK
  <2> QED
    BY <1>3, <2>1, <2>2, <2>3, <2>4, <2>5, <2>6, <2>7, <2>8, <2>9, <2>10, <2>11, <2>12, <2>13, <2>14, <2>15, <2>16, <2>17, <2>18
       DEF Acquire, Heartbeat, Fence
<1> QED
  BY <1>1, <1>2, <1>3 DEF Next

(* The inductive invariant holds in every reachable state.                 *)
THEOREM LeaseInvariant == Spec => []IInv
<1>1. Init => IInv
  BY InitIInv
<1>2. IInv /\ [Next]_vars => IInv'
  BY NextIInv
<1> QED
  BY <1>1, <1>2, PTL DEF Spec

(* Type correctness of the lease, the lifespans and the fences.            *)
THEOREM LeaseTypes == Spec => []TypeOK
<1>1. IInv => TypeOK
  BY DEF IInv
<1> QED
  BY <1>1, LeaseInvariant, PTL

(* ARCH-015: a broker mutation in flight is always under the lease of the  *)
(* worker that makes it; no takeover overlaps it.                          *)
THEOREM FenceSafety == Spec => []MutationUnderOwnLease
<1>1. IInv => MutationUnderOwnLease
  BY DEF IInv
<1> QED
  BY <1>1, LeaseInvariant, PTL

-----------------------------------------------------------------------------
(* Leadership changes hands only upward and only over an ended lease.      *)

Takeover == row'.owner # row.owner =>
              /\ row'.generation > row.generation
              /\ row.owner = NoWorker \/ row.released \/ row.expires <= clock

LEMMA TakeoverStep == IInv /\ [Next]_vars => Takeover
<1> SUFFICES ASSUME IInv, [Next]_vars PROVE Takeover
  OBVIOUS
<1> USE WorkersAssumption DEF IInv, Takeover
<1>1. CASE Tick
  BY <1>1 DEF Tick, leaseVars
<1>2. CASE UNCHANGED vars
  BY <1>2 DEF vars
<1>3. ASSUME NEW w \in Workers,
             \/ Start(w) \/ Acquire(w) \/ BeginLeading(w) \/ RecoveryRaises(w)
             \/ Heartbeat(w) \/ BeginShutdown(w) \/ Release(w) \/ Crash(w)
             \/ Fence(w)
      PROVE Takeover
  <2>1. CASE Start(w)
    BY <2>1 DEF Start, leaseVars
  <2>2. CASE InsertLease(w)
    BY <2>2 DEF InsertLease, TypeOK, InsertedRowHasGeneration
  <2>3. CASE TakeLease(w)
    BY <2>3 DEF TakeLease, Unlocked, Takeable, TypeOK, StampsArePast
  <2>4. CASE ReadGeneration(w)
    BY <2>4 DEF ReadGeneration, leaseVars
  <2>5. CASE RefuseLease(w)
    BY <2>5 DEF RefuseLease, leaseVars
  <2>6. CASE BeginLeading(w)
    BY <2>6 DEF BeginLeading, leaseVars
  <2>7. CASE RecoveryRaises(w)
    BY <2>7 DEF RecoveryRaises, leaseVars
  <2>8. CASE StartRenew(w)
    BY <2>8 DEF StartRenew, leaseVars
  <2>9. CASE Renew(w)
    BY <2>9 DEF Renew, Unlocked, TypeOK
  <2>10. CASE RenewRefused(w)
    BY <2>10 DEF RenewRefused, leaseVars
  <2>11. CASE RenewRaises(w)
    BY <2>11 DEF RenewRaises, leaseVars
  <2>12. CASE BeginShutdown(w)
    BY <2>12 DEF BeginShutdown, leaseVars
  <2>13. CASE Release(w)
    BY <2>13 DEF Release, Released, Unlocked, TypeOK
  <2>14. CASE Crash(w)
    BY <2>14 DEF Crash, leaseVars
  <2>15. CASE ReadActive(w)
    BY <2>15 DEF ReadActive, leaseVars
  <2>16. CASE EnterFence(w)
    BY <2>16 DEF EnterFence, Unlocked, leaseVars
  <2>17. CASE FenceRefused(w)
    BY <2>17 DEF FenceRefused, Unlocked, leaseVars
  <2>18. CASE LeaveFence(w)
    BY <2>18 DEF LeaveFence, leaseVars
  <2> QED
    BY <1>3, <2>1, <2>2, <2>3, <2>4, <2>5, <2>6, <2>7, <2>8, <2>9, <2>10, <2>11, <2>12, <2>13, <2>14, <2>15, <2>16, <2>17, <2>18
       DEF Acquire, Heartbeat, Fence
<1> QED
  BY <1>1, <1>2, <1>3 DEF Next

(* A takeover needs a released or an expired lease and a larger generation. *)
THEOREM TakeoverSafety == Spec => TakeoverOnlyOfEndedLease
<1>1. IInv /\ [Next]_vars => [Takeover]_vars
  BY TakeoverStep
<1> QED
  BY <1>1, LeaseInvariant, PTL DEF Spec, TakeoverOnlyOfEndedLease, Takeover

-----------------------------------------------------------------------------
(* The lease implements the fenced broker: the row lock is the mutator.    *)

LEMMA FencedInit == Init => Fenced!Init
BY DEF Init, Fenced!Init, NoTerm, Fenced!NoTerm

LEMMA FencedStep == IInv /\ [Next]_vars => [Fenced!Next]_(Fenced!vars)
<1> SUFFICES ASSUME IInv, [Next]_vars PROVE [Fenced!Next]_(Fenced!vars)
  OBVIOUS
<1> USE WorkersAssumption DEF Fenced!vars
<1>1. CASE Tick
  BY <1>1 DEF Tick, leaseVars, mutationVars
<1>2. CASE UNCHANGED vars
  BY <1>2 DEF vars
<1>3. ASSUME NEW w \in Workers,
             \/ Start(w) \/ Acquire(w) \/ BeginLeading(w) \/ RecoveryRaises(w)
             \/ Heartbeat(w) \/ BeginShutdown(w) \/ Release(w) \/ Crash(w)
             \/ Fence(w)
      PROVE [Fenced!Next]_(Fenced!vars)
  <2>1. CASE Start(w)
    BY <2>1 DEF Start, leaseVars, mutationVars
  <2>2. CASE InsertLease(w)
    BY <2>2 DEF InsertLease, leaseVars, mutationVars
  <2>3. CASE TakeLease(w)
    BY <2>3 DEF TakeLease, Unlocked, leaseVars, mutationVars
  <2>4. CASE ReadGeneration(w)
    BY <2>4 DEF ReadGeneration, leaseVars, mutationVars
  <2>5. CASE RefuseLease(w)
    BY <2>5 DEF RefuseLease, leaseVars, mutationVars
  <2>6. CASE BeginLeading(w)
    BY <2>6 DEF BeginLeading, leaseVars, mutationVars
  <2>7. CASE RecoveryRaises(w)
    BY <2>7 DEF RecoveryRaises, leaseVars, mutationVars
  <2>8. CASE StartRenew(w)
    BY <2>8 DEF StartRenew, leaseVars, mutationVars
  <2>9. CASE Renew(w)
    BY <2>9 DEF Renew, Unlocked, leaseVars, mutationVars
  <2>10. CASE RenewRefused(w)
    BY <2>10 DEF RenewRefused, leaseVars, mutationVars
  <2>11. CASE RenewRaises(w)
    BY <2>11 DEF RenewRaises, leaseVars, mutationVars
  <2>12. CASE BeginShutdown(w)
    BY <2>12 DEF BeginShutdown, leaseVars, mutationVars
  <2>13. CASE Release(w)
    BY <2>13 DEF Release, Released, Unlocked, leaseVars, mutationVars
  <2>14. CASE Crash(w)
    BY <2>14 DEF Crash, Fenced!Next, Fenced!End
  <2>15. CASE ReadActive(w)
    BY <2>15 DEF ReadActive, leaseVars, mutationVars
  <2>16. CASE EnterFence(w)
    <3> USE <2>16 DEF EnterFence, Unlocked
    <3>1. /\ lastTerm \in [owner : Workers \cup {NoWorker}, generation : Nat]
          /\ row.owner = w /\ row.generation = term[w] /\ term[w] \in Nat
      BY DEF FencePasses, IInv, TypeOK
    <3>2. \/ term[w] > lastTerm.generation
          \/ lastTerm.generation = term[w] /\ lastTerm.owner = w
      BY <3>1 DEF IInv, UsedTermsAreOld
    <3>3. CASE term[w] > lastTerm.generation
      BY <3>3 DEF Fenced!Next, Fenced!Begin
    <3>4. CASE lastTerm.generation = term[w] /\ lastTerm.owner = w
      <4>1. lastTerm = [owner |-> w, generation |-> term[w]]
        BY <3>1, <3>4
      <4> QED
        BY <4>1 DEF Fenced!Next, Fenced!Begin
    <3> QED
      BY <3>2, <3>3, <3>4
  <2>17. CASE FenceRefused(w)
    BY <2>17 DEF FenceRefused, Unlocked, leaseVars, mutationVars
  <2>18. CASE LeaveFence(w)
    BY <2>18 DEF LeaveFence, IInv, LockIsMutation, Fenced!Next, Fenced!End
  <2> QED
    BY <1>3, <2>1, <2>2, <2>3, <2>4, <2>5, <2>6, <2>7, <2>8, <2>9, <2>10, <2>11, <2>12, <2>13, <2>14, <2>15, <2>16, <2>17, <2>18
       DEF Acquire, Heartbeat, Fence
<1> QED
  BY <1>1, <1>2, <1>3 DEF Next

(* The specification implements FencedBroker: one mutation at a time, never *)
(* under a term older than one already used.                               *)
THEOREM FenceRefinement == Spec => FencedSpec
<1>1. Init => Fenced!Init
  BY FencedInit
<1>2. IInv /\ [Next]_vars => [Fenced!Next]_(Fenced!vars)
  BY FencedStep
<1> QED
  BY <1>1, <1>2, LeaseInvariant, PTL DEF Spec, FencedSpec, Fenced!Spec

====
