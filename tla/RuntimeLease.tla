---------------------------- MODULE RuntimeLease ----------------------------
(***************************************************************************)
(* The database-backed runtime leadership of                               *)
(*   backend/app/services/runtime_leadership_service.py                    *)
(* as backend/app/main.py and backend/app/core/ig_broker.py use it.        *)
(*                                                                         *)
(* A worker is one process incarnation: its owner id is drawn once per     *)
(* process (core/process_identity.py), so a restarted process is another   *)
(* worker and "stopped" is final.  Workers share the single lease row.     *)
(* Every call reads the clock into a timestamp before its statement        *)
(* reaches the database, and the statement may wait for the row lock, so a *)
(* timestamp can be old when it is used; stamp keeps it.                   *)
(*                                                                         *)
(* Orders are placed from process_price_update, which the polling and the  *)
(* streaming task call without awaiting: an order, its fence and a renewal *)
(* of the lease exclude each other on the event loop of one process.       *)
(***************************************************************************)
EXTENDS Integers, FiniteSets

CONSTANTS Workers,         \* process incarnations
          NoWorker,        \* the lease row before the first insert
          TTL,             \* lease_ttl
          MaxTime,         \* bound on the clock
          RenewMayRaise    \* does the database ever fail a renewal?

ASSUME WorkersAssumption == NoWorker \notin Workers
ASSUME TTLAssumption == TTL \in Nat \ {0}
ASSUME MaxTimeAssumption == MaxTime \in Nat
ASSUME RenewAssumption == RenewMayRaise \in BOOLEAN

VARIABLES
  clock,         \* the time the workers' clocks show
  row,           \* the RuntimeLease row; owner NoWorker: not inserted yet
  rowLock,       \* the worker whose fence transaction holds the row
  phase,         \* where each worker's lifespan is
  stamp,         \* the timestamp of the worker's lease call in progress
  generation,    \* leader_generation of the worker's lifespan, 0: none read
  active,        \* _ACTIVE_RUNTIME_LEADERSHIP of the process, 0: None
  heartbeat,     \* the leader heartbeat task
  loops,         \* are the managed autonomous tasks running?
  mutation,      \* the worker's broker mutation in progress
  term,          \* the leadership the mutation read before locking
  lastTerm       \* history: owner and generation of the last mutation begun

vars == <<clock, row, rowLock, phase, stamp, generation, active, heartbeat,
          loops, mutation, term, lastTerm>>
leaseVars == <<row, rowLock>>
workerVars == <<phase, stamp, generation, active, heartbeat, loops>>
mutationVars == <<mutation, term, lastTerm>>

Phases == {"down", "acquiring", "taken", "elected", "leading", "releasing",
           "standby", "stopped"}
NoTerm == [owner |-> NoWorker, generation |-> 0]

TypeOK ==
  /\ clock \in Nat
  /\ row \in [owner : Workers \cup {NoWorker}, generation : Nat,
              expires : Nat, released : BOOLEAN]
  /\ rowLock \in Workers \cup {NoWorker}
  /\ phase \in [Workers -> Phases]
  /\ stamp \in [Workers -> Nat]
  /\ generation \in [Workers -> Nat]
  /\ active \in [Workers -> Nat]
  /\ heartbeat \in [Workers -> {"off", "sleeping", "renewing", "lost", "dead"}]
  /\ loops \in [Workers -> BOOLEAN]
  /\ mutation \in [Workers -> {"idle", "locking", "mutating"}]
  /\ term \in [Workers -> Nat]
  /\ lastTerm \in [owner : Workers \cup {NoWorker}, generation : Nat]

Init ==
  /\ clock = 0
  /\ row = [owner |-> NoWorker, generation |-> 0, expires |-> 0,
            released |-> FALSE]
  /\ rowLock = NoWorker
  /\ phase = [w \in Workers |-> "down"]
  /\ stamp = [w \in Workers |-> 0]
  /\ generation = [w \in Workers |-> 0]
  /\ active = [w \in Workers |-> 0]
  /\ heartbeat = [w \in Workers |-> "off"]
  /\ loops = [w \in Workers |-> FALSE]
  /\ mutation = [w \in Workers |-> "idle"]
  /\ term = [w \in Workers |-> 0]
  /\ lastTerm = NoTerm

\* A statement that matches the row waits for the fence that holds it (the
\* mutant does not wait).
Unlocked_NoWait == TRUE
Unlocked == rowLock = NoWorker

\* The statement's WHERE clauses.  An UPDATE that matches the row waits for
\* the fence that holds it; one that matches nothing returns at once.  (The
\* mutants: a lease that ends a tick early, and a fence that does not ask
\* whose lease it is.)
Takeable_EarlyExpiry(w) ==
  row.owner = w \/ row.released \/ row.expires <= stamp[w] + 1
Takeable(w) == row.owner = w \/ row.released \/ row.expires <= stamp[w]
Renewable(w) == /\ row.owner = w
                /\ row.generation = generation[w]
                /\ ~row.released
                /\ row.expires > stamp[w]
Releasable(w) == /\ row.owner = w
                 /\ row.generation = generation[w]
                 /\ ~row.released
FencePasses_AnyTerm(w) == ~row.released /\ row.expires > clock
FencePasses(w) == /\ row.owner = w
                  /\ row.generation = term[w]
                  /\ ~row.released
                  /\ row.expires > clock

-----------------------------------------------------------------------------
(* Start of a process: acquire, read the generation back, lead or stand by. *)

Tick ==
  /\ clock < MaxTime
  /\ clock' = clock + 1
  /\ UNCHANGED <<leaseVars, workerVars, mutationVars>>

Start(w) ==
  /\ phase[w] = "down"
  /\ phase' = [phase EXCEPT ![w] = "acquiring"]
  /\ stamp' = [stamp EXCEPT ![w] = clock]
  /\ UNCHANGED <<clock, leaseVars, generation, active, heartbeat, loops,
                 mutationVars>>

InsertLease(w) ==
  /\ phase[w] = "acquiring"
  /\ row.owner = NoWorker
  /\ row' = [owner |-> w, generation |-> 1, expires |-> stamp[w] + TTL,
             released |-> FALSE]
  /\ generation' = [generation EXCEPT ![w] = 1]
  /\ phase' = [phase EXCEPT ![w] = "elected"]
  /\ UNCHANGED <<clock, rowLock, stamp, active, heartbeat, loops, mutationVars>>

TakeLease(w) ==
  /\ phase[w] = "acquiring"
  /\ row.owner # NoWorker
  /\ Unlocked
  /\ Takeable(w)
  /\ row' = [owner |-> w, generation |-> row.generation + 1,
             expires |-> stamp[w] + TTL, released |-> FALSE]
  /\ phase' = [phase EXCEPT ![w] = "taken"]
  /\ UNCHANGED <<clock, rowLock, stamp, generation, active, heartbeat, loops,
                 mutationVars>>

\* The generation is read in a transaction of its own, after the commit.
ReadGeneration(w) ==
  /\ phase[w] = "taken"
  /\ generation' = [generation EXCEPT ![w] = row.generation]
  /\ phase' = [phase EXCEPT ![w] = "elected"]
  /\ UNCHANGED <<clock, leaseVars, stamp, active, heartbeat, loops,
                 mutationVars>>

RefuseLease(w) ==
  /\ phase[w] = "acquiring"
  /\ row.owner # NoWorker
  /\ ~Takeable(w)
  /\ phase' = [phase EXCEPT ![w] = "standby"]
  /\ UNCHANGED <<clock, leaseVars, stamp, generation, active, heartbeat, loops,
                 mutationVars>>

\* activate_runtime_leadership, recover, create_task of every loop.
BeginLeading(w) ==
  /\ phase[w] = "elected"
  /\ active' = [active EXCEPT ![w] = generation[w]]
  /\ phase' = [phase EXCEPT ![w] = "leading"]
  /\ loops' = [loops EXCEPT ![w] = TRUE]
  /\ heartbeat' = [heartbeat EXCEPT ![w] = "sleeping"]
  /\ UNCHANGED <<clock, leaseVars, stamp, generation, mutationVars>>

\* recover() raises: only the outer finally runs, the lease is not released.
RecoveryRaises(w) ==
  /\ phase[w] = "elected"
  /\ phase' = [phase EXCEPT ![w] = "stopped"]
  /\ UNCHANGED <<clock, leaseVars, stamp, generation, active, heartbeat, loops,
                 mutationVars>>

-----------------------------------------------------------------------------
(* The heartbeat task and the end of the process.                          *)

StartRenew(w) ==
  /\ phase[w] = "leading"
  /\ heartbeat[w] = "sleeping"
  /\ mutation[w] = "idle"
  /\ stamp' = [stamp EXCEPT ![w] = clock]
  /\ heartbeat' = [heartbeat EXCEPT ![w] = "renewing"]
  /\ UNCHANGED <<clock, leaseVars, phase, generation, active, loops,
                 mutationVars>>

Renew(w) ==
  /\ heartbeat[w] = "renewing"
  /\ Unlocked
  /\ Renewable(w)
  /\ row' = [row EXCEPT !.expires = stamp[w] + TTL]
  /\ heartbeat' = [heartbeat EXCEPT ![w] = "sleeping"]
  /\ UNCHANGED <<clock, rowLock, phase, stamp, generation, active, loops,
                 mutationVars>>

\* Not renewed: every managed task is cancelled and the heartbeat returns.
\* The process stays active under its old generation.  (The mutant does not
\* cancel the tasks.)
RenewRefused_LoopsStay(w) ==
  /\ heartbeat[w] = "renewing"
  /\ ~Renewable(w)
  /\ heartbeat' = [heartbeat EXCEPT ![w] = "lost"]
  /\ UNCHANGED <<clock, leaseVars, phase, stamp, generation, active, loops,
                 mutationVars>>
RenewRefused(w) ==
  /\ heartbeat[w] = "renewing"
  /\ ~Renewable(w)
  /\ heartbeat' = [heartbeat EXCEPT ![w] = "lost"]
  /\ loops' = [loops EXCEPT ![w] = FALSE]
  /\ UNCHANGED <<clock, leaseVars, phase, stamp, generation, active,
                 mutationVars>>

\* The database raises: the heartbeat task dies and nobody watches it.
RenewRaises(w) ==
  /\ RenewMayRaise
  /\ heartbeat[w] = "renewing"
  /\ heartbeat' = [heartbeat EXCEPT ![w] = "dead"]
  /\ UNCHANGED <<clock, leaseVars, phase, stamp, generation, active, loops,
                 mutationVars>>

\* Shutdown reaches the heartbeat only between renewals (at its sleep).
BeginShutdown(w) ==
  /\ phase[w] = "leading"
  /\ heartbeat[w] # "renewing"
  /\ mutation[w] = "idle"
  /\ phase' = [phase EXCEPT ![w] = "releasing"]
  /\ heartbeat' = [heartbeat EXCEPT ![w] = "off"]
  /\ loops' = [loops EXCEPT ![w] = FALSE]
  /\ stamp' = [stamp EXCEPT ![w] = clock]
  /\ UNCHANGED <<clock, leaseVars, generation, active, mutationVars>>

\* The released lease ends at the release (the mutant: one TTL before).
Released_TTLBefore(w) == [row EXCEPT !.released = TRUE,
                                     !.expires = stamp[w] - TTL]
Released(w) == [row EXCEPT !.released = TRUE, !.expires = stamp[w]]

\* release, then deactivate_runtime_leadership.
Release(w) ==
  /\ phase[w] = "releasing"
  /\ Releasable(w) => Unlocked
  /\ row' = IF Releasable(w) THEN Released(w) ELSE row
  /\ active' = [active EXCEPT ![w] = 0]
  /\ phase' = [phase EXCEPT ![w] = "stopped"]
  /\ UNCHANGED <<clock, rowLock, stamp, generation, heartbeat, loops,
                 mutationVars>>

\* A crash drops the connection, and with it the lock of the fence.
Crash(w) ==
  /\ phase[w] \notin {"down", "stopped"}
  /\ phase' = [phase EXCEPT ![w] = "stopped"]
  /\ active' = [active EXCEPT ![w] = 0]
  /\ heartbeat' = [heartbeat EXCEPT ![w] = "off"]
  /\ loops' = [loops EXCEPT ![w] = FALSE]
  /\ mutation' = [mutation EXCEPT ![w] = "idle"]
  /\ rowLock' = IF rowLock = w THEN NoWorker ELSE rowLock
  /\ UNCHANGED <<clock, row, stamp, generation, term, lastTerm>>

-----------------------------------------------------------------------------
(* hold_active_runtime_leadership_fence around one real order or close.     *)

\* active is None: the mutation is refused before any statement.
ReadActive(w) ==
  /\ loops[w]
  /\ heartbeat[w] # "renewing"
  /\ mutation[w] = "idle"
  /\ active[w] # 0
  /\ mutation' = [mutation EXCEPT ![w] = "locking"]
  /\ term' = [term EXCEPT ![w] = active[w]]
  /\ UNCHANGED <<clock, leaseVars, workerVars, lastTerm>>

EnterFence(w) ==
  /\ mutation[w] = "locking"
  /\ Unlocked
  /\ FencePasses(w)
  /\ rowLock' = w
  /\ mutation' = [mutation EXCEPT ![w] = "mutating"]
  /\ lastTerm' = [owner |-> w, generation |-> term[w]]
  /\ UNCHANGED <<clock, row, workerVars, term>>

FenceRefused(w) ==
  /\ mutation[w] = "locking"
  /\ Unlocked
  /\ ~FencePasses(w)
  /\ mutation' = [mutation EXCEPT ![w] = "idle"]
  /\ UNCHANGED <<clock, leaseVars, workerVars, term, lastTerm>>

LeaveFence_KeepsLock(w) ==
  /\ mutation[w] = "mutating"
  /\ mutation' = [mutation EXCEPT ![w] = "idle"]
  /\ UNCHANGED <<clock, leaseVars, workerVars, term, lastTerm>>
LeaveFence(w) ==
  /\ mutation[w] = "mutating"
  /\ rowLock' = NoWorker
  /\ mutation' = [mutation EXCEPT ![w] = "idle"]
  /\ UNCHANGED <<clock, row, workerVars, term, lastTerm>>

-----------------------------------------------------------------------------
Acquire(w) == \/ InsertLease(w) \/ TakeLease(w) \/ ReadGeneration(w)
              \/ RefuseLease(w)
Heartbeat(w) == StartRenew(w) \/ Renew(w) \/ RenewRefused(w) \/ RenewRaises(w)
Fence(w) == ReadActive(w) \/ EnterFence(w) \/ FenceRefused(w) \/ LeaveFence(w)

Next ==
  \/ Tick
  \/ \E w \in Workers :
       \/ Start(w) \/ Acquire(w) \/ BeginLeading(w) \/ RecoveryRaises(w)
       \/ Heartbeat(w) \/ BeginShutdown(w) \/ Release(w) \/ Crash(w)
       \/ Fence(w)

Spec == Init /\ [][Next]_vars

\* A started lifespan goes on and the broker call in a fence returns.  The
\* event loop serves its ready callbacks in turn, so orders cannot keep the
\* heartbeat from running for ever, and a statement waiting for the row lock
\* is in the lock's queue and not passed over for ever (strong fairness).
\* Nothing obliges a process to start, crash, shut down or place an order.
Fairness ==
  \A w \in Workers :
    /\ WF_vars(InsertLease(w) \/ ReadGeneration(w) \/ RefuseLease(w)
                 \/ BeginLeading(w) \/ RecoveryRaises(w) \/ LeaveFence(w))
    /\ SF_vars(TakeLease(w))
    /\ SF_vars(StartRenew(w))
    /\ WF_vars(RenewRefused(w))
    /\ SF_vars(EnterFence(w) \/ FenceRefused(w))

FairSpec == Spec /\ Fairness

-----------------------------------------------------------------------------
(* Properties                                                              *)

\* While a worker's real order or close is in flight the lease row is still
\* its own, unreleased and of the generation it started under: no takeover
\* overlaps a stale leader's mutation (ARCH-015).
MutationUnderOwnLease ==
  \A w \in Workers : mutation[w] = "mutating" =>
    /\ rowLock = w
    /\ row.owner = w
    /\ row.generation = term[w]
    /\ ~row.released

\* Leadership changes hands only with a larger generation, and only after
\* the lease was released or had expired by the common clock, whatever
\* timestamps the competing calls carried.
TakeoverOnlyOfEndedLease ==
  [][row'.owner # row.owner =>
       /\ row'.generation > row.generation
       /\ row.owner = NoWorker \/ row.released \/ row.expires <= clock]_vars

\* The lease and the fence implement the abstract fenced broker.
Fenced == INSTANCE FencedBroker WITH mutator <- rowLock
FencedSpec == Fenced!Spec

\* When the lease has gone to somebody else the old leader's loops stop, so
\* that they are not duplicated (docs/audit-status.md); unless an error of the
\* database has ended the heartbeat task, which nobody watches.
LostLeaderStops ==
  \A w \in Workers :
    (loops[w] /\ row.owner # w) ~> (~loops[w] \/ heartbeat[w] = "dead")

\* A process that asks for the lease gets an answer, however long the fence
\* it may have to wait for; nobody waits for ever.
AcquireAnswered ==
  \A w \in Workers : (phase[w] = "acquiring") ~> (phase[w] # "acquiring")
=============================================================================
