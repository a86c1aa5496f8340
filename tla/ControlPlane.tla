---------------------------- MODULE ControlPlane ----------------------------
(***************************************************************************)
(* Which engines run, in which mode, and what is said about open risk:     *)
(*   services/strategy_deployment_manager_service.py   the reconcile cycle *)
(*   services/runtime_recovery_service.py              after a restart     *)
(*   services/runtime_state_service.py                 the runtime rows    *)
(*   services/strategy_service.py     start, stop, mode, the row of a price*)
(*   core/runtime.py                                   the engines         *)
(* (paths under backend/app).                                              *)
(*                                                                         *)
(* Two threads act on the engines and rows.  The event loop runs reconcile *)
(* cycles and price calls; one thread beside it runs what the API or the   *)
(* reconciliation supervisor asks for.  A call is a set of commands; a     *)
(* command is checked against the engines in memory first and written to   *)
(* the database later, and the other thread may act in between.            *)
(*                                                                         *)
(* A key is a strategy family on an instrument.  Bounds: each key trades   *)
(* one deal and MaxDeals deals are traded in all, MaxCrashes crashes       *)
(* happen, and MaxCalls calls beside the loop or edits of the governance.  *)
(* A runtime id is a key and a number up to MaxIds; a number that nothing  *)
(* refers to is used again.                                                *)
(***************************************************************************)
EXTENDS LifecycleRules, Integers, FiniteSets

CONSTANTS
  FamilyCount,  \* families are numbered in the order of their names
  Instruments,
  Profiles,     \* parameter profiles a family may be approved for
  Default,      \* the profile of a start that names none
  Decisions,    \* governance decisions considered, a subset of Governance
  Views,        \* market and health findings considered, of MarketViews
  Overlapping,  \* may a call beside the loop meet one of the loop?
  MaxIds, MaxDeals, MaxCrashes, MaxCalls,
  None

Governance == {"AUTONOMOUS", "SUPERVISED", "EMERGENCY", "NOT_APPROVED"}
MarketViews == {"OK", "CLOSED", "DEGRADED", "CRITICAL", "NO_CANDIDATE"}

ASSUME FamilyAssumption == FamilyCount \in Nat \ {0}
ASSUME ProfileAssumption == Default \in Profiles
ASSUME DecisionAssumption == Decisions \subseteq Governance
ASSUME ViewAssumption == Views \subseteq MarketViews
ASSUME OverlappingAssumption == Overlapping \in BOOLEAN
ASSUME BoundAssumption ==
  {MaxIds, MaxDeals, MaxCrashes, MaxCalls} \subseteq Nat
ASSUME NoneAssumption ==
  None \notin {"NORMAL", "EXITS_ONLY", "STOPPED", "AUTO", "MANUAL"}

Families == 1 .. FamilyCount
Keys == Families \X Instruments
Threads == {"loop", "beside"}
Other(t) == IF t = "loop" THEN "beside" ELSE "loop"

VARIABLES
  governance,  \* StrategyFamilyGovernance, as far as the target depends on it
  profile,     \* the profile governance selects for each family
  deployment,  \* StrategyDeployment: its state and what it says of open risk
  rows,        \* StrategyRuntimeState of each key
  engines,     \* runtime_manager.engines: the runtime id of each key, or 0
  objects,     \* the engine objects created since the process started
  positions,   \* the Position row of each key
  intents,     \* the state of its TradeIntent
  deals,       \* the broker's position of each key
  call,        \* the call each thread is in
  phase,       \* of the process
  recovery,    \* what is left to recover, and what the broker answered
  overlapped,  \* history: have the two threads ever been in calls at once?
  abortedAt,   \* history: the family at which the last cycle raised, or 0
  spent        \* bounds: crashes, calls beside the loop

memory == <<engines, objects>>
risk == <<positions, intents, deals>>
policy == <<governance, profile>>
vars == <<governance, profile, deployment, rows, engines, objects, positions,
          intents, deals, call, phase, recovery, overlapped, abortedAt, spent>>

Modes == {"NORMAL", "EXITS_ONLY", "STOPPED"}
Ids == 0 .. MaxIds
DeploymentStates ==
  {"NOT_APPROVED", "APPROVED", "AUTO_DEPLOYED", "AUTO_PAUSED", "BLOCKED",
   "DEGRADED", "EMERGENCY_STOPPED"}
RiskStates == {"NO_OPEN_RISK", "MANAGED", "EXITS_ONLY", "UNMANAGED_OPEN_RISK"}

NoRow == [id |-> 0, status |-> "STOPPED", recovery |-> "PAUSED",
          control |-> "MANUAL", mode |-> "STOPPED", profile |-> Default,
          linked |-> FALSE]
NoObject == [mode |-> "STOPPED", profile |-> Default, holds |-> FALSE]

\* One command of a call: what to do, to which key, with which engine object;
\* the mode and the control mode to write, None for "as it is".
Command(do, k, id, mode, control) ==
  [do |-> do, key |-> k, id |-> id, mode |-> mode, control |-> control,
   linked |-> FALSE]
NoCommand == Command("nothing", <<1, None>>, 0, None, None)
Commands ==
  [do : {"resolve", "start", "mode", "mode_if_up", "stop", "stop_if_up",
         "mark", "sync", "write", "trade", "attach", "close", "force",
         "detach"},
   key : Keys, id : Ids, mode : Modes \cup {None},
   control : {"AUTO", "MANUAL", None}, linked : BOOLEAN]

IdleCall == [kind |-> "idle", stage |-> "commands", family |-> 0, plan |-> {},
             now |-> NoCommand, state |-> "NOT_APPROVED",
             instrument |-> None, profile |-> Default,
             open |-> {}, risk |-> "NO_OPEN_RISK"]

TypeOK ==
  /\ governance \in [Families -> Governance]
  /\ profile \in [Families -> Profiles]
  /\ deployment \in [Families -> [state : DeploymentStates, risk : RiskStates]]
  /\ rows \in [Keys -> [id : Ids, status : {"RUNNING", "STOPPED"},
                        recovery : {"RUNNING", "PAUSED", "RECOVERY_REQUIRED"},
                        control : {"AUTO", "MANUAL"}, mode : Modes,
                        profile : Profiles, linked : BOOLEAN]]
  /\ engines \in [Keys -> Ids]
  /\ objects \in [Keys \X Ids -> [mode : Modes, profile : Profiles, holds : BOOLEAN]]
  /\ positions \in [Keys -> {Absent, "open", "closed"}]
  /\ intents \in [Keys -> IntentStates \cup {Absent}]
  /\ deals \in [Keys -> {Absent, "open", "closed"}]
  /\ call \in [Threads ->
       [kind : {"idle", "cycle", "price", "operator", "supervisor"},
        stage : {"commands", "evaluate", "ensure", "confirm", "assess",
                 "conclude", "listing"},
        family : 0 .. FamilyCount, plan : SUBSET Commands,
        now : Commands \cup {NoCommand}, state : DeploymentStates,
        instrument : Instruments \cup {None}, profile : Profiles,
        open : SUBSET Keys, risk : RiskStates]]
  /\ phase \in {"down", "recovering", "ready", "up", "failed"}
  /\ recovery \in [todo : SUBSET Keys, remote : SUBSET Keys, error : BOOLEAN]
  /\ overlapped \in BOOLEAN
  /\ abortedAt \in 0 .. FamilyCount
  /\ spent \in [crashes : 0 .. MaxCrashes, calls : 0 .. MaxCalls]

Init ==
  /\ governance \in [Families -> Decisions]
  /\ profile = [f \in Families |-> Default]
  /\ deployment = [f \in Families |->
                     [state |-> "NOT_APPROVED", risk |-> "NO_OPEN_RISK"]]
  /\ rows = [k \in Keys |-> NoRow]
  /\ engines = [k \in Keys |-> 0]
  /\ objects = [o \in Keys \X Ids |-> NoObject]
  /\ positions = [k \in Keys |-> Absent]
  /\ intents = [k \in Keys |-> Absent]
  /\ deals = [k \in Keys |-> Absent]
  /\ call = [t \in Threads |-> IdleCall]
  /\ phase = "up"
  /\ recovery = [todo |-> {}, remote |-> {}, error |-> FALSE]
  /\ overlapped = FALSE
  /\ abortedAt = 0
  /\ spent = [crashes |-> 0, calls |-> 0]

-----------------------------------------------------------------------------
(* Rows and engines.                                                       *)

OpenKeys(f) == {k \in Keys : k[1] = f /\ positions[k] = "open"}
Up(k) == engines[k] # 0
Registered(k) == <<k, engines[k]>>
AutoRows(f) == {k \in Keys : /\ k[1] = f /\ rows[k].status = "RUNNING"
                             /\ rows[k].control = "AUTO"}

\* A runtime of the operator keeps the manager away, whether its engine is in
\* memory or not.  (The mutant looks for the engine.)
ManualRows_InMemory(f) ==
  {k \in Keys : /\ k[1] = f /\ rows[k].status = "RUNNING"
                /\ rows[k].control = "MANUAL" /\ Up(k)}
ManualRows(f) == {k \in Keys : /\ k[1] = f /\ rows[k].status = "RUNNING"
                               /\ rows[k].control = "MANUAL"}

\* sync_engine_state: identity, profile and position come from the engine
\* that is registered now, whoever the caller thought it was; the control
\* mode of the row is kept unless the caller gives one.  (The mutant keeps the
\* mode too.)
SyncedRow_KeepsMode(k, c) ==
  [id |-> c.id, status |-> "RUNNING", recovery |-> "RUNNING",
   control |-> IF c.control = None THEN rows[k].control ELSE c.control,
   mode |-> IF rows[k].id # 0 THEN rows[k].mode
            ELSE IF c.mode = None THEN "NORMAL" ELSE c.mode,
   profile |-> objects[<<k, c.id>>].profile, linked |-> c.linked]
SyncedRow(k, c) ==
  [id |-> c.id, status |-> "RUNNING", recovery |-> "RUNNING",
   control |-> IF c.control = None THEN rows[k].control ELSE c.control,
   mode |-> IF c.mode # None THEN c.mode
            ELSE IF rows[k].id = 0 THEN "NORMAL" ELSE rows[k].mode,
   profile |-> objects[<<k, c.id>>].profile, linked |-> c.linked]

\* (The mutant writes the two states into each other's column.)
StoppedRow_Swapped(row) == [row EXCEPT !.status = "PAUSED",
                                       !.recovery = "STOPPED", !.mode = "STOPPED"]
StoppedRow(row) == [row EXCEPT !.status = "STOPPED", !.recovery = "PAUSED",
                               !.mode = "STOPPED"]

\* _resolve_runtime_start_mode of a start that names no mode.
DefaultMode(k) ==
  IF rows[k].id # 0 /\ rows[k].mode \in {"NORMAL", "EXITS_ONLY"}
    THEN rows[k].mode
  ELSE IF deployment[k[1]].risk = "EXITS_ONLY" THEN "EXITS_ONLY"
  ELSE "NORMAL"

StartRefused(k, mode) == /\ deployment[k[1]].risk = "UNMANAGED_OPEN_RISK"
                         /\ mode \in {None, "NORMAL"}

-----------------------------------------------------------------------------
(* A call: one command at a time, to its end.                              *)

Running == phase \in {"ready", "up"}
Busy(t) == call[t].kind # "idle"
Now(t) == call[t].now
SetCall(t, c) == call' = [call EXCEPT ![t] = c]

\* The command at work or, between two, any of the plan: rows are listed
\* without an order.  The trades of a price follow the rows of its engines.
Due(t) ==
  IF ~Running THEN {}
  ELSE IF Now(t) # NoCommand THEN {Now(t)}
  ELSE {c \in call[t].plan :
          c.do = "trade" => \A d \in call[t].plan : d.do = "trade"}
Does(t, c, do) == c \in Due(t) /\ c.do = do
Then(t, c, next) ==
  SetCall(t, [call[t] EXCEPT !.plan = @ \ {c}, !.now = next])
Done(t, c) == Then(t, c, NoCommand)

\* An exception ends the call; a reconcile cycle ends with all the families
\* that were still to come.
Raise(t) ==
  /\ SetCall(t, IdleCall)
  /\ abortedAt' = IF call[t].kind = "cycle" THEN call[t].family ELSE abortedAt
NoRaise == UNCHANGED abortedAt

Begin(t, c) ==
  /\ Running
  /\ ~Busy(t)
  /\ phase' = "up"
  /\ Busy(Other(t)) => Overlapping
  /\ overlapped' = (overlapped \/ Busy(Other(t)))
  /\ t = "beside" => spent.calls < MaxCalls
  /\ spent' = IF t = "beside" THEN [spent EXCEPT !.calls = @ + 1] ELSE spent
  /\ SetCall(t, c)
  /\ UNCHANGED <<policy, deployment, rows, memory, risk, recovery, abortedAt>>

\* start_strategy: the mode is resolved, the engine is created without a
\* position, and its row is written.
Resolve(t, c) ==
  /\ Does(t, c, "resolve")
  /\ IF StartRefused(c.key, c.mode)
       THEN Raise(t)
       ELSE /\ Then(t, c, [c EXCEPT !.do = "start",
                   !.mode = IF @ = None THEN DefaultMode(c.key) ELSE @])
            /\ NoRaise
  /\ UNCHANGED <<policy, deployment, rows, memory, risk, phase, recovery,
                 overlapped, spent>>

\* An engine object is gone with the last call that works on it.
Held(k, id, t) == \E c \in call[t].plan \cup {Now(t)} : c.key = k /\ c.id = id

\* A new runtime id (the first of the unused ones, for TLC's sake).
Unused(k) == {i \in Ids \ {0, engines[k]} :
  /\ i = rows[k].id => rows[k].status = "STOPPED"
  /\ \A t \in Threads : ~Held(k, i, t)}
NewId(k) == CHOOSE i \in Unused(k) : \A j \in Unused(k) : i <= j

Start(t, c) ==
  /\ Does(t, c, "start")
  /\ IF Up(c.key)
       THEN Raise(t) /\ UNCHANGED memory
       ELSE /\ Unused(c.key) # {}
            /\ engines' = [engines EXCEPT ![c.key] = NewId(c.key)]
            /\ objects' = [objects EXCEPT ![<<c.key, NewId(c.key)>>] =
                 [mode |-> c.mode, profile |-> call[t].profile, holds |-> FALSE]]
            /\ Then(t, c, [c EXCEPT !.do = "sync", !.id = NewId(c.key)])
            /\ NoRaise
  /\ UNCHANGED <<policy, deployment, rows, risk, phase, recovery, overlapped,
                 spent>>

\* set_runtime_mode.
SetMode(t, c) ==
  /\ Does(t, c, "mode") \/ Does(t, c, "mode_if_up")
  /\ IF ~Up(c.key)
       THEN /\ IF c.do = "mode" THEN Raise(t) ELSE Done(t, c) /\ NoRaise
            /\ UNCHANGED objects
       ELSE /\ objects' = [objects EXCEPT ![Registered(c.key)].mode = c.mode]
            /\ Then(t, c, [c EXCEPT !.do = "sync", !.id = engines[c.key]])
            /\ NoRaise
  /\ UNCHANGED <<policy, deployment, rows, engines, risk, phase, recovery,
                 overlapped, spent>>

\* stop_strategy: the engine leaves memory first, its row follows.
Stop(t, c) ==
  /\ Does(t, c, "stop") \/ Does(t, c, "stop_if_up")
  /\ IF Up(c.key)
       THEN /\ engines' = [engines EXCEPT ![c.key] = 0]
            /\ Then(t, c, [c EXCEPT !.do = "mark", !.id = engines[c.key]])
            /\ NoRaise
       ELSE /\ IF c.do = "stop" THEN Raise(t) ELSE Done(t, c) /\ NoRaise
            /\ UNCHANGED engines
  /\ UNCHANGED <<policy, deployment, rows, objects, risk, phase, recovery,
                 overlapped, spent>>

\* mark_stopped finds the row by the id of the engine that was stopped.
Marked(k, id) == IF rows[k].id = id THEN StoppedRow(rows[k]) ELSE rows[k]

Mark(t, c) ==
  /\ Does(t, c, "mark")
  /\ rows' = [rows EXCEPT ![c.key] = Marked(c.key, c.id)]
  /\ Done(t, c)
  /\ objects' = IF Held(c.key, c.id, Other(t)) THEN objects
                 ELSE [objects EXCEPT ![<<c.key, c.id>>] = NoObject]
  /\ UNCHANGED <<policy, deployment, engines, risk, phase, recovery, overlapped,
                 abortedAt, spent>>

\* sync_engine_state looks the engine up, and raises without one ...
Sync(t, c) ==
  /\ Does(t, c, "sync")
  /\ LET id == engines[c.key]
     IN  IF id = 0 THEN Raise(t)
         ELSE /\ Then(t, c, [c EXCEPT !.do = "write", !.id = id,
                    !.mode = IF @ = None /\ call[t].kind = "price"
                               THEN objects[<<c.key, c.id>>].mode ELSE @,
                    !.linked = objects[<<c.key, c.id>>].holds
                                 \/ objects[<<c.key, id>>].holds])
              /\ NoRaise
  /\ UNCHANGED <<policy, deployment, rows, memory, risk, phase, recovery,
                 overlapped, spent>>

\* ... and writes what it found.
Write(t, c) ==
  /\ Does(t, c, "write")
  /\ rows' = [rows EXCEPT ![c.key] = SyncedRow(c.key, c)]
  /\ Done(t, c)
  /\ UNCHANGED <<policy, deployment, memory, risk, phase, recovery, overlapped,
                 abortedAt, spent>>

-----------------------------------------------------------------------------
(* StrategyDeploymentManagerService.reconcile, one family after the other. *)

\* _evaluate_target_state: governance first, then health and market.
TargetState(f, view) ==
  CASE governance[f] = "NOT_APPROVED" -> "NOT_APPROVED"
    [] governance[f] = "EMERGENCY" -> "EMERGENCY_STOPPED"
    [] governance[f] = "SUPERVISED" -> "APPROVED"
    [] view \in {"NO_CANDIDATE", "CRITICAL"} -> "BLOCKED"
    [] view = "CLOSED" -> "AUTO_PAUSED"
    [] view = "DEGRADED" -> "DEGRADED"
    [] view = "OK" -> "AUTO_DEPLOYED"

\* _ensure_auto_runtime: what happens to a running AUTO runtime when the
\* target is this instrument and profile.  (The mutant rotates away from an
\* open position.)
RotationCommands_Blind(f, instrument, chosen, open) ==
  {Command("stop", k, 0, None, None) :
     k \in {k \in AutoRows(f) : k[2] # instrument}}
RotationCommands(f, instrument, chosen, open) ==
  {Command("mode", k, 0, "EXITS_ONLY", None) :
     k \in {k \in AutoRows(f) : k[2] # instrument /\ k \in open}}
  \cup
  {Command("stop", k, 0, None, None) :
     k \in {k \in AutoRows(f) : \/ k[2] # instrument /\ k \notin open
                                \/ k[2] = instrument /\ rows[k].profile # chosen}}

\* _handle_non_auto_runtime_transition: open positions whose exits cannot be
\* handled by a running AUTO engine, and what follows.
Unprotected(f, open, eligible) ==
  {k \in open : k[2] \notin eligible \/ k \notin AutoRows(f) \/ ~Up(k)}
Retained(f, open, eligible) == open # {} /\ Unprotected(f, open, eligible) = {}

\* (The mutants: the mode stays as it is, and every engine is stopped.)
WithdrawalCommands_StopAll(f, open, eligible) ==
  {Command("stop_if_up", k, 0, None, None) : k \in AutoRows(f)}
WithdrawalCommands_Lax(f, open, eligible) ==
  IF Retained(f, open, eligible)
    THEN {Command("stop_if_up", k, 0, None, None) : k \in AutoRows(f) \ open}
    ELSE {Command("stop_if_up", k, 0, None, None) : k \in AutoRows(f)}
WithdrawalCommands(f, open, eligible) ==
  IF Retained(f, open, eligible)
    THEN {Command("mode_if_up", k, 0, "EXITS_ONLY", None) :
            k \in AutoRows(f) \cap open}
         \cup
         {Command("stop_if_up", k, 0, None, None) : k \in AutoRows(f) \ open}
    ELSE {Command("stop_if_up", k, 0, None, None) : k \in AutoRows(f)}
WithdrawalRisk(f, open, eligible) ==
  IF open = {} THEN "NO_OPEN_RISK"
  ELSE IF Retained(f, open, eligible) THEN "EXITS_ONLY"
  ELSE "UNMANAGED_OPEN_RISK"

\* _assess_open_risk_management, after the runtimes of an AUTO target were
\* seen to.  (The mutant is content with one position that is protected.)
AssessedRisk_Any(f, open, eligible) ==
  IF open = {} THEN "NO_OPEN_RISK"
  ELSE IF Unprotected(f, open, eligible) = open THEN "UNMANAGED_OPEN_RISK"
  ELSE IF \E k \in open : rows[k].mode = "EXITS_ONLY" THEN "EXITS_ONLY"
  ELSE "MANAGED"
AssessedRisk(f, open, eligible) ==
  IF open = {} THEN "NO_OPEN_RISK"
  ELSE IF Unprotected(f, open, eligible) # {} THEN "UNMANAGED_OPEN_RISK"
  ELSE IF \E k \in open : rows[k].mode = "EXITS_ONLY" THEN "EXITS_ONLY"
  ELSE "MANAGED"

StartCycle(t) ==
  Begin(t, [IdleCall EXCEPT !.kind = "cycle", !.stage = "evaluate",
                            !.family = 1])

InCycle(t, stage) ==
  Running /\ call[t].kind = "cycle" /\ call[t].stage = stage

\* Everything that is read before the first command of a family.
Evaluate(t) ==
  /\ InCycle(t, "evaluate")
  /\ \E view \in Views, instrument \in Instruments, eligible \in SUBSET Instruments :
       LET f == call[t].family
           open == OpenKeys(f)
           target == TargetState(f, view)
           planned == [call[t] EXCEPT
             !.open = open, !.instrument = instrument, !.profile = profile[f]]
       IN  SetCall(t,
             IF target # "AUTO_DEPLOYED" THEN
               [planned EXCEPT !.state = target, !.stage = "conclude",
                  !.plan = WithdrawalCommands(f, open, eligible),
                  !.risk = WithdrawalRisk(f, open, eligible)]
             ELSE IF ManualRows(f) # {} THEN
               [planned EXCEPT !.state = "BLOCKED", !.stage = "conclude",
                  !.risk = "NO_OPEN_RISK"]
             ELSE
               [planned EXCEPT !.state = target, !.stage = "ensure",
                  !.plan = RotationCommands(f, instrument, profile[f], open)])
  /\ UNCHANGED <<policy, deployment, rows, memory, risk, phase, recovery,
                 overlapped, abortedAt, spent>>

\* The selected instrument gets an engine in NORMAL mode if it has none, ...
Planned(t) == call[t].plan = {} /\ Now(t) = NoCommand
Target(t) == <<call[t].family, call[t].instrument>>

Ensure(t) ==
  /\ InCycle(t, "ensure") /\ Planned(t)
  /\ SetCall(t, [call[t] EXCEPT !.stage = "confirm",
       !.now = IF Up(Target(t)) THEN NoCommand
               ELSE Command("resolve", Target(t), 0, "NORMAL", "AUTO")])
  /\ UNCHANGED <<policy, deployment, rows, memory, risk, phase, recovery,
                 overlapped, abortedAt, spent>>

\* ... and one in NORMAL mode is confirmed in it.  (The mutant confirms any.)
Confirmed_Any(t) == Up(Target(t))
Confirmed(t) == Up(Target(t)) /\ objects[Registered(Target(t))].mode = "NORMAL"
Confirm(t) ==
  /\ InCycle(t, "confirm") /\ Planned(t)
  /\ SetCall(t, [call[t] EXCEPT !.stage = "assess",
       !.now = IF Confirmed(t) THEN Command("mode", Target(t), 0, "NORMAL", None)
               ELSE NoCommand])
  /\ UNCHANGED <<policy, deployment, rows, memory, risk, phase, recovery,
                 overlapped, abortedAt, spent>>

Conclude(t, conclusion) ==
  LET f == call[t].family
      last == f = FamilyCount
  IN  /\ deployment' = [deployment EXCEPT
           ![f] = [state |-> call[t].state, risk |-> conclusion]]
      /\ SetCall(t, IF last THEN IdleCall
           ELSE [IdleCall EXCEPT !.kind = "cycle", !.stage = "evaluate",
                                 !.family = f + 1])
      /\ abortedAt' = IF last THEN 0 ELSE abortedAt
      /\ UNCHANGED <<policy, rows, memory, risk, phase, recovery, overlapped,
                     spent>>

Assess(t) ==
  /\ InCycle(t, "assess") /\ Planned(t)
  /\ \E eligible \in SUBSET Instruments :
       Conclude(t, AssessedRisk(call[t].family, call[t].open, eligible))

Settle(t) ==
  /\ InCycle(t, "conclude") /\ Planned(t)
  /\ Conclude(t, call[t].risk)

-----------------------------------------------------------------------------
(* A price: the rows of all engines of the instrument, then their trades.  *)

UpKeys(i) == {k \in Keys : k[2] = i /\ Up(k)}

StartPrice(i) ==
  /\ UpKeys(i) # {}
  /\ Begin("loop", [IdleCall EXCEPT !.kind = "price",
       !.plan = {Command(do, k, engines[k], None, None) :
                   do \in {"sync", "trade"}, k \in UpKeys(i)}])

\* An entry: order, position row and engine, then the row of the runtime.  A
\* partial fill leaves the engine in EXITS_ONLY.  All of it happens to the
\* engine object that was evaluated, registered or not.
Owned(i) == \E k \in Keys : k[2] = i /\ intents[k] \in ActiveOwnershipStates

Enter(c) ==
  /\ Does("loop", c, "trade")
  /\ objects[<<c.key, c.id>>].mode = "NORMAL" /\ ~objects[<<c.key, c.id>>].holds
  /\ deals[c.key] = Absent /\ positions[c.key] = Absent
  /\ ~Owned(c.key[2])
  /\ Cardinality({k \in Keys : deals[k] # Absent}) < MaxDeals
  /\ deals' = [deals EXCEPT ![c.key] = "open"]
  /\ positions' = [positions EXCEPT ![c.key] = "open"]
  /\ \E filled \in {"PARTIALLY_FILLED", "POSITION_OPENED"} :
       /\ intents' = [intents EXCEPT ![c.key] = filled]
       /\ objects' = [objects EXCEPT ![<<c.key, c.id>>].holds = TRUE,
              ![<<c.key, c.id>>].mode = IF filled = "PARTIALLY_FILLED"
                                          THEN "EXITS_ONLY" ELSE @]
  /\ Then("loop", c, [c EXCEPT !.do = "sync"])
  /\ UNCHANGED <<policy, deployment, rows, engines, phase, recovery, overlapped,
                 abortedAt, spent>>

Exit(c) ==
  /\ Does("loop", c, "trade")
  /\ objects[<<c.key, c.id>>].holds /\ positions[c.key] = "open"
  /\ intents[c.key] \in ActiveOwnershipStates
  /\ deals' = [deals EXCEPT ![c.key] = "closed"]
  /\ positions' = [positions EXCEPT ![c.key] = "closed"]
  /\ intents' = [intents EXCEPT ![c.key] = "CLOSED"]
  /\ objects' = [objects EXCEPT ![<<c.key, c.id>>].holds = FALSE]
  /\ Then("loop", c, [c EXCEPT !.do = "sync"])
  /\ UNCHANGED <<policy, deployment, rows, engines, phase, recovery, overlapped,
                 abortedAt, spent>>

\* The gates refuse, or there is nothing to do.
Decline(c) ==
  /\ Does("loop", c, "trade")
  /\ Done("loop", c)
  /\ UNCHANGED <<policy, deployment, rows, memory, risk, phase, recovery,
                 overlapped, abortedAt, spent>>

-----------------------------------------------------------------------------
(* Calls beside the loop.                                                  *)

OperatorStarts(k) ==
  Begin("beside", [IdleCall EXCEPT !.kind = "operator",
    !.now = Command("resolve", k, 0, None, "MANUAL")])

\* By family, by instrument or by both.
OperatorStops(ks) ==
  /\ \E k \in ks : Up(k)
  /\ Begin("beside", [IdleCall EXCEPT !.kind = "operator",
       !.plan = {Command("stop_if_up", k, 0, None, None) : k \in ks}])

\* The supervisor's pass, in outline (module Reconciliation has the detail):
\* positions of the broker, then the open rows, each matched against the
\* other.
StartPass ==
  Begin("beside", [IdleCall EXCEPT !.kind = "supervisor", !.stage = "listing",
    !.open = {k \in Keys : deals[k] = "open"}])

ListPass ==
  /\ Running /\ call["beside"].stage = "listing"
  /\ LET remote == call["beside"].open
         missing == {k \in Keys : positions[k] = "open"} \ remote
     IN  SetCall("beside", [call["beside"] EXCEPT !.stage = "commands",
           !.plan = {Command("attach", k, 0, None, None) : k \in remote}
                    \cup {Command("close", k, 0, None, None) : k \in missing}])
  /\ UNCHANGED <<policy, deployment, rows, memory, risk, phase, recovery,
                 overlapped, abortedAt, spent>>

\* The row is open (again), its intent owns the instrument (again), and the
\* engine that runs gets the position.
AdoptedState(state) ==
  CASE state \in ProvenanceStates -> state
    [] state \in IntentTerminalStates \cup {Absent} -> "EXTERNAL_POSITION_ADOPTED"
    [] OTHER -> "POSITION_OPENED"
MayAdopt(k) ==
  IF intents[k] \in ActiveOwnershipStates
    THEN AdoptedState(intents[k]) \in IntentTransitions[intents[k]]
    ELSE ~Owned(k[2])

Attach(c) ==
  /\ Does("beside", c, "attach")
  /\ LET k == c.key IN
       /\ positions' = [positions EXCEPT ![k] = "open"]
       /\ IF ~MayAdopt(k) THEN Raise("beside") /\ UNCHANGED <<intents, objects>>
          ELSE /\ intents' = [intents EXCEPT ![k] = AdoptedState(@)]
               /\ NoRaise
               /\ IF Up(k)
                    THEN /\ objects' = [objects EXCEPT ![Registered(k)].holds = TRUE]
                         /\ Then("beside", c, [c EXCEPT
                                 !.do = "sync", !.id = engines[k]])
                    ELSE UNCHANGED objects /\ Done("beside", c)
  /\ UNCHANGED <<policy, deployment, rows, engines, deals, phase, recovery,
                 overlapped, spent>>

CloseMissing(c) ==
  /\ Does("beside", c, "close")
  /\ positions' = [positions EXCEPT ![c.key] = "closed"]
  /\ Then("beside", c, [c EXCEPT !.do = "force"])
  /\ UNCHANGED <<policy, deployment, rows, memory, intents, deals, phase,
                 recovery, overlapped, abortedAt, spent>>

ForceIntent(c) ==
  /\ Does("beside", c, "force")
  /\ LET k == c.key IN
       IF intents[k] \in IntentStates
            /\ "FORCED_RECONCILIATION_CLOSE" \in IntentTransitions[intents[k]]
         THEN /\ intents' = [intents EXCEPT ![k] = "FORCED_RECONCILIATION_CLOSE"]
              /\ Then("beside", c, [c EXCEPT !.do = "detach"])
              /\ NoRaise
         ELSE Raise("beside") /\ UNCHANGED intents
  /\ UNCHANGED <<policy, deployment, rows, memory, positions, deals, phase,
                 recovery, overlapped, spent>>

\* mark_recovery_state clears the reference of the row.
Detach(c) ==
  /\ Does("beside", c, "detach")
  /\ LET k == c.key IN
       IF Up(k) /\ objects[Registered(k)].holds
         THEN /\ objects' = [objects EXCEPT ![Registered(k)].holds = FALSE]
              /\ rows' = [rows EXCEPT ![k].linked = FALSE,
                                      ![k].recovery = "RUNNING"]
         ELSE UNCHANGED <<objects, rows>>
  /\ Done("beside", c)
  /\ UNCHANGED <<policy, deployment, engines, risk, phase, recovery, overlapped,
                 abortedAt, spent>>

\* The call is over when nothing of it is left.
Finish(t) ==
  /\ Running /\ call[t].kind \in {"price", "operator", "supervisor"}
  /\ call[t].stage = "commands" /\ Planned(t)
  /\ SetCall(t, IdleCall)
  /\ UNCHANGED <<policy, deployment, rows, memory, risk, phase, recovery,
                 overlapped, abortedAt, spent>>

-----------------------------------------------------------------------------
(* Crash and RuntimeRecoveryService.recover, before anything else runs.    *)

Crash ==
  /\ phase \in {"recovering", "ready", "up"}
  /\ spent.crashes < MaxCrashes
  /\ spent' = [spent EXCEPT !.crashes = @ + 1]
  /\ phase' = "down"
  /\ engines' = [k \in Keys |-> 0]
  /\ objects' = [o \in Keys \X Ids |-> NoObject]
  /\ call' = [t \in Threads |-> IdleCall]
  /\ UNCHANGED <<policy, deployment, rows, risk, recovery, overlapped, abortedAt>>

Restart ==
  /\ phase \in {"down", "failed"}
  /\ phase' = "recovering"
  /\ \E error \in BOOLEAN :
       recovery' = [todo |-> {k \in Keys : rows[k].status = "RUNNING"},
                    remote |-> IF error THEN {}
                               ELSE {k \in Keys : deals[k] = "open"},
                    error |-> error]
  /\ engines' = [k \in Keys |-> 0]
  /\ objects' = [o \in Keys \X Ids |-> NoObject]
  /\ UNCHANGED <<policy, deployment, rows, risk, call, overlapped, abortedAt,
                 spent>>

Recovering(k) == phase = "recovering" /\ k \in recovery.todo
Recovered(k) == recovery' = [recovery EXCEPT !.todo = @ \ {k}]

\* The broker did not answer, or does not confirm the position the row names.
Unconfirmed(k) ==
  recovery.error \/ (rows[k].linked /\ k \notin recovery.remote)

RequireRecovery(k) ==
  /\ Recovering(k)
  /\ Unconfirmed(k)
  /\ rows' = [rows EXCEPT ![k].recovery = "RECOVERY_REQUIRED"]
  /\ Recovered(k)
  /\ UNCHANGED <<policy, deployment, memory, risk, call, phase, overlapped,
                 abortedAt, spent>>

\* The broker holds a position whose local row is closed: the row is written,
\* and its intent is to become RECOVERED_POSITION_ATTACHED.  An intent found
\* in another state may not, and the start of the process fails.
FoundStates ==
  {"PARTIALLY_FILLED", "POSITION_OPENED", "CLOSE_REQUESTED"} \cup ProvenanceStates

\* The position row is committed before the intent is looked at if it was
\* found, with it otherwise.  (The mutant commits the two together.)
RowStays_Together(found, legal) == legal
RowStays(found, legal) == found \/ legal

RecoverPosition(k) ==
  /\ Recovering(k)
  /\ ~Unconfirmed(k) /\ rows[k].linked /\ positions[k] # "open"
  /\ LET found == intents[k] \in FoundStates
         legal == IF found THEN "RECOVERED_POSITION_ATTACHED"
                                  \in IntentTransitions[intents[k]]
                           ELSE ~Owned(k[2])
     IN  /\ positions' = IF RowStays(found, legal)
                           THEN [positions EXCEPT ![k] = "open"] ELSE positions
         /\ intents' = IF legal THEN [intents EXCEPT
                                       ![k] = "RECOVERED_POSITION_ATTACHED"]
                                ELSE intents
         /\ phase' = IF legal THEN phase ELSE "failed"
  /\ UNCHANGED <<policy, deployment, rows, memory, deals, call, recovery,
                 overlapped, abortedAt, spent>>

\* The engine resumes under its old id, in its old mode, with the open row.
\* (The mutant starts it as a new one would be started.)
ResumedMode_Normal(k) == "NORMAL"
ResumedMode(k) == rows[k].mode

Resume(k) ==
  /\ Recovering(k)
  /\ ~Unconfirmed(k) /\ (rows[k].linked => positions[k] = "open")
  /\ IF rows[k].mode = "STOPPED"
       THEN /\ rows' = [rows EXCEPT ![k] = StoppedRow(@)]
            /\ UNCHANGED memory
       ELSE /\ engines' = [engines EXCEPT ![k] = rows[k].id]
            /\ objects' = [objects EXCEPT ![<<k, rows[k].id>>] =
                 [mode |-> ResumedMode(k), profile |-> rows[k].profile,
                  holds |-> positions[k] = "open"]]
            /\ rows' = [rows EXCEPT ![k].recovery = "RUNNING",
                                    ![k].linked = positions[k] = "open"]
  /\ Recovered(k)
  /\ UNCHANGED <<policy, deployment, risk, call, phase, overlapped, abortedAt,
                 spent>>

FinishRecovery ==
  /\ phase = "recovering" /\ recovery.todo = {}
  /\ phase' = "ready"
  /\ recovery' = [recovery EXCEPT !.remote = {}, !.error = FALSE]
  /\ UNCHANGED <<policy, deployment, rows, memory, risk, call, overlapped,
                 abortedAt, spent>>

-----------------------------------------------------------------------------
(* Governance and the broker.                                              *)

Edit == /\ Running /\ ~Busy("beside") /\ spent.calls < MaxCalls
        /\ spent' = [spent EXCEPT !.calls = @ + 1]
        /\ UNCHANGED <<deployment, rows, memory, risk, call, phase, recovery,
                       overlapped, abortedAt>>

Govern(f) ==
  /\ governance' \in {[governance EXCEPT ![f] = g] : g \in Decisions}
  /\ UNCHANGED profile
  /\ Edit

SelectProfile(f) ==
  /\ profile' \in {[profile EXCEPT ![f] = p] : p \in Profiles}
  /\ UNCHANGED governance
  /\ Edit

BrokerCloses(k) ==
  /\ deals[k] = "open"
  /\ deals' = [deals EXCEPT ![k] = "closed"]
  /\ UNCHANGED <<policy, deployment, rows, memory, positions, intents, call,
                 phase, recovery, overlapped, abortedAt, spent>>

Plan(t) == Evaluate(t) \/ Ensure(t) \/ Confirm(t) \/ Assess(t) \/ Settle(t)
Execute(t) ==
  \/ \E c \in Due(t) : \/ Resolve(t, c) \/ Start(t, c) \/ SetMode(t, c)
                       \/ Stop(t, c) \/ Mark(t, c) \/ Sync(t, c) \/ Write(t, c)
  \/ Finish(t)
Trade == \E c \in Due("loop") : Enter(c) \/ Exit(c) \/ Decline(c)
Supervise ==
  \/ ListPass
  \/ \E c \in Due("beside") : \/ Attach(c) \/ CloseMissing(c)
                              \/ ForceIntent(c) \/ Detach(c)
Work(t) == \/ Plan(t) \/ Execute(t)
           \/ t = "loop" /\ Trade
           \/ t = "beside" /\ Supervise
Call == \/ \E t \in Threads : StartCycle(t)
        \/ \E i \in Instruments : StartPrice(i)
        \/ StartPass
        \/ \E k \in Keys : \/ OperatorStarts(k)
                           \/ \E ks \in {{k}, {j \in Keys : j[1] = k[1]},
                                          {j \in Keys : j[2] = k[2]}} :
                                OperatorStops(ks)
Recover == \/ Restart \/ FinishRecovery
           \/ \E k \in Keys : RequireRecovery(k) \/ RecoverPosition(k) \/ Resume(k)
Environment == \/ Crash
               \/ \E f \in Families : Govern(f) \/ SelectProfile(f)
               \/ \E k \in Keys : BrokerCloses(k)

Next == (\E t \in Threads : Work(t)) \/ Call \/ Recover \/ Environment

Spec == Init /\ [][Next]_vars

\* A call that has begun runs on and a process that is down is started again.
\* Cycles go on as well: the polling task runs one each time its Tier-2 refresh
\* has an instrument to screen, so this assumes that one falls due again and
\* again; with none due no cycle runs in the background.
LiveSpec ==
  /\ Spec
  /\ \A t \in Threads : WF_vars(Work(t))
  /\ WF_vars(Recover)
  /\ SF_vars(StartCycle("loop"))

-----------------------------------------------------------------------------
(* Properties                                                              *)

AtRest == phase \in {"ready", "up"} /\ \A t \in Threads : ~Busy(t)

\* While the two threads took turns, the rows tell which engines run, under
\* which id, in which mode and with or without a position; a row that runs
\* without an engine says that it has to be recovered.
RowsTellEngines ==
  AtRest /\ ~overlapped => \A k \in Keys :
    IF Up(k)
      THEN /\ rows[k].status = "RUNNING" /\ rows[k].recovery = "RUNNING"
           /\ rows[k].id = engines[k]
           /\ rows[k].mode = objects[Registered(k)].mode
           /\ rows[k].linked = objects[Registered(k)].holds
      ELSE rows[k].status = "STOPPED" \/ rows[k].recovery = "RECOVERY_REQUIRED"

\* What a cycle says of a family's open risk is true when it says so: there is
\* some exactly when it says so, managed risk has an engine that can exit it,
\* and a family that is not deployed runs no AUTO engine that could enter.
Stated(f) ==
  LET open == OpenKeys(f)
      auto == {k \in AutoRows(f) : Up(k)}
      said == deployment[f].risk
  IN  /\ said = "NO_OPEN_RISK" <=> open = {}
      /\ said \in {"MANAGED", "EXITS_ONLY"} => open \subseteq auto
      /\ said = "MANAGED" =>
           \A k \in open : objects[Registered(k)].mode = "NORMAL"
      /\ deployment[f].state # "AUTO_DEPLOYED" =>
           /\ \A k \in auto : objects[Registered(k)].mode = "EXITS_ONLY"
           /\ said = "UNMANAGED_OPEN_RISK" => auto = {}
Concludes(t) == call[t].kind = "cycle" /\ (Assess(t) \/ Settle(t))
HeldByHand(f) == deployment[f].state = "BLOCKED" /\ ManualRows(f) # {}

StatementIsTrue ==
  [][\A t \in Threads, f \in Families :
       Concludes(t) /\ f = call[t].family /\ ~overlapped =>
         HeldByHand(f)' \/ Stated(f)']_vars

\* A cycle takes the engine from an open position only if it declares the risk
\* unmanaged, or to restart it under another profile.
CyclesKeepExits ==
  [][\A t \in Threads, k \in Keys :
       /\ call[t].kind = "cycle" /\ Up(k) /\ phase' = phase /\ engines'[k] = 0
       /\ objects[Registered(k)].holds /\ positions[k] = "open" /\ ~overlapped
       => \/ call[t].risk = "UNMANAGED_OPEN_RISK"
          \/ Target(t) = k /\ rows[k].profile # call[t].profile]_vars

\* EXITS_ONLY is not lifted from an open position (but for a runtime that was
\* left to be recovered, which a cycle starts anew).
ProtectionOutlivesCycles ==
  [][\A k \in Keys :
       /\ positions[k] = "open" /\ rows[k].mode = "EXITS_ONLY" /\ ~overlapped
       /\ rows[k].recovery # "RECOVERY_REQUIRED"
       => rows'[k].mode # "NORMAL"]_vars

\* A runtime the operator started is not made an autonomous one while it runs.
ManualIsNotTakenOver ==
  [][\A k \in Keys :
       /\ rows[k].status = "RUNNING" /\ rows[k].control = "MANUAL" /\ ~overlapped
       => rows'[k].control = "MANUAL"]_vars

\* After a restart, and whatever the threads did to each other before it, every
\* runtime that was running runs again in its mode and holds the open row, or
\* says that it has to be recovered.
RecoveryRestores ==
  phase = "ready" => \A k \in Keys : rows[k].status = "RUNNING" =>
    \/ rows[k].recovery = "RECOVERY_REQUIRED"
    \/ /\ Up(k) /\ rows[k].id = engines[k]
       /\ objects[Registered(k)].mode = rows[k].mode
       /\ objects[Registered(k)].holds <=> positions[k] = "open"

\* A start of the process that fails leaves a row open that was not, so the
\* next one gets further; unless the trade of another family owns the
\* instrument by now, which no further start resolves.
FailedStartHeals ==
  [][phase = "recovering" /\ phase' = "failed" =>
       \E k \in recovery.todo :
         /\ rows[k].linked /\ positions[k] # "open"
         /\ \/ positions'[k] = "open"
            \/ \E j \in Keys \ {k} : /\ j[2] = k[2]
                                      /\ intents[j] \in ActiveOwnershipStates]_vars

\* An emergency stop takes the family's AUTO engines out of NORMAL mode, unless
\* the cycles are cut short by a family before it, or the process is down.
Stopped(f) ==
  \A k \in AutoRows(f) : Up(k) => objects[Registered(k)].mode # "NORMAL"
EmergencyStopTakesEffect ==
  \A f \in Families :
    governance[f] = "EMERGENCY" /\ Running ~>
      \/ governance[f] # "EMERGENCY" \/ Stopped(f) \/ ~Running
      \/ abortedAt \in 1 .. (f - 1)
=============================================================================
