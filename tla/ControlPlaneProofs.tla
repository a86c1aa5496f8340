------------------------- MODULE ControlPlaneProofs -------------------------
(***************************************************************************)
(* Proofs about ControlPlane: the rows tell which engines run, what a      *)
(* cycle says of open risk is true, exits and their protection outlive the *)
(* cycles, and a restart brings back what was running.                     *)
(***************************************************************************)
EXTENDS ControlPlane, WellFoundedInduction, TLAPS

-----------------------------------------------------------------------------
(* What a call may be about to do.  These parts hold whatever the threads  *)
(* do to each other.                                                       *)

StageOf(t) == IF call[t].kind = "cycle" THEN call[t].stage ELSE call[t].kind
CycleStages == {"evaluate", "ensure", "confirm", "assess", "conclude"}
Deployable == {"ensure", "confirm", "assess"}

\* The commands a call begins a stage with, ...
MayPlan(stage, do) ==
  \/ stage = "ensure" /\ do \in {"mode", "stop"}
  \/ stage = "conclude" /\ do \in {"mode_if_up", "stop_if_up"}
  \/ stage = "price" /\ do \in {"sync", "trade"}
  \/ stage = "operator" /\ do = "stop_if_up"
  \/ stage = "supervisor" /\ do \in {"attach", "close"}

\* ... and those it is in the middle of.
MayRun(stage, do) ==
  \/ /\ do \in {"sync", "write"}
     /\ stage \in Deployable \cup {"conclude", "price", "operator", "supervisor"}
  \/ do = "mark" /\ stage \in {"ensure", "conclude", "operator"}
  \/ do \in {"resolve", "start"} /\ stage \in {"confirm", "operator"}
  \/ do = "mode" /\ stage = "assess"
  \/ do \in {"force", "detach"} /\ stage = "supervisor"

OfFamily(t, c) == StageOf(t) \in CycleStages => c.key[1] = call[t].family

PlanFits(t, c) ==
  /\ MayPlan(StageOf(t), c.do)
  /\ c.control = None
  /\ c.mode = IF c.do \in {"mode", "mode_if_up"} THEN "EXITS_ONLY" ELSE None
  /\ OfFamily(t, c)

NowFits(t, c) ==
  /\ MayRun(StageOf(t), c.do)
  /\ c.control = "AUTO" <=> StageOf(t) = "confirm"
  /\ c.control = "MANUAL" => StageOf(t) = "operator"
  /\ c.do = "resolve" => c.mode \in {"NORMAL", None}
  /\ c.do \in {"start", "mode"} => c.mode \in {"NORMAL", "EXITS_ONLY"}
  /\ c.do = "write" => c.id # 0
  /\ OfFamily(t, c)

CallInv(t) ==
  /\ ~Busy(t) => call[t] = IdleCall
  /\ call[t].kind = "cycle" => /\ call[t].stage \in CycleStages
                               /\ call[t].family \in Families
  /\ StageOf(t) \in Deployable => /\ call[t].state = "AUTO_DEPLOYED"
                                  /\ call[t].instrument \in Instruments
  /\ call[t].kind \in {"price", "operator", "supervisor"} =>
       call[t].stage \in {"commands", "listing"}
  /\ call[t].stage = "listing" => call[t].kind = "supervisor"
  /\ call[t].stage \in {"evaluate", "listing"} => Planned(t)
  /\ \A c \in call[t].plan : PlanFits(t, c)
  /\ Now(t) # NoCommand => NowFits(t, Now(t))

RowInv(k) == /\ rows[k].status = "RUNNING" => rows[k].id # 0
             /\ rows[k].status = "STOPPED" => rows[k].mode = "STOPPED"

TradedStates ==
  {Absent, "PARTIALLY_FILLED", "POSITION_OPENED", "CLOSED",
   "FORCED_RECONCILIATION_CLOSE"} \cup ProvenanceStates

\* What row and engine say of each other when no call is at work on them.
Matches(k) ==
  IF Up(k)
    THEN /\ rows[k].status = "RUNNING" /\ rows[k].recovery = "RUNNING"
         /\ rows[k].id = engines[k]
         /\ rows[k].mode = objects[Registered(k)].mode
         /\ rows[k].mode # "STOPPED"
         /\ rows[k].linked = objects[Registered(k)].holds
    ELSE rows[k].status = "STOPPED" \/ rows[k].recovery = "RECOVERY_REQUIRED"

\* A start of the process takes the rows that ran one by one.
Restored(k) == /\ Matches(k)
               /\ Up(k) => (objects[Registered(k)].holds <=> positions[k] = "open")
RecoveryInv ==
  /\ phase = "recovering" => \A k \in Keys :
       IF k \in recovery.todo THEN rows[k].status = "RUNNING" /\ ~Up(k)
                              ELSE Restored(k)
  /\ phase = "ready" => \A k \in Keys : Restored(k)
  /\ phase # "up" => \A t \in Threads : ~Busy(t)

-----------------------------------------------------------------------------
(* While the two threads took turns.                                       *)

\* The engine is out of memory and its row is to be marked.
Marking(c) == ~Up(c.key) /\ rows[c.key].id = c.id

\* The mode that is going to be written is the mode of the engine; a NORMAL
\* one does not lift a protection.
WrittenMode(c) == IF c.mode # None THEN c.mode
                  ELSE IF rows[c.key].id = 0 THEN "NORMAL" ELSE rows[c.key].mode
Unlifted(k) == objects[Registered(k)].mode = "NORMAL" =>
                 \/ rows[k].mode # "EXITS_ONLY"
                 \/ rows[k].recovery = "RECOVERY_REQUIRED"
Writing(t, c) ==
  /\ Up(c.key) /\ c.id = engines[c.key]
  /\ objects[Registered(c.key)].mode # "STOPPED"
  /\ Unlifted(c.key)
  /\ \/ WrittenMode(c) = objects[Registered(c.key)].mode
     \/ c.do = "sync" /\ c.mode = None /\ call[t].kind = "price"
  /\ c.do = "write" => c.linked = objects[Registered(c.key)].holds

AtWork(t, k) == /\ Now(t).key = k
                /\ Now(t).do \in {"mark", "sync", "write"}

\* What is known of the command that is being executed; an engine that is to
\* be confirmed in NORMAL mode is in it, and the engines of a price are up.
InHand(t) ==
  /\ Now(t).do = "mark" => Marking(Now(t))
  /\ Now(t).do \in {"sync", "write"} => Writing(t, Now(t))
  /\ Now(t).do = "mode" => Up(Now(t).key) /\
       objects[Registered(Now(t).key)].mode = "NORMAL"
  /\ call[t].kind = "price" =>
       \A c \in call[t].plan : c.id = engines[c.key] /\ Up(c.key)

MemoryInv ==
  /\ \A t \in Threads : ~Busy(t) \/ ~Busy(Other(t))
  /\ \A k \in Keys : Matches(k) \/ \E t \in Threads : AtWork(t, k)
  /\ \A t \in Threads : InHand(t)

\* A cycle knows the open positions of its family.
OpenInv(t) ==
  call[t].kind = "cycle" /\ call[t].stage # "evaluate" =>
    call[t].open = OpenKeys(call[t].family)

\* A family that gets an engine has no runtime of the operator's.
ManualInv(t) ==
  /\ StageOf(t) \in {"ensure", "confirm"} => ManualRows(call[t].family) = {}
  /\ StageOf(t) = "ensure" =>
       /\ \A c \in call[t].plan : rows[c.key].control = "AUTO"
       /\ Now(t) # NoCommand => rows[Now(t).key].control = "AUTO"

\* An engine that is stopped in a rotation holds nothing, or is replaced.
RotationInv(t) ==
  StageOf(t) = "ensure" =>
    /\ \A c \in call[t].plan : c.do = "stop" =>
         \/ c.key \notin call[t].open
         \/ c.key = Target(t) /\ rows[c.key].profile # call[t].profile
    /\ \A c \in call[t].plan \cup {Now(t)} :
         c.do \in {"mode", "sync", "write"} => c.key # Target(t)

\* An engine that is withdrawn holds nothing or the risk is going to be
\* declared unmanaged; one that stays is in EXITS_ONLY mode or going to be.
WithdrawalInv(t) ==
  StageOf(t) = "conclude" =>
    LET f == call[t].family
        said == call[t].risk
    IN  \/ Planned(t) /\ call[t].state = "BLOCKED" /\ ManualRows(f) # {}
        \/ /\ call[t].state # "AUTO_DEPLOYED"
           /\ said \in {"NO_OPEN_RISK", "EXITS_ONLY", "UNMANAGED_OPEN_RISK"}
           /\ said = "NO_OPEN_RISK" <=> call[t].open = {}
           /\ said = "EXITS_ONLY" =>
                \A k \in call[t].open : k \in AutoRows(f) /\ Up(k)
           /\ \A c \in call[t].plan :
                /\ c.do = "stop_if_up" =>
                     c.key \notin call[t].open \/ said = "UNMANAGED_OPEN_RISK"
                /\ c.do = "mode_if_up" => said = "EXITS_ONLY"
           /\ \A k \in Keys : k[1] = f /\ Up(k) /\ rows[k].control = "AUTO" =>
                \/ /\ objects[Registered(k)].mode = "EXITS_ONLY"
                   /\ said = "EXITS_ONLY"
                \/ \E c \in call[t].plan : c.key = k

Settling(t) == OpenInv(t) /\ ManualInv(t) /\ RotationInv(t) /\ WithdrawalInv(t)

-----------------------------------------------------------------------------
(* Types.                                                                  *)

RowRecords ==
  [id : Ids, status : {"RUNNING", "STOPPED"},
   recovery : {"RUNNING", "PAUSED", "RECOVERY_REQUIRED"},
   control : {"AUTO", "MANUAL"}, mode : Modes, profile : Profiles,
   linked : BOOLEAN]
ObjectRecords == [mode : Modes, profile : Profiles, holds : BOOLEAN]
CallRecords ==
  [kind : {"idle", "cycle", "price", "operator", "supervisor"},
   stage : {"commands", "evaluate", "ensure", "confirm", "assess", "conclude",
            "listing"},
   family : 0 .. FamilyCount, plan : SUBSET Commands,
   now : Commands \cup {NoCommand}, state : DeploymentStates,
   instrument : Instruments \cup {None}, profile : Profiles,
   open : SUBSET Keys, risk : RiskStates]

PolicyTypes ==
  /\ governance \in [Families -> Governance]
  /\ profile \in [Families -> Profiles]
  /\ deployment \in [Families -> [state : DeploymentStates, risk : RiskStates]]
RowTypes == rows \in [Keys -> RowRecords]
EngineTypes == engines \in [Keys -> Ids]
ObjectTypes == objects \in [Keys \X Ids -> ObjectRecords]
RiskTypes ==
  /\ positions \in [Keys -> {Absent, "open", "closed"}]
  /\ intents \in [Keys -> IntentStates \cup {Absent}]
  /\ deals \in [Keys -> {Absent, "open", "closed"}]
CallTypes == call \in [Threads -> CallRecords]
ProcessTypes ==
  /\ phase \in {"down", "recovering", "ready", "up", "failed"}
  /\ recovery \in [todo : SUBSET Keys, remote : SUBSET Keys, error : BOOLEAN]
  /\ overlapped \in BOOLEAN
  /\ abortedAt \in 0 .. FamilyCount
  /\ spent \in [crashes : 0 .. MaxCrashes, calls : 0 .. MaxCalls]

LEMMA TypeParts ==
  TypeOK <=> /\ PolicyTypes /\ RowTypes /\ EngineTypes /\ ObjectTypes
             /\ RiskTypes /\ CallTypes /\ ProcessTypes
BY DEF TypeOK, PolicyTypes, RowTypes, EngineTypes, ObjectTypes, RiskTypes,
       CallTypes, ProcessTypes, RowRecords, ObjectRecords, CallRecords

LEMMA FamilyFacts == /\ 1 \in Families /\ Families \subseteq 0 .. FamilyCount
                     /\ \A f \in Families : f # FamilyCount => f + 1 \in Families
                     /\ 0 \in 0 .. FamilyCount
BY FamilyAssumption DEF Families

LEMMA IdleFacts ==
  /\ IdleCall \in CallRecords
  /\ IdleCall.kind = "idle" /\ IdleCall.stage = "commands"
  /\ IdleCall.plan = {} /\ IdleCall.now = NoCommand
BY ProfileAssumption, FamilyFacts
   DEF IdleCall, CallRecords, DeploymentStates, RiskStates

\* No command is left of "nothing".
LEMMA NothingFacts ==
  /\ NoCommand \notin Commands /\ NoCommand.do = "nothing"
  /\ \A c \in Commands : c.do # "nothing" /\ c.key \in Keys
BY DEF NoCommand, Command, Commands

LEMMA CommandFacts ==
  ASSUME NEW do, NEW k, NEW i, NEW m, NEW x
  PROVE  /\ Command(do, k, i, m, x).do = do
         /\ Command(do, k, i, m, x).key = k
         /\ Command(do, k, i, m, x).id = i
         /\ Command(do, k, i, m, x).mode = m
         /\ Command(do, k, i, m, x).control = x
BY DEF Command

CommandNames ==
  {"resolve", "start", "mode", "mode_if_up", "stop", "stop_if_up", "mark",
   "sync", "write", "trade", "attach", "close", "force", "detach"}

LEMMA CommandTypes ==
  ASSUME NEW do \in CommandNames, NEW k \in Keys, NEW i \in Ids,
         NEW m \in Modes \cup {None}, NEW x \in {"AUTO", "MANUAL", None}
  PROVE  Command(do, k, i, m, x) \in Commands
BY DEF Command, Commands, CommandNames

LEMMA ZeroId == 0 \in Ids
BY BoundAssumption DEF Ids

-----------------------------------------------------------------------------
(* What a step makes of the calls.                                         *)

LEMMA OtherThread ==
  ASSUME NEW t \in Threads
  PROVE  /\ Other(t) \in Threads /\ Other(t) # t /\ Other(Other(t)) = t
         /\ \A u \in Threads : u = t \/ u = Other(t)
BY DEF Threads, Other

LEMMA SetCallEffect ==
  ASSUME CallTypes, NEW t \in Threads, NEW x, SetCall(t, x)
  PROVE  /\ call'[t] = x
         /\ \A u \in Threads : u # t => call'[u] = call[u]
         /\ x \in CallRecords => CallTypes'
BY DEF CallTypes, SetCall

\* What a call is apart from its commands.
SameHead(c, d) ==
  /\ c.kind = d.kind /\ c.stage = d.stage /\ c.family = d.family
  /\ c.state = d.state /\ c.instrument = d.instrument
  /\ c.profile = d.profile /\ c.open = d.open /\ c.risk = d.risk

LEMMA ThenEffect ==
  ASSUME CallTypes, NEW t \in Threads, NEW c,
         NEW next \in Commands \cup {NoCommand}, Then(t, c, next)
  PROVE  /\ CallTypes'
         /\ SameHead(call'[t], call[t])
         /\ call'[t].plan = call[t].plan \ {c}
         /\ call'[t].now = next
         /\ \A u \in Threads : u # t => call'[u] = call[u]
<1> DEFINE x == [call[t] EXCEPT !.plan = @ \ {c}, !.now = next]
<1>1. call[t] \in CallRecords
  BY DEF CallTypes
<1>2. x \in CallRecords /\ SameHead(x, call[t])
      /\ x.plan = call[t].plan \ {c} /\ x.now = next
  BY <1>1 DEF CallRecords, SameHead
<1>3. SetCall(t, x)
  BY DEF Then
<1> HIDE DEF x
<1> QED
  BY <1>2, <1>3, SetCallEffect

LEMMA SameCallInv ==
  ASSUME NEW t \in Threads, call'[t] = call[t], CallInv(t)
  PROVE  CallInv(t)'
BY DEF CallInv, Busy, Planned, Now, PlanFits, NowFits, StageOf, OfFamily

\* A call that has a command to execute.
LEMMA DueFacts ==
  ASSUME CallTypes, NEW t \in Threads, CallInv(t), NEW c \in Due(t)
  PROVE  /\ Running /\ Busy(t) /\ c \in Commands /\ c.key \in Keys
         /\ call[t].stage \notin {"evaluate", "listing"}
         /\ \/ c = Now(t) /\ NowFits(t, c)
            \/ Now(t) = NoCommand /\ c \in call[t].plan /\ PlanFits(t, c)
<1>1. call[t] \in CallRecords
  BY DEF CallTypes
<1>2. call[t].plan \subseteq Commands /\ Now(t) \in Commands \cup {NoCommand}
  BY <1>1 DEF CallRecords, Now
<1>3. /\ Running /\ c \in Commands /\ c # NoCommand
      /\ \/ c = Now(t)
         \/ Now(t) = NoCommand /\ c \in call[t].plan
  <2>0. c \in Due(t)
    OBVIOUS
  <2>1. CASE Now(t) # NoCommand
    <3>1. Running /\ c \in {Now(t)}
      BY <2>0, <2>1 DEF Due
    <3> QED
      BY <3>1, <2>1, <1>2
  <2>2. CASE Now(t) = NoCommand
    <3>1. Running /\ c \in call[t].plan
      BY <2>0, <2>2 DEF Due, Running
    <3> QED
      BY <1>2, <2>2, <3>1, NothingFacts
  <2> QED
    BY <2>1, <2>2
<1>4. ~Planned(t)
  BY <1>3 DEF Planned
<1>5. Busy(t)
  BY <1>4, IdleFacts DEF CallInv, Planned, Now
<1> QED
  BY <1>3, <1>4, <1>5, NothingFacts DEF CallInv

\* A command ends, or another one follows that its call may be at.
LEMMA ThenCalls ==
  ASSUME CallTypes, \A u \in Threads : CallInv(u), NEW t \in Threads,
         NEW c \in Due(t), NEW next \in Commands \cup {NoCommand},
         Then(t, c, next), next # NoCommand => NowFits(t, next)
  PROVE  CallTypes' /\ \A u \in Threads : CallInv(u)'
<1>1. /\ CallTypes' /\ SameHead(call'[t], call[t])
      /\ call'[t].plan = call[t].plan \ {c} /\ call'[t].now = next
      /\ \A u \in Threads : u # t => call'[u] = call[u]
  BY ThenEffect
<1>2. Busy(t) /\ call[t].stage \notin {"evaluate", "listing"}
  BY DueFacts
<1>3. StageOf(t)' = StageOf(t)
  BY <1>1 DEF StageOf, SameHead
<1>4. CallInv(t)'
  BY <1>1, <1>2, <1>3 DEF CallInv, Busy, Now, PlanFits, NowFits, OfFamily, SameHead
<1> QED
  BY <1>1, <1>4, SameCallInv

\* A call is over.
LEMMA IdleCalls ==
  ASSUME CallTypes, \A u \in Threads : CallInv(u), NEW t \in Threads,
         SetCall(t, IdleCall)
  PROVE  CallTypes' /\ \A u \in Threads : CallInv(u)'
<1>1. call'[t] = IdleCall /\ CallTypes'
      /\ \A u \in Threads : u # t => call'[u] = call[u]
  BY SetCallEffect, IdleFacts
<1>2. CallInv(t)'
  BY <1>1, IdleFacts DEF CallInv, Busy, Planned, Now, StageOf, Deployable
<1> QED
  BY <1>1, <1>2, SameCallInv

LEMMA RaiseCalls ==
  ASSUME TypeOK, \A u \in Threads : CallInv(u), NEW t \in Threads, Raise(t)
  PROVE  CallTypes' /\ (\A u \in Threads : CallInv(u)')
         /\ abortedAt' \in 0 .. FamilyCount
<1>1. CallTypes /\ abortedAt \in 0 .. FamilyCount
  BY TypeParts DEF ProcessTypes
<1>2. call[t].kind = "cycle" => call[t].family \in 0 .. FamilyCount
  BY FamilyFacts DEF CallInv
<1> QED
  BY <1>1, <1>2, IdleCalls DEF Raise

-----------------------------------------------------------------------------
(* The parts that hold whatever the threads do to each other: types, what a *)
(* call is about to do, what a row and an intent can be.                    *)

AllCalls == \A t \in Threads : CallInv(t)
AllRows == \A k \in Keys : RowInv(k)
AllIntents == \A k \in Keys : intents[k] \in TradedStates
Static ==
  /\ PolicyTypes /\ RowTypes /\ EngineTypes /\ ObjectTypes
  /\ RiskTypes /\ CallTypes /\ ProcessTypes
  /\ AllCalls /\ AllRows /\ AllIntents

LEMMA Kept ==
  ASSUME Static
  PROVE  /\ UNCHANGED <<policy, deployment>> => PolicyTypes'
         /\ rows' = rows => RowTypes' /\ AllRows'
         /\ engines' = engines => EngineTypes'
         /\ objects' = objects => ObjectTypes'
         /\ UNCHANGED risk => RiskTypes' /\ AllIntents'
         /\ call' = call => CallTypes' /\ AllCalls'
         /\ UNCHANGED <<phase, recovery, overlapped, abortedAt, spent>> =>
              ProcessTypes'
<1>1. UNCHANGED <<policy, deployment>> => PolicyTypes'
  BY DEF Static, PolicyTypes, policy
<1>2. rows' = rows => RowTypes' /\ AllRows'
  BY DEF Static, RowTypes, AllRows, RowInv
<1>3. engines' = engines => EngineTypes'
  BY DEF Static, EngineTypes
<1>4. objects' = objects => ObjectTypes'
  BY DEF Static, ObjectTypes
<1>5. UNCHANGED risk => RiskTypes' /\ AllIntents'
  BY DEF Static, RiskTypes, AllIntents, risk
<1>6. call' = call => CallTypes' /\ AllCalls'
  BY SameCallInv DEF Static, CallTypes, AllCalls
<1>7. UNCHANGED <<phase, recovery, overlapped, abortedAt, spent>> =>
        ProcessTypes'
  BY DEF Static, ProcessTypes
<1> QED
  BY <1>1, <1>2, <1>3, <1>4, <1>5, <1>6, <1>7

\* A step of a call that ends or advances a command.
LEMMA StaticThen ==
  ASSUME Static, NEW t \in Threads, NEW c \in Due(t),
         NEW next \in Commands \cup {NoCommand},
         Then(t, c, next), next # NoCommand => NowFits(t, next)
  PROVE  CallTypes' /\ AllCalls'
BY ThenCalls DEF Static, AllCalls

LEMMA StaticDone ==
  ASSUME Static, NEW t \in Threads, NEW c \in Due(t), Done(t, c)
  PROVE  CallTypes' /\ AllCalls'
BY StaticThen DEF Done

LEMMA StaticRaise ==
  ASSUME Static, NEW t \in Threads, Raise(t),
         UNCHANGED <<phase, recovery, overlapped, spent>>
  PROVE  CallTypes' /\ AllCalls' /\ ProcessTypes'
<1>1. CallTypes' /\ AllCalls' /\ abortedAt' \in 0 .. FamilyCount
  BY RaiseCalls, TypeParts DEF Static, AllCalls
<1> QED
  BY <1>1 DEF Static, ProcessTypes

LEMMA StaticDue ==
  ASSUME Static, NEW t \in Threads, NEW c \in Due(t)
  PROVE  /\ Running /\ Busy(t) /\ c \in Commands /\ c.key \in Keys
         /\ call[t].stage \notin {"evaluate", "listing"}
         /\ \/ c = Now(t) /\ NowFits(t, c)
            \/ Now(t) = NoCommand /\ c \in call[t].plan /\ PlanFits(t, c)
BY DueFacts DEF Static, AllCalls

LEMMA ModeFacts ==
  ASSUME Static, NEW k \in Keys
  PROVE  DefaultMode(k) \in {"NORMAL", "EXITS_ONLY"}
BY DEF DefaultMode

LEMMA ResolveStatic ==
  ASSUME Static, NEW t \in Threads, NEW c \in Due(t), Resolve(t, c)
  PROVE  Static'
<1>1. c.do = "resolve" /\ c \in Commands /\ c.key \in Keys
  BY StaticDue DEF Resolve, Does
<1>2. c = Now(t) /\ NowFits(t, c)
  BY <1>1, StaticDue DEF PlanFits, MayPlan
<1>3. CASE Raise(t)
  BY <1>3, StaticRaise, Kept DEF Static, Resolve, policy, memory, risk
<1>4. CASE ~StartRefused(c.key, c.mode)
  <2> DEFINE m == IF c.mode = None THEN DefaultMode(c.key) ELSE c.mode
             d == [c EXCEPT !.do = "start",
                     !.mode = IF @ = None THEN DefaultMode(c.key) ELSE @]
  <2>1. m \in {"NORMAL", "EXITS_ONLY"}
    BY <1>1, <1>2, ModeFacts DEF NowFits
  <2>2. d \in Commands /\ d.do = "start" /\ d.mode = m /\ d.key = c.key
        /\ d.control = c.control
    BY <1>1, <2>1 DEF Commands, Modes
  <2>3. NowFits(t, d)
    BY <1>1, <1>2, <2>1, <2>2 DEF NowFits, MayRun, OfFamily
  <2>4. Then(t, c, d) /\ NoRaise
    BY <1>4 DEF Resolve
  <2> HIDE DEF d
  <2>5. CallTypes' /\ AllCalls'
    BY <2>2, <2>3, <2>4, StaticThen
  <2> QED
    BY <2>4, <2>5, Kept DEF Static, Resolve, policy, memory, risk, NoRaise
<1> QED
  BY <1>3, <1>4 DEF Resolve

\* There is a least of the unused runtime ids.
LEMMA LeastExists ==
  ASSUME NEW S \in SUBSET Nat, S # {}
  PROVE  \E i \in S : \A j \in S : i <= j
<1>1. PICK i \in S : \A j \in S : <<j, i>> \notin OpToRel(<, Nat)
  BY NatLessThanWellFounded, WFMin, Zenon
<1>2. \A j \in S : ~(j < i)
  BY <1>1 DEF OpToRel
<1> QED
  BY <1>2

LEMMA NewIdFacts ==
  ASSUME NEW k \in Keys, Unused(k) # {}
  PROVE  NewId(k) \in Unused(k) /\ NewId(k) \in Ids /\ NewId(k) # 0
<1>1. Unused(k) \subseteq Ids \ {0} /\ Ids \subseteq Nat
  BY BoundAssumption DEF Unused, Ids
<1>2. \E i \in Unused(k) : \A j \in Unused(k) : i <= j
  BY <1>1, LeastExists
<1>3. NewId(k) \in Unused(k)
  BY <1>2 DEF NewId
<1> QED
  BY <1>1, <1>3

LEMMA StartStatic ==
  ASSUME Static, NEW t \in Threads, NEW c \in Due(t), Start(t, c)
  PROVE  Static'
<1>1. c.do = "start" /\ c \in Commands /\ c.key \in Keys
  BY StaticDue DEF Start, Does
<1>2. c = Now(t) /\ NowFits(t, c)
  BY <1>1, StaticDue DEF PlanFits, MayPlan
<1>3. CASE Up(c.key)
  BY <1>3, StaticRaise, Kept DEF Static, Start, policy, memory, risk
<1>4. CASE ~Up(c.key)
  <2> DEFINE i == NewId(c.key)
             d == [c EXCEPT !.do = "sync", !.id = i]
             o == [mode |-> c.mode, profile |-> call[t].profile, holds |-> FALSE]
  <2>1. i \in Ids
    BY <1>1, <1>4, NewIdFacts DEF Start
  <2>2. d \in Commands /\ d.do = "sync" /\ d.key = c.key /\ d.control = c.control
    BY <1>1, <2>1 DEF Commands
  <2>3. NowFits(t, d)
    BY <1>1, <1>2, <2>2 DEF NowFits, MayRun, OfFamily, Deployable
  <2>4. Then(t, c, d) /\ NoRaise /\ engines' = [engines EXCEPT ![c.key] = i]
        /\ objects' = [objects EXCEPT ![<<c.key, i>>] = o]
    BY <1>4 DEF Start
  <2>5. o \in ObjectRecords
    BY <1>1, <1>2 DEF NowFits, ObjectRecords, Modes, Static, CallTypes, CallRecords
  <2> HIDE DEF d, i, o
  <2>6. CallTypes' /\ AllCalls'
    BY <2>2, <2>3, <2>4, StaticThen
  <2>7. EngineTypes' /\ ObjectTypes'
    BY <1>1, <2>1, <2>4, <2>5 DEF Static, EngineTypes, ObjectTypes
  <2> QED
    BY <2>4, <2>6, <2>7, Kept DEF Static, Start, policy, risk, NoRaise
<1> QED
  BY <1>3, <1>4

LEMMA ObjectTypesKept ==
  ASSUME Static, NEW k \in Keys, NEW i \in Ids, NEW o \in ObjectRecords,
         objects' = [objects EXCEPT ![<<k, i>>] = o]
  PROVE  ObjectTypes'
BY DEF Static, ObjectTypes

LEMMA SetModeStatic ==
  ASSUME Static, NEW t \in Threads, NEW c \in Due(t), SetMode(t, c)
  PROVE  Static'
<1>1. c.do \in {"mode", "mode_if_up"} /\ c \in Commands /\ c.key \in Keys
  BY StaticDue DEF SetMode, Does
<1>2. \/ c = Now(t) /\ NowFits(t, c)
      \/ Now(t) = NoCommand /\ c \in call[t].plan /\ PlanFits(t, c)
  BY StaticDue
<1>3. CASE ~Up(c.key)
  <2>1. CallTypes' /\ AllCalls' /\ ProcessTypes'
    <3>1. CASE c.do = "mode"
      BY <1>3, <3>1, StaticRaise DEF SetMode
    <3>2. CASE c.do # "mode"
      BY <1>3, <3>2, StaticDone, Kept DEF SetMode, NoRaise
    <3> QED
      BY <3>1, <3>2
  <2> QED
    BY <1>3, <2>1, Kept DEF Static, SetMode, policy, risk
<1>4. CASE Up(c.key)
  <2> DEFINE i == engines[c.key]
             d == [c EXCEPT !.do = "sync", !.id = i]
             o == [objects[<<c.key, i>>] EXCEPT !.mode = c.mode]
  <2>1. i \in Ids
    BY <1>1 DEF Static, EngineTypes
  <2>2. d \in Commands /\ d.do = "sync" /\ d.key = c.key /\ d.control = c.control
    BY <1>1, <2>1 DEF Commands
  <2>3. c.mode \in {"NORMAL", "EXITS_ONLY"} /\ OfFamily(t, c)
        /\ c.control \notin {"AUTO", "MANUAL"}
        /\ StageOf(t) \in {"ensure", "conclude", "assess"}
    BY <1>1, <1>2, NoneAssumption DEF NowFits, PlanFits, MayPlan, MayRun
  <2>4. NowFits(t, d)
    BY <2>2, <2>3 DEF NowFits, MayRun, OfFamily, Deployable
  <2>5. Then(t, c, d) /\ NoRaise /\ objects' = [objects EXCEPT ![<<c.key, i>>] = o]
    BY <1>4 DEF SetMode, Registered
  <2>6. o \in ObjectRecords
    BY <1>1, <2>1, <2>3 DEF ObjectRecords, Modes, Static, ObjectTypes
  <2> HIDE DEF d, i, o
  <2>7. CallTypes' /\ AllCalls'
    BY <2>2, <2>4, <2>5, StaticThen
  <2>8. ObjectTypes'
    BY <1>1, <2>1, <2>5, <2>6, ObjectTypesKept
  <2> QED
    BY <2>5, <2>7, <2>8, Kept DEF Static, SetMode, policy, risk, NoRaise
<1> QED
  BY <1>3, <1>4

LEMMA StopStatic ==
  ASSUME Static, NEW t \in Threads, NEW c \in Due(t), Stop(t, c)
  PROVE  Static'
<1>1. c.do \in {"stop", "stop_if_up"} /\ c \in Commands /\ c.key \in Keys
  BY StaticDue DEF Stop, Does
<1>2. Now(t) = NoCommand /\ c \in call[t].plan /\ PlanFits(t, c)
  BY <1>1, StaticDue DEF NowFits, MayRun
<1>3. CASE ~Up(c.key)
  <2>1. CallTypes' /\ AllCalls' /\ ProcessTypes'
    <3>1. CASE c.do = "stop"
      BY <1>3, <3>1, StaticRaise DEF Stop
    <3>2. CASE c.do # "stop"
      BY <1>3, <3>2, StaticDone, Kept DEF Stop, NoRaise
    <3> QED
      BY <3>1, <3>2
  <2> QED
    BY <1>3, <2>1, Kept DEF Static, Stop, policy, risk
<1>4. CASE Up(c.key)
  <2> DEFINE i == engines[c.key]
             d == [c EXCEPT !.do = "mark", !.id = i]
  <2>1. i \in Ids
    BY <1>1 DEF Static, EngineTypes
  <2>2. d \in Commands /\ d.do = "mark" /\ d.key = c.key /\ d.control = c.control
    BY <1>1, <2>1 DEF Commands
  <2>3. NowFits(t, d)
    BY <1>1, <1>2, <2>2, NoneAssumption
       DEF PlanFits, MayPlan, NowFits, MayRun, OfFamily
  <2>4. Then(t, c, d) /\ NoRaise /\ engines' = [engines EXCEPT ![c.key] = 0]
    BY <1>4 DEF Stop
  <2> HIDE DEF d, i
  <2>5. CallTypes' /\ AllCalls'
    BY <2>2, <2>3, <2>4, StaticThen
  <2>6. EngineTypes'
    BY <1>1, <2>4, ZeroId DEF Static, EngineTypes
  <2> QED
    BY <2>4, <2>5, <2>6, Kept DEF Static, Stop, policy, risk, NoRaise
<1> QED
  BY <1>3, <1>4

LEMMA NoObjectFacts == NoObject \in ObjectRecords
BY ProfileAssumption DEF NoObject, ObjectRecords, Modes

\* A row that is written keeps the parts of Static about rows.
LEMMA RowsKept ==
  ASSUME Static, NEW k \in Keys, NEW r \in RowRecords,
         rows' = [rows EXCEPT ![k] = r],
         r.status = "RUNNING" => r.id # 0,
         r.status = "STOPPED" => r.mode = "STOPPED"
  PROVE  RowTypes' /\ AllRows'
<1>1. RowTypes'
  BY DEF Static, RowTypes
<1>2. \A j \in Keys : rows'[j] = IF j = k THEN r ELSE rows[j]
  BY DEF Static, RowTypes
<1>3. AllRows'
  BY <1>2 DEF Static, AllRows, RowInv
<1> QED
  BY <1>1, <1>3

LEMMA StoppedRowFacts ==
  ASSUME NEW r \in RowRecords
  PROVE  /\ StoppedRow(r) \in RowRecords
         /\ StoppedRow(r).status = "STOPPED" /\ StoppedRow(r).mode = "STOPPED"
         /\ StoppedRow(r).control = r.control /\ StoppedRow(r).id = r.id
         /\ StoppedRow(r).profile = r.profile
BY DEF StoppedRow, RowRecords, Modes

LEMMA MarkStatic ==
  ASSUME Static, NEW t \in Threads, NEW c \in Due(t), Mark(t, c)
  PROVE  Static'
<1>1. c \in Commands /\ c.key \in Keys /\ c.id \in Ids
  BY StaticDue DEF Commands
<1> DEFINE r == Marked(c.key, c.id)
<1>2. r \in RowRecords /\ (r.status = "RUNNING" => r.id # 0)
      /\ (r.status = "STOPPED" => r.mode = "STOPPED")
  <2>1. rows[c.key] \in RowRecords /\ RowInv(c.key)
    BY <1>1 DEF Static, RowTypes, AllRows
  <2> QED
    BY <2>1, StoppedRowFacts DEF Marked, RowInv
<1>3. rows' = [rows EXCEPT ![c.key] = r]
  BY DEF Mark
<1> HIDE DEF r
<1>4. RowTypes' /\ AllRows'
  BY <1>1, <1>2, <1>3, RowsKept
<1>5. ObjectTypes'
  BY <1>1, NoObjectFacts, ObjectTypesKept, Kept DEF Mark
<1>6. CallTypes' /\ AllCalls'
  BY StaticDone DEF Mark
<1> QED
  BY <1>4, <1>5, <1>6, Kept DEF Static, Mark, policy, risk

LEMMA SyncStatic ==
  ASSUME Static, NEW t \in Threads, NEW c \in Due(t), Sync(t, c)
  PROVE  Static'
<1>1. c.do = "sync" /\ c \in Commands /\ c.key \in Keys /\ c.id \in Ids
  BY StaticDue DEF Sync, Does, Commands
<1>2. \/ c = Now(t) /\ NowFits(t, c)
      \/ Now(t) = NoCommand /\ c \in call[t].plan /\ PlanFits(t, c)
  BY StaticDue
<1>3. CASE ~Up(c.key)
  BY <1>3, StaticRaise, Kept DEF Static, Sync, Up, policy, memory, risk
<1>4. CASE Up(c.key)
  <2> DEFINE i == engines[c.key]
             m == IF c.mode = None /\ call[t].kind = "price"
                    THEN objects[<<c.key, c.id>>].mode ELSE c.mode
             l == objects[<<c.key, c.id>>].holds \/ objects[<<c.key, i>>].holds
             d == [c EXCEPT !.do = "write", !.id = i,
                    !.mode = IF @ = None /\ call[t].kind = "price"
                               THEN objects[<<c.key, c.id>>].mode ELSE @,
                    !.linked = objects[<<c.key, c.id>>].holds
                                 \/ objects[<<c.key, i>>].holds]
  <2>1. i \in Ids /\ i # 0
    BY <1>1, <1>4 DEF Static, EngineTypes, Up
  <2>2. m \in Modes \cup {None} /\ l \in BOOLEAN
    <3>1. \A j \in Ids : objects[<<c.key, j>>] \in ObjectRecords
      BY <1>1 DEF Static, ObjectTypes
    <3> QED
      BY <1>1, <2>1, <3>1 DEF ObjectRecords, Commands
  <2>3. d \in Commands /\ d.do = "write" /\ d.id = i /\ d.key = c.key
        /\ d.control = c.control
    BY <1>1, <2>1, <2>2 DEF Commands
  <2>4. NowFits(t, d)
    <3>1. /\ OfFamily(t, c)
          /\ c.control = "AUTO" <=> StageOf(t) = "confirm"
          /\ c.control = "MANUAL" => StageOf(t) = "operator"
      BY <1>2, NoneAssumption DEF NowFits, PlanFits, MayPlan
    <3>2. MayRun(StageOf(t), "write")
      BY <1>1, <1>2 DEF NowFits, PlanFits, MayPlan, MayRun
    <3> QED
      BY <2>1, <2>3, <3>1, <3>2 DEF NowFits, OfFamily
  <2>5. Then(t, c, d) /\ NoRaise
    BY <1>4 DEF Sync, Up
  <2> HIDE DEF d, i, m, l
  <2>6. CallTypes' /\ AllCalls'
    BY <2>3, <2>4, <2>5, StaticThen
  <2> QED
    BY <2>5, <2>6, Kept DEF Static, Sync, policy, memory, risk, NoRaise
<1> QED
  BY <1>3, <1>4

LEMMA SyncedRowFacts ==
  ASSUME Static, NEW c \in Commands
  PROVE  LET r == SyncedRow(c.key, c)
         IN  /\ r \in RowRecords
             /\ r.id = c.id /\ r.status = "RUNNING" /\ r.recovery = "RUNNING"
             /\ r.linked = c.linked /\ r.mode = WrittenMode(c)
             /\ r.control = IF c.control = None THEN rows[c.key].control
                                                ELSE c.control
<1>1. c.key \in Keys /\ c.id \in Ids /\ c.linked \in BOOLEAN
      /\ c.mode \in Modes \cup {None} /\ c.control \in {"AUTO", "MANUAL", None}
  BY DEF Commands
<1>2. rows[c.key] \in RowRecords /\ objects[<<c.key, c.id>>] \in ObjectRecords
  BY <1>1 DEF Static, RowTypes, ObjectTypes
<1> QED
  BY <1>1, <1>2 DEF SyncedRow, RowRecords, ObjectRecords, Modes, WrittenMode

LEMMA WriteStatic ==
  ASSUME Static, NEW t \in Threads, NEW c \in Due(t), Write(t, c)
  PROVE  Static'
<1>1. c.do = "write" /\ c \in Commands /\ c.key \in Keys
  BY StaticDue DEF Write, Does
<1>2. c.id # 0
  BY <1>1, StaticDue DEF NowFits, PlanFits, MayPlan
<1>3. RowTypes' /\ AllRows'
  BY <1>1, <1>2, SyncedRowFacts, RowsKept DEF Write
<1>4. CallTypes' /\ AllCalls'
  BY StaticDone DEF Write
<1> QED
  BY <1>3, <1>4, Kept DEF Static, Write, policy, memory, risk

\* A call that is set to another stage of its work.
LEMMA NewCall ==
  ASSUME Static, NEW t \in Threads, NEW x \in CallRecords, SetCall(t, x),
         CallInv(t)'
  PROVE  CallTypes' /\ AllCalls'
<1>1. CallTypes' /\ \A u \in Threads : u # t => call'[u] = call[u]
  BY SetCallEffect DEF Static
<1> QED
  BY <1>1, SameCallInv DEF Static, AllCalls

LEMMA FinishStatic ==
  ASSUME Static, NEW t \in Threads, Finish(t)
  PROVE  Static'
<1>1. CallTypes' /\ AllCalls'
  BY IdleCalls DEF Finish, Static, AllCalls
<1> QED
  BY <1>1, Kept DEF Static, Finish, policy, memory, risk

LEMMA CallFacts ==
  ASSUME Static, NEW t \in Threads
  PROVE  call[t] \in CallRecords /\ CallInv(t)
BY DEF Static, CallTypes, AllCalls

LEMMA CycleFacts ==
  ASSUME Static, NEW t \in Threads, call[t].kind = "cycle"
  PROVE  call[t].family \in Families /\ StageOf(t) = call[t].stage
BY CallFacts DEF CallInv, StageOf

LEMMA AutoRowKeys ==
  ASSUME NEW f
  PROVE  AutoRows(f) \subseteq Keys /\ \A k \in AutoRows(f) : k[1] = f
BY DEF AutoRows

LEMMA RotationPlan ==
  ASSUME NEW f, NEW i, NEW p, NEW open,
         NEW c \in RotationCommands(f, i, p, open)
  PROVE  /\ c \in Commands /\ c.control = None /\ c.id = 0
         /\ c.key \in AutoRows(f) /\ c.key[1] = f
         /\ \/ /\ c.do = "mode" /\ c.mode = "EXITS_ONLY"
               /\ c.key[2] # i /\ c.key \in open
            \/ /\ c.do = "stop" /\ c.mode = None
               /\ \/ c.key[2] # i /\ c.key \notin open
                  \/ c.key[2] = i /\ rows[c.key].profile # p
<1>1. PICK k \in AutoRows(f) :
        \/ /\ c = Command("mode", k, 0, "EXITS_ONLY", None)
           /\ k[2] # i /\ k \in open
        \/ /\ c = Command("stop", k, 0, None, None)
           /\ \/ k[2] # i /\ k \notin open
              \/ k[2] = i /\ rows[k].profile # p
  BY DEF RotationCommands
<1>2. k \in Keys /\ k[1] = f
  BY AutoRowKeys
<1> QED
  BY <1>1, <1>2, CommandFacts, CommandTypes, ZeroId DEF CommandNames, Modes

LEMMA WithdrawalPlan ==
  ASSUME NEW f, NEW open, NEW eligible,
         NEW c \in WithdrawalCommands(f, open, eligible)
  PROVE  /\ c \in Commands /\ c.control = None /\ c.id = 0
         /\ c.key \in AutoRows(f) /\ c.key[1] = f
         /\ \/ /\ c.do = "mode_if_up" /\ c.mode = "EXITS_ONLY"
               /\ c.key \in open /\ Retained(f, open, eligible)
            \/ /\ c.do = "stop_if_up" /\ c.mode = None
               /\ c.key \notin open \/ ~Retained(f, open, eligible)
<1>1. PICK k \in AutoRows(f) :
        \/ /\ c = Command("mode_if_up", k, 0, "EXITS_ONLY", None)
           /\ k \in open /\ Retained(f, open, eligible)
        \/ /\ c = Command("stop_if_up", k, 0, None, None)
           /\ k \notin open \/ ~Retained(f, open, eligible)
  BY DEF WithdrawalCommands
<1>2. k \in Keys /\ k[1] = f
  BY AutoRowKeys
<1> QED
  BY <1>1, <1>2, CommandFacts, CommandTypes, ZeroId DEF CommandNames, Modes

\* What Evaluate makes of the call: the family is withdrawn, left to the
\* operator or deployed.
Withdraws(t, view, i, eligible) ==
  /\ TargetState(call[t].family, view) # "AUTO_DEPLOYED"
  /\ call'[t].state = TargetState(call[t].family, view)
  /\ call'[t].stage = "conclude"
  /\ call'[t].plan = WithdrawalCommands(call[t].family, call'[t].open, eligible)
  /\ call'[t].risk = WithdrawalRisk(call[t].family, call'[t].open, eligible)
LeavesToOperator(t) ==
  /\ ManualRows(call[t].family) # {}
  /\ call'[t].state = "BLOCKED" /\ call'[t].stage = "conclude"
  /\ call'[t].plan = {}
  /\ call'[t].risk = "NO_OPEN_RISK"
Deploys(t, i) ==
  /\ ManualRows(call[t].family) = {}
  /\ call'[t].state = "AUTO_DEPLOYED" /\ call'[t].stage = "ensure"
  /\ call'[t].plan =
       RotationCommands(call[t].family, i, call'[t].profile, call'[t].open)

LEMMA TargetStates ==
  ASSUME Static, NEW f \in Families, NEW view \in Views
  PROVE  TargetState(f, view) \in DeploymentStates
<1>1. governance[f] \in Governance /\ view \in MarketViews
  BY ViewAssumption DEF Static, PolicyTypes
<1> QED
  BY <1>1 DEF TargetState, Governance, MarketViews, DeploymentStates

LEMMA WithdrawalRisks ==
  ASSUME NEW f, NEW open, NEW eligible
  PROVE  WithdrawalRisk(f, open, eligible) \in RiskStates
BY DEF WithdrawalRisk, RiskStates

LEMMA EvaluateEffect ==
  ASSUME Static, NEW t \in Threads, Evaluate(t)
  PROVE  \E view \in Views, i \in Instruments, eligible \in SUBSET Instruments :
           /\ call'[t] \in CallRecords
           /\ SetCall(t, call'[t])
           /\ call'[t].kind = "cycle" /\ call'[t].family = call[t].family
           /\ call'[t].now = NoCommand
           /\ call'[t].instrument = i
           /\ call'[t].open = OpenKeys(call[t].family)
           /\ \/ Withdraws(t, view, i, eligible)
              \/ LeavesToOperator(t)
              \/ Deploys(t, i)
<1> DEFINE f == call[t].family
           open == OpenKeys(f)
           planned(i) == [call[t] EXCEPT !.open = open, !.instrument = i,
                                         !.profile = profile[f]]
           withdrawn(view, i, eligible) ==
             [planned(i) EXCEPT !.state = TargetState(f, view),
                !.stage = "conclude",
                !.plan = WithdrawalCommands(f, open, eligible),
                !.risk = WithdrawalRisk(f, open, eligible)]
           left(i) == [planned(i) EXCEPT !.state = "BLOCKED",
                         !.stage = "conclude", !.risk = "NO_OPEN_RISK"]
           deployed(view, i) ==
             [planned(i) EXCEPT !.state = TargetState(f, view),
                !.stage = "ensure",
                !.plan = RotationCommands(f, i, profile[f], open)]
<1>1. call[t] \in CallRecords /\ f \in Families /\ Planned(t)
      /\ call[t].kind = "cycle" /\ call[t].stage = "evaluate"
  BY CallFacts, CycleFacts DEF Evaluate, InCycle, CallInv
<1>2. open \in SUBSET Keys /\ profile[f] \in Profiles
  BY <1>1 DEF OpenKeys, Static, PolicyTypes
<1>3. PICK view \in Views, i \in Instruments, eligible \in SUBSET Instruments :
        SetCall(t,
          IF TargetState(f, view) # "AUTO_DEPLOYED"
            THEN withdrawn(view, i, eligible)
          ELSE IF ManualRows(f) # {} THEN left(i)
          ELSE deployed(view, i))
  BY DEF Evaluate
<1>4. TargetState(f, view) \in DeploymentStates
  BY <1>1, TargetStates
<1>5. WithdrawalCommands(f, open, eligible) \in SUBSET Commands
      /\ RotationCommands(f, i, profile[f], open) \in SUBSET Commands
  BY WithdrawalPlan, RotationPlan
<1>6. WithdrawalRisk(f, open, eligible) \in RiskStates
  BY WithdrawalRisks
<1>7. call[t].plan = {} /\ call[t].now = NoCommand
  BY <1>1 DEF Planned, Now
<1>8. CASE TargetState(f, view) # "AUTO_DEPLOYED"
  <2> DEFINE pl == WithdrawalCommands(f, open, eligible)
             ri == WithdrawalRisk(f, open, eligible)
             st == TargetState(f, view)
             q == planned(i)
  <2>1. SetCall(t, withdrawn(view, i, eligible))
    BY <1>3, <1>8
  <2>2. call'[t] = [q EXCEPT !.state = st, !.stage = "conclude", !.plan = pl,
                             !.risk = ri]
    BY <2>1, SetCallEffect DEF Static
  <2>a. q \in CallRecords /\ q.kind = "cycle" /\ q.family = f
        /\ q.now = NoCommand /\ q.instrument = i /\ q.open = open
    BY <1>1, <1>2, <1>7 DEF CallRecords
  <2>b. st \in DeploymentStates /\ pl \in SUBSET Commands /\ ri \in RiskStates
    BY <1>4, <1>5, <1>6
  <2> HIDE DEF pl, ri, st, q
  <2>c. /\ call'[t] \in CallRecords
        /\ call'[t].kind = "cycle" /\ call'[t].family = f
        /\ call'[t].now = NoCommand /\ call'[t].instrument = i
        /\ call'[t].open = open
        /\ call'[t].state = st /\ call'[t].stage = "conclude"
        /\ call'[t].plan = pl /\ call'[t].risk = ri
    BY <2>2, <2>a, <2>b DEF CallRecords
  <2>3. /\ call'[t] \in CallRecords
        /\ call'[t].kind = "cycle" /\ call'[t].family = f
        /\ call'[t].now = NoCommand /\ call'[t].instrument = i
        /\ call'[t].open = open
        /\ call'[t].state = TargetState(f, view)
        /\ call'[t].stage = "conclude"
        /\ call'[t].plan = WithdrawalCommands(f, open, eligible)
        /\ call'[t].risk = WithdrawalRisk(f, open, eligible)
    BY <2>c DEF pl, ri, st
  <2>4. Withdraws(t, view, i, eligible)
    BY <1>8, <2>3 DEF Withdraws
  <2>5. SetCall(t, call'[t])
    <3>1. call'[t] = withdrawn(view, i, eligible)
      BY <2>2 DEF pl, ri, st, q
    <3> QED
      BY <2>1, <3>1
  <2> QED
    BY <2>3, <2>4, <2>5
<1>9. CASE TargetState(f, view) = "AUTO_DEPLOYED" /\ ManualRows(f) # {}
  <2> DEFINE q == planned(i)
  <2>1. SetCall(t, left(i))
    BY <1>3, <1>9
  <2>2. call'[t] = left(i)
    BY <2>1, SetCallEffect DEF Static
  <2>3. /\ call'[t] \in CallRecords
        /\ call'[t].kind = "cycle" /\ call'[t].family = f
        /\ call'[t].now = NoCommand /\ call'[t].instrument = i
        /\ call'[t].open = open
        /\ call'[t].state = "BLOCKED" /\ call'[t].stage = "conclude"
        /\ call'[t].plan = {}
        /\ call'[t].risk = "NO_OPEN_RISK"
    <3>1. /\ q \in CallRecords /\ q.kind = "cycle" /\ q.family = f
          /\ q.now = NoCommand /\ q.instrument = i /\ q.open = open
          /\ q.plan = {}
      BY <1>1, <1>2, <1>7 DEF CallRecords
    <3>2. call'[t] = [q EXCEPT !.state = "BLOCKED", !.stage = "conclude",
                               !.risk = "NO_OPEN_RISK"]
      BY <2>2
    <3>3. "BLOCKED" \in DeploymentStates /\ "NO_OPEN_RISK" \in RiskStates
      BY DEF DeploymentStates, RiskStates
    <3> HIDE DEF q
    <3> QED
      BY <3>1, <3>2, <3>3 DEF CallRecords
  <2>4. LeavesToOperator(t)
    BY <1>9, <2>3 DEF LeavesToOperator
  <2> QED
    BY <2>1, <2>2, <2>3, <2>4
<1>10. CASE TargetState(f, view) = "AUTO_DEPLOYED" /\ ManualRows(f) = {}
  <2>1. SetCall(t, deployed(view, i))
    BY <1>3, <1>10
  <2>2. call'[t] = deployed(view, i)
    BY <2>1, SetCallEffect DEF Static
  <2> DEFINE pl == RotationCommands(f, i, profile[f], open)
  <2>a. pl \in SUBSET Commands /\ "AUTO_DEPLOYED" \in DeploymentStates
    BY <1>5 DEF DeploymentStates
  <2> HIDE DEF pl
  <2>b. call'[t] = [planned(i) EXCEPT !.state = "AUTO_DEPLOYED",
                                      !.stage = "ensure", !.plan = pl]
    BY <2>2, <1>10 DEF pl
  <2>3. /\ call'[t] \in CallRecords
        /\ call'[t].kind = "cycle" /\ call'[t].family = f
        /\ call'[t].now = NoCommand /\ call'[t].instrument = i
        /\ call'[t].open = open
        /\ call'[t].state = "AUTO_DEPLOYED" /\ call'[t].stage = "ensure"
        /\ call'[t].profile = profile[f]
        /\ call'[t].plan = pl
    <3> DEFINE q == planned(i)
    <3>1. /\ q \in CallRecords /\ q.kind = "cycle" /\ q.family = f
          /\ q.now = NoCommand /\ q.instrument = i /\ q.open = open
          /\ q.profile = profile[f]
      BY <1>1, <1>2, <1>7 DEF CallRecords
    <3>2. call'[t] = [q EXCEPT !.state = "AUTO_DEPLOYED",
                               !.stage = "ensure", !.plan = pl]
      BY <2>b
    <3> HIDE DEF q
    <3> QED
      BY <3>1, <3>2, <2>a DEF CallRecords
  <2>4. Deploys(t, i)
    BY <1>10, <2>3 DEF Deploys, pl
  <2> QED
    BY <2>1, <2>2, <2>3, <2>4
<1> QED
  BY <1>8, <1>9, <1>10

LEMMA EvaluateStatic ==
  ASSUME Static, NEW t \in Threads, Evaluate(t)
  PROVE  Static'
<1>1. PICK view \in Views, i \in Instruments, eligible \in SUBSET Instruments :
           /\ call'[t] \in CallRecords
           /\ SetCall(t, call'[t])
           /\ call'[t].kind = "cycle" /\ call'[t].family = call[t].family
           /\ call'[t].now = NoCommand
           /\ call'[t].instrument = i
           /\ call'[t].open = OpenKeys(call[t].family)
           /\ \/ Withdraws(t, view, i, eligible)
              \/ LeavesToOperator(t)
              \/ Deploys(t, i)
  BY EvaluateEffect
<1>2. call[t].family \in Families
  BY CycleFacts DEF Evaluate, InCycle
<1>3. call'[t].kind = "cycle" /\ call'[t].stage \in {"conclude", "ensure"}
      /\ (call'[t].stage = "ensure" => call'[t].state = "AUTO_DEPLOYED")
  BY <1>1 DEF Withdraws, LeavesToOperator, Deploys
<1>4. StageOf(t)' = call'[t].stage
  BY <1>3 DEF StageOf
<1>5. \A c \in call'[t].plan : PlanFits(t, c)'
  <2> SUFFICES ASSUME NEW c \in call'[t].plan PROVE PlanFits(t, c)'
    OBVIOUS
  <2>1. CASE Withdraws(t, view, i, eligible)
    BY <1>1, <1>4, <2>1, WithdrawalPlan
       DEF Withdraws, PlanFits, MayPlan, OfFamily
  <2>2. CASE LeavesToOperator(t)
    BY <2>2 DEF LeavesToOperator
  <2>3. CASE Deploys(t, i)
    BY <1>1, <1>4, <2>3, RotationPlan DEF Deploys, PlanFits, MayPlan, OfFamily
  <2> QED
    BY <1>1, <2>1, <2>2, <2>3
<1>6. CallInv(t)'
  BY <1>1, <1>2, <1>3, <1>4, <1>5
     DEF CallInv, Busy, Now, Planned, CycleStages, Deployable
<1>7. CallTypes' /\ AllCalls'
  BY <1>1, <1>6, NewCall
<1> QED
  BY <1>7, Kept DEF Static, Evaluate, policy, memory, risk

\* A deployable family goes on to the next stage with one command or none.
LEMMA StageCalls ==
  ASSUME Static, NEW t \in Threads, call[t].kind = "cycle", Planned(t),
         call[t].stage \in Deployable,
         NEW stage \in Deployable, NEW next \in Commands \cup {NoCommand},
         SetCall(t, [call[t] EXCEPT !.stage = stage, !.now = next]),
         next # NoCommand => NowFits(t, next)'
  PROVE  CallTypes' /\ AllCalls'
<1> DEFINE x == [call[t] EXCEPT !.stage = stage, !.now = next]
<1>1. call[t] \in CallRecords /\ CallInv(t)
  BY CallFacts
<1>2. /\ x \in CallRecords /\ x.kind = "cycle" /\ x.stage = stage
      /\ x.family = call[t].family /\ x.plan = call[t].plan /\ x.now = next
      /\ x.state = call[t].state /\ x.instrument = call[t].instrument
  BY <1>1 DEF CallRecords, Deployable
<1> HIDE DEF x
<1>3. call'[t] = x
  BY SetCallEffect DEF Static, x
<1>4. CallInv(t)'
  BY <1>1, <1>2, <1>3
     DEF CallInv, Busy, Now, Planned, StageOf, CycleStages, Deployable
<1> QED
  BY <1>2, <1>4, NewCall DEF x

LEMMA TargetFacts ==
  ASSUME Static, NEW t \in Threads, call[t].kind = "cycle",
         call[t].stage \in Deployable
  PROVE  Target(t) \in Keys /\ Target(t)[1] = call[t].family
BY CallFacts, CycleFacts DEF CallInv, Target, Keys

LEMMA EnsureEffect ==
  ASSUME Static, NEW t \in Threads, Ensure(t)
  PROVE  \E next \in Commands \cup {NoCommand} :
           /\ SetCall(t, [call[t] EXCEPT !.stage = "confirm", !.now = next])
           /\ call'[t] = [call[t] EXCEPT !.stage = "confirm", !.now = next]
           /\ call[t] \in CallRecords /\ call[t].kind = "cycle"
           /\ SameHead([call'[t] EXCEPT !.stage = call[t].stage], call[t])
           /\ call'[t].stage = "confirm" /\ call'[t].now = next
           /\ call'[t].plan = {}
           /\ IF Up(Target(t))
                THEN next = NoCommand
                ELSE /\ next.do = "resolve" /\ next.key = Target(t)
                     /\ next.mode = "NORMAL" /\ next.control = "AUTO"
<1> DEFINE c == Command("resolve", Target(t), 0, "NORMAL", "AUTO")
           next == IF Up(Target(t)) THEN NoCommand ELSE c
<1>1. call[t] \in CallRecords /\ call[t].kind = "cycle" /\ call[t].plan = {}
  BY CallFacts DEF Ensure, InCycle, Planned
<1>2. c \in Commands
  BY TargetFacts, CommandTypes, ZeroId
     DEF Ensure, InCycle, Deployable, CommandNames, Modes
<1>3. c.do = "resolve" /\ c.key = Target(t) /\ c.mode = "NORMAL"
      /\ c.control = "AUTO"
  BY CommandFacts
<1> HIDE DEF c
<1>4. SetCall(t, [call[t] EXCEPT !.stage = "confirm", !.now = next])
  BY DEF Ensure, c
<1>5. next \in Commands \cup {NoCommand}
  BY <1>2
<1>6. call'[t] = [call[t] EXCEPT !.stage = "confirm", !.now = next]
  BY <1>4, SetCallEffect DEF Static
<1>7. IF Up(Target(t)) THEN next = NoCommand ELSE next = c
  OBVIOUS
<1> HIDE DEF next
<1>8. /\ SameHead([call'[t] EXCEPT !.stage = call[t].stage], call[t])
      /\ call'[t].stage = "confirm" /\ call'[t].now = next
      /\ call'[t].plan = {}
  BY <1>1, <1>6 DEF SameHead, CallRecords
<1> QED
  BY <1>1, <1>3, <1>4, <1>5, <1>6, <1>7, <1>8

LEMMA EnsureStatic ==
  ASSUME Static, NEW t \in Threads, Ensure(t)
  PROVE  Static'
<1>1. PICK next \in Commands \cup {NoCommand} :
        /\ SetCall(t, [call[t] EXCEPT !.stage = "confirm", !.now = next])
        /\ call'[t] = [call[t] EXCEPT !.stage = "confirm", !.now = next]
        /\ call[t] \in CallRecords /\ call[t].kind = "cycle"
        /\ next # NoCommand => /\ next.do = "resolve" /\ next.key = Target(t)
                               /\ next.mode = "NORMAL"
                               /\ next.control = "AUTO"
  BY EnsureEffect
<1>2. call'[t].kind = "cycle" /\ call'[t].stage = "confirm"
      /\ call'[t].family = call[t].family
  BY <1>1 DEF CallRecords
<1>3. Target(t)[1] = call[t].family
  BY TargetFacts DEF Ensure, InCycle, Deployable
<1>4. next # NoCommand => NowFits(t, next)'
  BY <1>1, <1>2, <1>3, NoneAssumption DEF NowFits, MayRun, StageOf, OfFamily
<1>5. CallTypes' /\ AllCalls'
  BY <1>1, <1>4, StageCalls DEF Ensure, InCycle, Deployable
<1> QED
  BY <1>5, Kept DEF Static, Ensure, policy, memory, risk

LEMMA ConfirmEffect ==
  ASSUME Static, NEW t \in Threads, Confirm(t)
  PROVE  \E next \in Commands \cup {NoCommand} :
           /\ SetCall(t, [call[t] EXCEPT !.stage = "assess", !.now = next])
           /\ call'[t] = [call[t] EXCEPT !.stage = "assess", !.now = next]
           /\ call[t] \in CallRecords /\ call[t].kind = "cycle"
           /\ SameHead([call'[t] EXCEPT !.stage = call[t].stage], call[t])
           /\ call'[t].stage = "assess" /\ call'[t].now = next
           /\ call'[t].plan = {}
           /\ IF ~Confirmed(t)
                THEN next = NoCommand
                ELSE /\ next.do = "mode" /\ next.key = Target(t)
                     /\ next.mode = "NORMAL" /\ next.control = None
<1> DEFINE c == Command("mode", Target(t), 0, "NORMAL", None)
           next == IF ~Confirmed(t) THEN NoCommand ELSE c
<1>1. call[t] \in CallRecords /\ call[t].kind = "cycle" /\ call[t].plan = {}
  BY CallFacts DEF Confirm, InCycle, Planned
<1>2. c \in Commands
  BY TargetFacts, CommandTypes, ZeroId
     DEF Confirm, InCycle, Deployable, CommandNames, Modes
<1>3. c.do = "mode" /\ c.key = Target(t) /\ c.mode = "NORMAL"
      /\ c.control = None
  BY CommandFacts
<1> HIDE DEF c
<1>4. SetCall(t, [call[t] EXCEPT !.stage = "assess", !.now = next])
  BY DEF Confirm, c
<1>5. next \in Commands \cup {NoCommand}
  BY <1>2
<1>6. call'[t] = [call[t] EXCEPT !.stage = "assess", !.now = next]
  BY <1>4, SetCallEffect DEF Static
<1>7. IF ~Confirmed(t) THEN next = NoCommand ELSE next = c
  OBVIOUS
<1> HIDE DEF next
<1>8. /\ SameHead([call'[t] EXCEPT !.stage = call[t].stage], call[t])
      /\ call'[t].stage = "assess" /\ call'[t].now = next
      /\ call'[t].plan = {}
  BY <1>1, <1>6 DEF SameHead, CallRecords
<1> QED
  BY <1>1, <1>3, <1>4, <1>5, <1>6, <1>7, <1>8

LEMMA ConfirmStatic ==
  ASSUME Static, NEW t \in Threads, Confirm(t)
  PROVE  Static'
<1>1. PICK next \in Commands \cup {NoCommand} :
        /\ SetCall(t, [call[t] EXCEPT !.stage = "assess", !.now = next])
        /\ call'[t] = [call[t] EXCEPT !.stage = "assess", !.now = next]
        /\ call[t] \in CallRecords /\ call[t].kind = "cycle"
        /\ next # NoCommand => /\ next.do = "mode" /\ next.key = Target(t)
                               /\ next.mode = "NORMAL"
                               /\ next.control = None
  BY ConfirmEffect
<1>2. call'[t].kind = "cycle" /\ call'[t].stage = "assess"
      /\ call'[t].family = call[t].family
  BY <1>1 DEF CallRecords
<1>3. Target(t)[1] = call[t].family
  BY TargetFacts DEF Confirm, InCycle, Deployable
<1>4. next # NoCommand => NowFits(t, next)'
  BY <1>1, <1>2, <1>3, NoneAssumption DEF NowFits, MayRun, StageOf, OfFamily
<1>5. CallTypes' /\ AllCalls'
  BY <1>1, <1>4, StageCalls DEF Confirm, InCycle, Deployable
<1> QED
  BY <1>5, Kept DEF Static, Confirm, policy, memory, risk

LEMMA EvaluationCall ==
  ASSUME NEW f \in Families
  PROVE  LET x == [IdleCall EXCEPT !.kind = "cycle", !.stage = "evaluate",
                                   !.family = f]
         IN  /\ x \in CallRecords /\ x.kind = "cycle" /\ x.stage = "evaluate"
             /\ x.family = f /\ x.plan = {} /\ x.now = NoCommand
BY IdleFacts, FamilyFacts DEF CallRecords

LEMMA ConcludeStatic ==
  ASSUME Static, NEW t \in Threads, call[t].kind = "cycle",
         NEW r \in RiskStates, Conclude(t, r)
  PROVE  Static'
<1> DEFINE f == call[t].family
<1>1. f \in Families /\ call[t] \in CallRecords
  BY CycleFacts, CallFacts
<1>2. PolicyTypes'
  BY <1>1 DEF Static, PolicyTypes, Conclude, policy, CallRecords
<1>3. CallTypes' /\ AllCalls'
  <2>1. CASE f = FamilyCount
    BY <2>1, IdleCalls DEF Conclude, Static, AllCalls
  <2>2. CASE f # FamilyCount
    <3> DEFINE x == [IdleCall EXCEPT !.kind = "cycle", !.stage = "evaluate",
                                     !.family = f + 1]
    <3>1. SetCall(t, x)
      BY <2>2 DEF Conclude
    <3>a. f + 1 \in Families
      BY <1>1, <2>2, FamilyFacts
    <3>2. /\ x \in CallRecords /\ x.kind = "cycle" /\ x.stage = "evaluate"
          /\ x.family \in Families /\ x.plan = {} /\ x.now = NoCommand
      BY <3>a, EvaluationCall
    <3> HIDE DEF x
    <3>3. call'[t] = x
      BY <3>1, SetCallEffect DEF Static
    <3>4. CallInv(t)'
      BY <3>2, <3>3 DEF CallInv, Busy, Now, Planned, StageOf, CycleStages, Deployable
    <3> QED
      BY <3>1, <3>2, <3>4, NewCall
  <2> QED
    BY <2>1, <2>2
<1>4. ProcessTypes'
  BY FamilyFacts DEF Conclude, Static, ProcessTypes
<1> QED
  BY <1>2, <1>3, <1>4, Kept DEF Static, Conclude, policy, memory, risk

LEMMA AssessedRisks ==
  ASSUME NEW f, NEW open, NEW eligible
  PROVE  AssessedRisk(f, open, eligible) \in RiskStates
BY DEF AssessedRisk, RiskStates

LEMMA AssessStatic ==
  ASSUME Static, NEW t \in Threads, Assess(t)
  PROVE  Static'
BY ConcludeStatic, AssessedRisks DEF Assess, InCycle

LEMMA SettleStatic ==
  ASSUME Static, NEW t \in Threads, Settle(t)
  PROVE  Static'
BY ConcludeStatic, CallFacts DEF Settle, InCycle, CallRecords

LEMMA BeginStatic ==
  ASSUME Static, NEW t \in Threads, NEW x \in CallRecords, Begin(t, x),
         CallInv(t)'
  PROVE  Static'
<1>1. CallTypes' /\ AllCalls'
  BY NewCall DEF Begin
<1>2. ProcessTypes'
  BY BoundAssumption DEF Begin, Static, ProcessTypes
<1> QED
  BY <1>1, <1>2, Kept DEF Static, Begin, policy, memory, risk

LEMMA BeginEffect ==
  ASSUME Static, NEW t \in Threads, NEW x, Begin(t, x)
  PROVE  /\ call'[t] = x /\ \A u \in Threads : u # t => call'[u] = call[u]
BY SetCallEffect DEF Begin, Static

LEMMA StartCycleStatic ==
  ASSUME Static, NEW t \in Threads, StartCycle(t)
  PROVE  Static'
<1> DEFINE x == [IdleCall EXCEPT !.kind = "cycle", !.stage = "evaluate",
                                 !.family = 1]
<1>1. Begin(t, x)
  BY DEF StartCycle
<1>2. /\ x \in CallRecords /\ x.kind = "cycle" /\ x.stage = "evaluate"
      /\ x.family \in Families /\ x.plan = {} /\ x.now = NoCommand
  BY EvaluationCall, FamilyFacts
<1> HIDE DEF x
<1>3. call'[t] = x
  BY <1>1, BeginEffect
<1>4. CallInv(t)'
  BY <1>2, <1>3 DEF CallInv, Busy, Now, Planned, StageOf, CycleStages, Deployable
<1> QED
  BY <1>1, <1>2, <1>4, BeginStatic

\* A call with commands that is no cycle.
LEMMA PlanCall ==
  ASSUME NEW kind \in {"price", "operator", "supervisor"},
         NEW plan \in SUBSET Commands
  PROVE  LET x == [IdleCall EXCEPT !.kind = kind, !.plan = plan]
         IN  /\ x \in CallRecords /\ x.kind = kind /\ x.stage = "commands"
             /\ x.plan = plan /\ x.now = NoCommand
BY IdleFacts DEF CallRecords

LEMMA PricePlan ==
  ASSUME Static, NEW i \in Instruments,
         NEW c \in {Command(do, k, engines[k], None, None) :
                      do \in {"sync", "trade"}, k \in UpKeys(i)}
  PROVE  /\ c \in Commands /\ c.do \in {"sync", "trade"}
         /\ c.mode = None /\ c.control = None /\ c.key \in UpKeys(i)
         /\ c.id = engines[c.key]
<1>1. PICK do \in {"sync", "trade"}, k \in UpKeys(i) :
        c = Command(do, k, engines[k], None, None)
  OBVIOUS
<1>2. k \in Keys /\ engines[k] \in Ids
  BY DEF UpKeys, Static, EngineTypes
<1> QED
  BY <1>1, <1>2, CommandFacts, CommandTypes DEF CommandNames

LEMMA StartPriceEffect ==
  ASSUME Static, NEW i \in Instruments, StartPrice(i)
  PROVE  /\ call'["loop"] \in CallRecords
         /\ Begin("loop", call'["loop"])
         /\ call'["loop"].kind = "price" /\ call'["loop"].stage = "commands"
         /\ call'["loop"].plan = {Command(do, k, engines[k], None, None) :
                                    do \in {"sync", "trade"}, k \in UpKeys(i)}
         /\ call'["loop"].now = NoCommand
<1> DEFINE plan == {Command(do, k, engines[k], None, None) :
                      do \in {"sync", "trade"}, k \in UpKeys(i)}
           x == [IdleCall EXCEPT !.kind = "price", !.plan = plan]
<1>1. plan \in SUBSET Commands
  BY PricePlan
<1>2. Begin("loop", x)
  BY DEF StartPrice
<1>3. call'["loop"] = x
  BY <1>2, BeginEffect DEF Threads
<1> HIDE DEF plan
<1>4. /\ x \in CallRecords /\ x.kind = "price" /\ x.stage = "commands"
      /\ x.plan = plan /\ x.now = NoCommand
  BY <1>1, PlanCall
<1> QED
  BY <1>2, <1>3, <1>4 DEF plan

LEMMA StartPriceStatic ==
  ASSUME Static, NEW i \in Instruments, StartPrice(i)
  PROVE  Static'
<1>1. /\ call'["loop"] \in CallRecords
      /\ Begin("loop", call'["loop"])
      /\ call'["loop"].kind = "price" /\ call'["loop"].stage = "commands"
      /\ call'["loop"].plan = {Command(do, k, engines[k], None, None) :
                                 do \in {"sync", "trade"}, k \in UpKeys(i)}
      /\ call'["loop"].now = NoCommand
  BY StartPriceEffect
<1>2. \A c \in call'["loop"].plan : PlanFits("loop", c)'
  BY <1>1, PricePlan, NoneAssumption
     DEF PlanFits, MayPlan, StageOf, OfFamily, CycleStages
<1>3. CallInv("loop")'
  BY <1>1, <1>2
     DEF CallInv, Busy, Now, Planned, StageOf, CycleStages, Deployable
<1> QED
  BY <1>1, <1>3, BeginStatic DEF Threads

LEMMA OperatorStartsEffect ==
  ASSUME Static, NEW k \in Keys, OperatorStarts(k)
  PROVE  LET c == Command("resolve", k, 0, None, "MANUAL")
             x == call'["beside"]
         IN  /\ x \in CallRecords /\ Begin("beside", x)
             /\ x.kind = "operator" /\ x.stage = "commands" /\ x.plan = {}
             /\ x.now = c /\ c \in Commands
<1> DEFINE c == Command("resolve", k, 0, None, "MANUAL")
           x == [IdleCall EXCEPT !.kind = "operator", !.now = c]
<1>1. c \in Commands
  BY CommandTypes, ZeroId DEF CommandNames
<1>2. Begin("beside", x) /\ call'["beside"] = x
  BY BeginEffect DEF OperatorStarts, Threads
<1> HIDE DEF c
<1>3. /\ x \in CallRecords /\ x.kind = "operator" /\ x.stage = "commands"
      /\ x.plan = {} /\ x.now = c
  BY <1>1, IdleFacts DEF CallRecords
<1> QED
  BY <1>1, <1>2, <1>3 DEF c

LEMMA OperatorStartsStatic ==
  ASSUME Static, NEW k \in Keys, OperatorStarts(k)
  PROVE  Static'
<1> DEFINE c == Command("resolve", k, 0, None, "MANUAL")
           x == call'["beside"]
<1>1. /\ x \in CallRecords /\ Begin("beside", x)
      /\ x.kind = "operator" /\ x.stage = "commands" /\ x.plan = {}
      /\ x.now = c /\ c \in Commands
  BY OperatorStartsEffect
<1>2. c.do = "resolve" /\ c.mode = None /\ c.control = "MANUAL"
  BY CommandFacts
<1> HIDE DEF c
<1>3. CallInv("beside")'
  BY <1>1, <1>2 DEF CallInv, Busy, Now, Planned, StageOf, CycleStages,
     Deployable, NowFits, MayRun, OfFamily
<1> QED
  BY <1>1, <1>3, BeginStatic DEF Threads

LEMMA OperatorStopsEffect ==
  ASSUME Static, NEW ks \in SUBSET Keys, OperatorStops(ks)
  PROVE  LET x == call'["beside"]
         IN  /\ x \in CallRecords /\ Begin("beside", x)
             /\ x.kind = "operator" /\ x.stage = "commands"
             /\ x.now = NoCommand
             /\ \A c \in x.plan : /\ c.do = "stop_if_up" /\ c.mode = None
                                  /\ c.control = None /\ c.key \in Keys
<1> DEFINE plan == {Command("stop_if_up", k, 0, None, None) : k \in ks}
           x == [IdleCall EXCEPT !.kind = "operator", !.plan = plan]
<1>1. plan \in SUBSET Commands
  BY CommandTypes, ZeroId DEF CommandNames
<1>2. Begin("beside", x) /\ call'["beside"] = x
  BY BeginEffect DEF OperatorStops, Threads
<1>3. \A c \in plan : /\ c.do = "stop_if_up" /\ c.mode = None
                      /\ c.control = None /\ c.key \in Keys
  BY CommandFacts
<1> HIDE DEF plan
<1>4. /\ x \in CallRecords /\ x.kind = "operator" /\ x.stage = "commands"
      /\ x.plan = plan /\ x.now = NoCommand
  BY <1>1, PlanCall
<1> QED
  BY <1>2, <1>3, <1>4

LEMMA OperatorStopsStatic ==
  ASSUME Static, NEW ks \in SUBSET Keys, OperatorStops(ks)
  PROVE  Static'
<1> DEFINE x == call'["beside"]
<1>1. /\ x \in CallRecords /\ Begin("beside", x)
      /\ x.kind = "operator" /\ x.stage = "commands"
      /\ x.now = NoCommand
      /\ \A c \in x.plan : /\ c.do = "stop_if_up" /\ c.mode = None
                           /\ c.control = None /\ c.key \in Keys
  BY OperatorStopsEffect
<1>2. \A c \in call'["beside"].plan : PlanFits("beside", c)'
  BY <1>1, NoneAssumption DEF PlanFits, MayPlan, StageOf, OfFamily, CycleStages
<1>3. CallInv("beside")'
  BY <1>1, <1>2
     DEF CallInv, Busy, Now, Planned, StageOf, CycleStages, Deployable
<1> QED
  BY <1>1, <1>3, BeginStatic DEF Threads

LEMMA StartPassEffect ==
  ASSUME Static, StartPass
  PROVE  LET x == call'["beside"]
         IN  /\ x \in CallRecords /\ Begin("beside", x)
             /\ x.kind = "supervisor" /\ x.stage = "listing"
             /\ x.plan = {} /\ x.now = NoCommand
<1> DEFINE open == {k \in Keys : deals[k] = "open"}
           x == [IdleCall EXCEPT !.kind = "supervisor", !.stage = "listing",
                                 !.open = open]
<1>1. open \in SUBSET Keys
  OBVIOUS
<1>2. Begin("beside", x) /\ call'["beside"] = x
  BY BeginEffect DEF StartPass, Threads
<1> HIDE DEF open
<1>3. /\ x \in CallRecords /\ x.kind = "supervisor" /\ x.stage = "listing"
      /\ x.plan = {} /\ x.now = NoCommand
  BY <1>1, IdleFacts DEF CallRecords
<1> QED
  BY <1>2, <1>3

LEMMA StartPassStatic ==
  ASSUME Static, StartPass
  PROVE  Static'
<1> DEFINE x == call'["beside"]
<1>1. /\ x \in CallRecords /\ Begin("beside", x)
      /\ x.kind = "supervisor" /\ x.stage = "listing"
      /\ x.plan = {} /\ x.now = NoCommand
  BY StartPassEffect
<1>2. CallInv("beside")'
  BY <1>1 DEF CallInv, Busy, Now, Planned, StageOf, CycleStages, Deployable
<1> QED
  BY <1>1, <1>2, BeginStatic DEF Threads

LEMMA ObjectFacts ==
  ASSUME Static, NEW k \in Keys, NEW i \in Ids
  PROVE  objects[<<k, i>>] \in ObjectRecords
BY DEF Static, ObjectTypes

\* An intent that is written is one the model knows.
LEMMA IntentsKept ==
  ASSUME Static, NEW k \in Keys, NEW x \in TradedStates,
         intents' = [intents EXCEPT ![k] = x]
  PROVE  intents' \in [Keys -> IntentStates \cup {Absent}] /\ AllIntents'
<1>1. x \in IntentStates \cup {Absent}
  BY DEF TradedStates, ProvenanceStates, IntentStates, IntentTerminalStates,
         ActiveOwnershipStates
<1> QED
  BY <1>1 DEF Static, RiskTypes, AllIntents

LEMMA TradeSyncs ==
  ASSUME Static, NEW c \in Due("loop"), c.do = "trade",
         Then("loop", c, [c EXCEPT !.do = "sync"])
  PROVE  CallTypes' /\ AllCalls'
<1> DEFINE d == [c EXCEPT !.do = "sync"]
<1>1. c \in Commands /\ PlanFits("loop", c) /\ "loop" \in Threads
  BY StaticDue DEF Threads, NowFits, MayRun
<1>2. d \in Commands /\ d.do = "sync" /\ d.control = c.control
      /\ d.key = c.key
  BY <1>1 DEF Commands
<1>3. NowFits("loop", d)
  BY <1>1, <1>2, NoneAssumption
     DEF PlanFits, NowFits, MayPlan, MayRun, OfFamily
<1> QED
  BY <1>1, <1>2, <1>3, StaticThen

LEMMA EnterStatic ==
  ASSUME Static, NEW c \in Due("loop"), Enter(c)
  PROVE  Static'
<1>1. c \in Commands /\ c.key \in Keys /\ c.id \in Ids /\ c.do = "trade"
      /\ "loop" \in Threads
  BY StaticDue DEF Threads, Enter, Does, Commands
<1>2. CallTypes' /\ AllCalls'
  BY <1>1, TradeSyncs DEF Enter
<1>3. PICK filled \in {"PARTIALLY_FILLED", "POSITION_OPENED"} :
        /\ intents' = [intents EXCEPT ![c.key] = filled]
        /\ objects' = [objects EXCEPT ![<<c.key, c.id>>].holds = TRUE,
              ![<<c.key, c.id>>].mode = IF filled = "PARTIALLY_FILLED"
                                          THEN "EXITS_ONLY" ELSE @]
  BY DEF Enter
<1>4. RiskTypes' /\ AllIntents'
  <2>1. intents' \in [Keys -> IntentStates \cup {Absent}] /\ AllIntents'
    BY <1>1, <1>3, IntentsKept DEF TradedStates
  <2> QED
    BY <1>1, <2>1 DEF Enter, Static, RiskTypes
<1>5. ObjectTypes'
  <2>1. objects[<<c.key, c.id>>] \in ObjectRecords
    BY <1>1, ObjectFacts
  <2> QED
    BY <1>1, <1>3, <2>1 DEF Static, ObjectTypes, ObjectRecords, Modes
<1> QED
  BY <1>2, <1>4, <1>5, Kept DEF Static, Enter, policy

LEMMA ExitStatic ==
  ASSUME Static, NEW c \in Due("loop"), Exit(c)
  PROVE  Static'
<1>1. c \in Commands /\ c.key \in Keys /\ c.id \in Ids /\ c.do = "trade"
      /\ "loop" \in Threads
  BY StaticDue DEF Threads, Exit, Does, Commands
<1>2. CallTypes' /\ AllCalls'
  BY <1>1, TradeSyncs DEF Exit
<1>3. RiskTypes' /\ AllIntents'
  <2>1. intents' \in [Keys -> IntentStates \cup {Absent}] /\ AllIntents'
    BY <1>1, IntentsKept DEF TradedStates, Exit
  <2> QED
    BY <1>1, <2>1 DEF Exit, Static, RiskTypes
<1>4. ObjectTypes'
  <2>1. objects[<<c.key, c.id>>] \in ObjectRecords
    BY <1>1, ObjectFacts
  <2> QED
    BY <1>1, <2>1 DEF Exit, Static, ObjectTypes, ObjectRecords
<1> QED
  BY <1>2, <1>3, <1>4, Kept DEF Static, Exit, policy

LEMMA DeclineStatic ==
  ASSUME Static, NEW c \in Due("loop"), Decline(c)
  PROVE  Static'
<1>1. CallTypes' /\ AllCalls'
  BY StaticDone DEF Decline, Threads
<1> QED
  BY <1>1, Kept DEF Static, Decline, policy, memory, risk

LEMMA ListEffect ==
  ASSUME Static, ListPass
  PROVE  LET x == call'["beside"]
         IN  /\ x \in CallRecords /\ SetCall("beside", x)
             /\ x.kind = "supervisor" /\ x.stage = "commands"
             /\ x.now = NoCommand
             /\ \A c \in x.plan :
                  /\ c \in Commands /\ c.do \in {"attach", "close"}
                  /\ c.mode = None /\ c.control = None
<1> DEFINE remote == call["beside"].open
           missing == {k \in Keys : positions[k] = "open"} \ remote
           plan == {Command("attach", k, 0, None, None) : k \in remote}
                   \cup {Command("close", k, 0, None, None) : k \in missing}
           x == [call["beside"] EXCEPT !.stage = "commands", !.plan = plan]
<1>1. call["beside"] \in CallRecords /\ CallInv("beside")
  BY CallFacts DEF Threads
<1>2. call["beside"].kind = "supervisor" /\ Planned("beside")
  BY <1>1 DEF ListPass, CallInv
<1>3. remote \in SUBSET Keys /\ missing \in SUBSET Keys
  BY <1>1 DEF CallRecords
<1>4. \A c \in plan : /\ c \in Commands /\ c.do \in {"attach", "close"}
                      /\ c.mode = None /\ c.control = None
  BY <1>3, CommandFacts, CommandTypes, ZeroId DEF CommandNames
<1>5. SetCall("beside", x)
  BY DEF ListPass
<1>6. call'["beside"] = x
  BY <1>5, SetCallEffect DEF Static, Threads
<1> HIDE DEF plan
<1>7. /\ x \in CallRecords /\ x.kind = "supervisor" /\ x.stage = "commands"
      /\ x.now = NoCommand /\ x.plan = plan
  BY <1>1, <1>2, <1>4 DEF CallRecords, Planned, Now
<1> QED
  BY <1>4, <1>5, <1>6, <1>7

LEMMA ListStatic ==
  ASSUME Static, ListPass
  PROVE  Static'
<1> DEFINE x == call'["beside"]
<1>1. /\ x \in CallRecords /\ SetCall("beside", x)
      /\ x.kind = "supervisor" /\ x.stage = "commands"
      /\ x.now = NoCommand
      /\ \A c \in x.plan : /\ c \in Commands /\ c.do \in {"attach", "close"}
                           /\ c.mode = None /\ c.control = None
  BY ListEffect
<1>2. \A c \in call'["beside"].plan : PlanFits("beside", c)'
  BY <1>1 DEF PlanFits, MayPlan, StageOf, OfFamily, CycleStages
<1>3. CallInv("beside")'
  BY <1>1, <1>2
     DEF CallInv, Busy, Now, Planned, StageOf, CycleStages, Deployable
<1>4. CallTypes' /\ AllCalls'
  BY <1>1, <1>3, NewCall DEF Threads
<1> QED
  BY <1>4, Kept DEF Static, ListPass, policy, memory, risk

LEMMA AdoptedFacts ==
  ASSUME NEW s
  PROVE  AdoptedState(s) \in TradedStates
BY DEF AdoptedState, TradedStates, ProvenanceStates

\* The next command of a command of the supervisor.
LEMMA SuperviseThen ==
  ASSUME Static, NEW c \in Due("beside"), c.do \in {"attach", "close", "force"},
         NEW do \in {"sync", "force", "detach"}, NEW i \in Ids,
         Then("beside", c, [c EXCEPT !.do = do, !.id = i])
  PROVE  CallTypes' /\ AllCalls'
<1> DEFINE d == [c EXCEPT !.do = do, !.id = i]
<1>1. c \in Commands /\ "beside" \in Threads
  BY StaticDue DEF Threads
<1>2. d \in Commands /\ d.do = do /\ d.control = c.control /\ d.key = c.key
  BY <1>1 DEF Commands
<1>3. StageOf("beside") = "supervisor" /\ c.control \notin {"AUTO", "MANUAL"}
  BY <1>1, StaticDue, NoneAssumption
     DEF PlanFits, NowFits, MayPlan, MayRun, Deployable
<1>4. NowFits("beside", d)
  BY <1>2, <1>3 DEF NowFits, MayRun, OfFamily, CycleStages
<1> HIDE DEF d
<1> QED
  BY <1>1, <1>2, <1>4, StaticThen DEF d

LEMMA AttachStatic ==
  ASSUME Static, NEW c \in Due("beside"), Attach(c)
  PROVE  Static'
<1>1. c \in Commands /\ c.key \in Keys /\ c.do = "attach"
      /\ "beside" \in Threads
  BY StaticDue DEF Threads, Attach, Does
<1>2. positions' \in [Keys -> {Absent, "open", "closed"}] /\ UNCHANGED deals
  BY <1>1 DEF Attach, Static, RiskTypes
<1>3. CASE ~MayAdopt(c.key)
  <2>1. Raise("beside") /\ UNCHANGED <<intents, objects>>
    BY <1>3 DEF Attach
  <2>2. CallTypes' /\ AllCalls' /\ ProcessTypes'
    BY <1>1, <2>1, StaticRaise DEF Attach
  <2>3. RiskTypes' /\ AllIntents'
    BY <1>2, <2>1 DEF Static, RiskTypes, AllIntents
  <2> QED
    BY <2>1, <2>2, <2>3, Kept DEF Static, Attach, policy
<1>4. CASE MayAdopt(c.key)
  <2>1. intents' = [intents EXCEPT ![c.key] = AdoptedState(intents[c.key])]
        /\ NoRaise
    BY <1>4, <1>1 DEF Attach
  <2>2. RiskTypes' /\ AllIntents'
    <3>1. intents' \in [Keys -> IntentStates \cup {Absent}] /\ AllIntents'
      BY <1>1, <2>1, AdoptedFacts, IntentsKept
    <3> QED
      BY <1>2, <3>1 DEF Static, RiskTypes
  <2>3. CallTypes' /\ AllCalls' /\ ObjectTypes'
    <3>1. CASE Up(c.key)
      <4> DEFINE o == [objects[<<c.key, engines[c.key]>>] EXCEPT !.holds = TRUE]
      <4>1. engines[c.key] \in Ids
        BY <1>1 DEF Static, EngineTypes
      <4>a. objects' = [objects EXCEPT ![<<c.key, engines[c.key]>>].holds = TRUE]
            /\ Then("beside", c, [c EXCEPT !.do = "sync", !.id = engines[c.key]])
        BY <1>4, <3>1 DEF Attach, Registered
      <4>2. objects' = [objects EXCEPT ![<<c.key, engines[c.key]>>] = o]
        BY <4>a
      <4>b. objects[<<c.key, engines[c.key]>>] \in ObjectRecords
        BY <1>1, <4>1, ObjectFacts
      <4>3. o \in ObjectRecords
        BY <4>b DEF ObjectRecords
      <4> HIDE DEF o
      <4>4. ObjectTypes'
        BY <1>1, <4>1, <4>2, <4>3, ObjectTypesKept
      <4> QED
        BY <1>1, <4>1, <4>4, <4>a, SuperviseThen
    <3>2. CASE ~Up(c.key)
      <4>1. UNCHANGED objects /\ Done("beside", c)
        BY <1>4, <3>2 DEF Attach
      <4> QED
        BY <1>1, <4>1, StaticDone, Kept
    <3> QED
      BY <3>1, <3>2
  <2> QED
    BY <2>1, <2>2, <2>3, Kept DEF Static, Attach, policy, NoRaise
<1> QED
  BY <1>3, <1>4

LEMMA SupervisorId ==
  ASSUME Static, NEW c \in Due("beside"), NEW do
  PROVE  /\ c.id \in Ids
         /\ [c EXCEPT !.do = do] = [c EXCEPT !.do = do, !.id = c.id]
<1>1. c \in Commands
  BY StaticDue DEF Threads
<1> QED
  BY <1>1 DEF Commands

LEMMA CloseMissingStatic ==
  ASSUME Static, NEW c \in Due("beside"), CloseMissing(c)
  PROVE  Static'
<1>1. c.key \in Keys /\ c.do = "close"
  BY StaticDue DEF Threads, CloseMissing, Does
<1>2. CallTypes' /\ AllCalls'
  <2>1. Then("beside", c, [c EXCEPT !.do = "force", !.id = c.id])
    BY SupervisorId DEF CloseMissing
  <2> QED
    BY <1>1, <2>1, SupervisorId, SuperviseThen
<1>3. RiskTypes' /\ AllIntents'
  BY <1>1 DEF CloseMissing, Static, RiskTypes, AllIntents
<1> QED
  BY <1>2, <1>3, Kept DEF Static, CloseMissing, policy, memory

LEMMA ForceIntentStatic ==
  ASSUME Static, NEW c \in Due("beside"), ForceIntent(c)
  PROVE  Static'
<1>1. c.key \in Keys /\ c.do = "force"
  BY StaticDue DEF Threads, ForceIntent, Does
<1>2. CASE Raise("beside") /\ UNCHANGED intents
  <2>1. CallTypes' /\ AllCalls' /\ ProcessTypes'
    BY <1>2, StaticRaise DEF ForceIntent, Threads
  <2> QED
    BY <1>2, <2>1, Kept DEF Static, ForceIntent, policy, memory, risk
<1>3. CASE /\ intents' = [intents EXCEPT ![c.key] = "FORCED_RECONCILIATION_CLOSE"]
           /\ Then("beside", c, [c EXCEPT !.do = "detach"])
           /\ NoRaise
  <2>1. CallTypes' /\ AllCalls'
    <3>1. Then("beside", c, [c EXCEPT !.do = "detach", !.id = c.id])
      BY <1>3, SupervisorId
    <3> QED
      BY <1>1, <3>1, SupervisorId, SuperviseThen
  <2>2. RiskTypes' /\ AllIntents'
    <3>1. intents' \in [Keys -> IntentStates \cup {Absent}] /\ AllIntents'
      BY <1>1, <1>3, IntentsKept DEF TradedStates
    <3> QED
      BY <3>1 DEF ForceIntent, Static, RiskTypes
  <2> QED
    BY <1>3, <2>1, <2>2, Kept DEF Static, ForceIntent, policy, memory, NoRaise
<1> QED
  BY <1>2, <1>3 DEF ForceIntent

LEMMA RowFacts ==
  ASSUME Static, NEW k \in Keys
  PROVE  rows[k] \in RowRecords /\ RowInv(k)
BY DEF Static, RowTypes, AllRows

LEMMA DetachStatic ==
  ASSUME Static, NEW c \in Due("beside"), Detach(c)
  PROVE  Static'
<1>1. c.key \in Keys
  BY StaticDue DEF Threads
<1>2. CallTypes' /\ AllCalls'
  BY StaticDone DEF Detach, Threads
<1>3. RowTypes' /\ AllRows' /\ ObjectTypes'
  <2>1. CASE Up(c.key) /\ objects[Registered(c.key)].holds
    <3> DEFINE o == [objects[<<c.key, engines[c.key]>>] EXCEPT !.holds = FALSE]
               r == [rows[c.key] EXCEPT !.linked = FALSE, !.recovery = "RUNNING"]
    <3>1. engines[c.key] \in Ids
      BY <1>1 DEF Static, EngineTypes
    <3>2. objects' = [objects EXCEPT ![<<c.key, engines[c.key]>>] = o]
      BY <2>1 DEF Detach, Registered
    <3>3. o \in ObjectRecords
      BY <1>1, <3>1, ObjectFacts DEF ObjectRecords
    <3>4. rows' = [rows EXCEPT ![c.key] = r]
      BY <1>1, <2>1 DEF Detach, Static, RowTypes
    <3>5. r \in RowRecords /\ (r.status = "RUNNING" => r.id # 0)
          /\ (r.status = "STOPPED" => r.mode = "STOPPED")
      BY <1>1, RowFacts DEF RowRecords, RowInv
    <3> HIDE DEF o, r
    <3> QED
      BY <1>1, <3>1, <3>2, <3>3, <3>4, <3>5, ObjectTypesKept, RowsKept
  <2>2. CASE ~(Up(c.key) /\ objects[Registered(c.key)].holds)
    BY <2>2, Kept DEF Detach
  <2> QED
    BY <2>1, <2>2
<1> QED
  BY <1>2, <1>3, Kept DEF Static, Detach, policy, risk

LEMMA EmptyMemory ==
  ASSUME engines' = [k \in Keys |-> 0],
         objects' = [o \in Keys \X Ids |-> NoObject]
  PROVE  EngineTypes' /\ ObjectTypes'
BY ZeroId, NoObjectFacts DEF EngineTypes, ObjectTypes

LEMMA CrashStatic ==
  ASSUME Static, Crash
  PROVE  Static'
<1>1. CallTypes' /\ AllCalls'
  <2>1. call' \in [Threads -> CallRecords] /\ \A t \in Threads : call'[t] = IdleCall
    BY IdleFacts DEF Crash
  <2> QED
    BY <2>1, IdleFacts
       DEF CallTypes, AllCalls, CallInv, Busy, Planned, Now, StageOf, Deployable
<1>2. ProcessTypes'
  BY BoundAssumption DEF Crash, Static, ProcessTypes
<1> QED
  BY <1>1, <1>2, EmptyMemory, Kept DEF Static, Crash, policy, risk

LEMMA RestartStatic ==
  ASSUME Static, Restart
  PROVE  Static'
<1>1. ProcessTypes'
  <2>1. PICK error \in BOOLEAN :
          recovery' = [todo |-> {k \in Keys : rows[k].status = "RUNNING"},
                       remote |-> IF error THEN {}
                                  ELSE {k \in Keys : deals[k] = "open"},
                       error |-> error]
    BY DEF Restart
  <2>2. recovery' \in [todo : SUBSET Keys, remote : SUBSET Keys,
                       error : BOOLEAN]
    BY <2>1
  <2> QED
    BY <2>2 DEF Restart, Static, ProcessTypes
<1> QED
  BY <1>1, EmptyMemory, Kept DEF Static, Restart, policy, risk

LEMMA RequireRecoveryStatic ==
  ASSUME Static, NEW k \in Keys, RequireRecovery(k)
  PROVE  Static'
<1> DEFINE r == [rows[k] EXCEPT !.recovery = "RECOVERY_REQUIRED"]
<1>1. rows' = [rows EXCEPT ![k] = r]
  BY DEF RequireRecovery, Static, RowTypes
<1>2. r \in RowRecords /\ (r.status = "RUNNING" => r.id # 0)
      /\ (r.status = "STOPPED" => r.mode = "STOPPED")
  BY RowFacts DEF RowRecords, RowInv
<1> HIDE DEF r
<1>3. RowTypes' /\ AllRows'
  BY <1>1, <1>2, RowsKept
<1>4. ProcessTypes'
  BY DEF RequireRecovery, Recovered, Static, ProcessTypes
<1> QED
  BY <1>3, <1>4, Kept DEF Static, RequireRecovery, policy, memory, risk

LEMMA RecoverPositionStatic ==
  ASSUME Static, NEW k \in Keys, RecoverPosition(k)
  PROVE  Static'
<1>1. RiskTypes' /\ AllIntents'
  <2>1. positions' \in [Keys -> {Absent, "open", "closed"}] /\ deals' = deals
    BY DEF RecoverPosition, Static, RiskTypes
  <2>2. intents' \in [Keys -> IntentStates \cup {Absent}] /\ AllIntents'
    <3>1. \/ intents' = intents
          \/ intents' = [intents EXCEPT ![k] = "RECOVERED_POSITION_ATTACHED"]
      BY DEF RecoverPosition
    <3> QED
      BY <3>1, IntentsKept DEF TradedStates, ProvenanceStates, Static,
         RiskTypes, AllIntents
  <2> QED
    BY <2>1, <2>2 DEF Static, RiskTypes
<1>2. ProcessTypes'
  BY DEF RecoverPosition, Static, ProcessTypes
<1> QED
  BY <1>1, <1>2, Kept DEF Static, RecoverPosition, policy, memory

LEMMA ResumeStatic ==
  ASSUME Static, NEW k \in Keys, Resume(k)
  PROVE  Static'
<1>0. rows[k] \in RowRecords /\ RowInv(k) /\ rows[k].id \in Ids
  BY RowFacts DEF RowRecords
<1>1. RowTypes' /\ AllRows' /\ EngineTypes' /\ ObjectTypes'
  <2>1. CASE rows[k].mode = "STOPPED"
    <3>1. rows' = [rows EXCEPT ![k] = StoppedRow(rows[k])] /\ UNCHANGED memory
      BY <2>1 DEF Resume, Static, RowTypes
    <3> QED
      BY <1>0, <3>1, StoppedRowFacts, RowsKept, Kept DEF memory
  <2>2. CASE rows[k].mode # "STOPPED"
    <3> DEFINE r == [rows[k] EXCEPT !.recovery = "RUNNING",
                                    !.linked = positions[k] = "open"]
               o == [mode |-> ResumedMode(k), profile |-> rows[k].profile,
                     holds |-> positions[k] = "open"]
    <3>1. rows' = [rows EXCEPT ![k] = r]
          /\ engines' = [engines EXCEPT ![k] = rows[k].id]
          /\ objects' = [objects EXCEPT ![<<k, rows[k].id>>] = o]
      BY <2>2 DEF Resume, Static, RowTypes
    <3>2. r \in RowRecords /\ (r.status = "RUNNING" => r.id # 0)
          /\ (r.status = "STOPPED" => r.mode = "STOPPED")
      BY <1>0 DEF RowRecords, RowInv
    <3>3. o \in ObjectRecords
      BY <1>0 DEF ObjectRecords, RowRecords, ResumedMode
    <3> HIDE DEF r, o
    <3>4. EngineTypes'
      BY <1>0, <3>1 DEF Static, EngineTypes
    <3> QED
      BY <1>0, <3>1, <3>2, <3>3, <3>4, RowsKept, ObjectTypesKept
  <2> QED
    BY <2>1, <2>2
<1>2. ProcessTypes'
  BY DEF Resume, Recovered, Static, ProcessTypes
<1> QED
  BY <1>1, <1>2, Kept DEF Static, Resume, policy, risk

LEMMA FinishRecoveryStatic ==
  ASSUME Static, FinishRecovery
  PROVE  Static'
<1>1. ProcessTypes'
  BY DEF FinishRecovery, Static, ProcessTypes
<1> QED
  BY <1>1, Kept DEF Static, FinishRecovery, policy, memory, risk

LEMMA EditStatic ==
  ASSUME Static, NEW f \in Families, Govern(f) \/ SelectProfile(f)
  PROVE  Static'
<1>1. PolicyTypes'
  BY DecisionAssumption DEF Govern, SelectProfile, Edit, Static, PolicyTypes
<1>2. ProcessTypes'
  BY BoundAssumption DEF Govern, SelectProfile, Edit, Static, ProcessTypes
<1> QED
  BY <1>1, <1>2, Kept DEF Static, Govern, SelectProfile, Edit, memory, risk

LEMMA BrokerClosesStatic ==
  ASSUME Static, NEW k \in Keys, BrokerCloses(k)
  PROVE  Static'
<1>1. RiskTypes' /\ AllIntents'
  BY DEF BrokerCloses, Static, RiskTypes, AllIntents
<1> QED
  BY <1>1, Kept DEF Static, BrokerCloses, policy, memory

LEMMA StaticInit == Init => Static
<1> SUFFICES ASSUME Init PROVE Static
  OBVIOUS
<1>1. PolicyTypes
  BY DecisionAssumption, ProfileAssumption, FamilyFacts
     DEF Init, PolicyTypes, Governance, DeploymentStates, RiskStates
<1>2. RowTypes /\ AllRows
  BY ProfileAssumption, ZeroId
     DEF Init, NoRow, RowTypes, RowRecords, Modes, AllRows, RowInv
<1>3. EngineTypes /\ ObjectTypes
  BY ZeroId, NoObjectFacts DEF Init, EngineTypes, ObjectTypes
<1>4. RiskTypes /\ AllIntents
  BY DEF Init, RiskTypes, AllIntents, TradedStates
<1>5. CallTypes /\ AllCalls
  <2>1. call \in [Threads -> CallRecords] /\ \A t \in Threads : call[t] = IdleCall
    BY IdleFacts DEF Init
  <2> QED
    BY <2>1, IdleFacts
       DEF CallTypes, AllCalls, CallInv, Busy, Planned, Now, StageOf, Deployable
<1>6. ProcessTypes
  <2>1. 0 \in 0 .. MaxCrashes /\ 0 \in 0 .. MaxCalls
    BY BoundAssumption
  <2> QED
    BY <2>1, FamilyFacts DEF Init, ProcessTypes
<1> QED
  BY <1>1, <1>2, <1>3, <1>4, <1>5, <1>6 DEF Static

LEMMA StaticStutters ==
  ASSUME Static, UNCHANGED vars
  PROVE  Static'
BY Kept DEF Static, vars, policy, memory, risk

LEMMA StopSets ==
  ASSUME NEW k \in Keys,
         NEW ks \in {{k}, {j \in Keys : j[1] = k[1]}, {j \in Keys : j[2] = k[2]}}
  PROVE  ks \in SUBSET Keys
OBVIOUS

LEMMA StaticStep ==
  ASSUME Static, [Next]_vars
  PROVE  Static'
<1>1. CASE UNCHANGED vars
  BY <1>1, StaticStutters
<1>2. CASE \E t \in Threads : Plan(t)
  BY <1>2, EvaluateStatic, EnsureStatic, ConfirmStatic, AssessStatic,
     SettleStatic DEF Plan
<1>3. CASE \E t \in Threads : Execute(t)
  <2> SUFFICES ASSUME NEW t \in Threads, Execute(t) PROVE Static'
    BY <1>3
  <2>1. CASE Finish(t)
    BY <2>1, FinishStatic
  <2>2. ASSUME NEW c \in Due(t),
               \/ Resolve(t, c) \/ Start(t, c) \/ SetMode(t, c)
               \/ Stop(t, c) \/ Mark(t, c) \/ Sync(t, c) \/ Write(t, c)
        PROVE  Static'
    BY <2>2, ResolveStatic, StartStatic, SetModeStatic, StopStatic, MarkStatic,
       SyncStatic, WriteStatic
  <2> QED
    BY <2>1, <2>2 DEF Execute
<1>4. CASE Trade
  BY <1>4, EnterStatic, ExitStatic, DeclineStatic DEF Trade
<1>5. CASE Supervise
  BY <1>5, ListStatic, AttachStatic, CloseMissingStatic, ForceIntentStatic,
     DetachStatic DEF Supervise
<1>6. CASE Call
  BY <1>6, StartCycleStatic, StartPriceStatic, StartPassStatic,
     OperatorStartsStatic, OperatorStopsStatic, StopSets DEF Call
<1>7. CASE Recover
  BY <1>7, RestartStatic, FinishRecoveryStatic, RequireRecoveryStatic,
     RecoverPositionStatic, ResumeStatic DEF Recover
<1>8. CASE Environment
  BY <1>8, CrashStatic, EditStatic, BrokerClosesStatic DEF Environment
<1> QED
  BY <1>1, <1>2, <1>3, <1>4, <1>5, <1>6, <1>7, <1>8 DEF Next, Work

\* Every variable has its type (TypeOK): a call is only ever about to do what
\* its stage may do, with a mode and a runtime id where one is written.
THEOREM TypeCorrect == Spec => []TypeOK
<1>1. Static => TypeOK
  BY TypeParts DEF Static
<1> QED
  BY <1>1, StaticInit, StaticStep, PTL DEF Spec

-----------------------------------------------------------------------------
(* A restart takes the rows that ran one by one.                           *)

\* What no call changes, and that it is one that changes it.
LEMMA WorkFrame ==
  ASSUME Static, NEW t \in Threads, Work(t)
  PROVE  /\ UNCHANGED <<phase, recovery, overlapped>>
         /\ Busy(t)
<1>1. CASE Plan(t)
  BY <1>1 DEF Plan, Evaluate, Ensure, Confirm, Assess, Settle, Conclude,
     InCycle, Busy
<1>2. CASE Execute(t)
  <2>1. CASE Finish(t)
    BY <2>1 DEF Finish, Busy
  <2>2. ASSUME NEW c \in Due(t),
               \/ Resolve(t, c) \/ Start(t, c) \/ SetMode(t, c)
               \/ Stop(t, c) \/ Mark(t, c) \/ Sync(t, c) \/ Write(t, c)
        PROVE  UNCHANGED <<phase, recovery, overlapped>> /\ Busy(t)
    BY <2>2, StaticDue DEF Resolve, Start, SetMode, Stop, Mark, Sync, Write
  <2> QED
    BY <1>2, <2>1, <2>2 DEF Execute
<1>3. CASE t = "loop" /\ Trade
  BY <1>3, StaticDue DEF Trade, Enter, Exit, Decline
<1>4. CASE t = "beside" /\ Supervise
  <2>1. CASE ListPass
    BY <1>4, <2>1, CallFacts DEF ListPass, CallInv, Busy
  <2>2. CASE \E c \in Due("beside") :
               Attach(c) \/ CloseMissing(c) \/ ForceIntent(c) \/ Detach(c)
    BY <1>4, <2>2, StaticDue DEF Attach, CloseMissing, ForceIntent, Detach
  <2> QED
    BY <1>4, <2>1, <2>2 DEF Supervise
<1> QED
  BY <1>1, <1>2, <1>3, <1>4 DEF Work

LEMMA WorkKeepsRecovery ==
  ASSUME Static, RecoveryInv, NEW t \in Threads, Work(t)
  PROVE  phase = "up" /\ phase' = "up" /\ RecoveryInv'
BY WorkFrame DEF RecoveryInv

LEMMA CallFrame ==
  ASSUME Call
  PROVE  /\ phase' = "up" /\ Running
         /\ UNCHANGED <<policy, deployment, rows, memory, risk, abortedAt>>
         /\ \E t \in Threads : \E x : Begin(t, x)
<1>1. \E t \in Threads : \E x : Begin(t, x)
  <2>1. "loop" \in Threads /\ "beside" \in Threads
    BY DEF Threads
  <2>2. ASSUME NEW t, StartCycle(t)
        PROVE  \E x : Begin(t, x)
    BY <2>2, Zenon DEF StartCycle
  <2>3. ASSUME NEW i, StartPrice(i)
        PROVE  \E x : Begin("loop", x)
    <3> DEFINE x == [IdleCall EXCEPT !.kind = "price",
                       !.plan = {Command(do, k, engines[k], None, None) :
                                   do \in {"sync", "trade"}, k \in UpKeys(i)}]
    <3>1. Begin("loop", x)
      BY <2>3 DEF StartPrice
    <3> HIDE DEF x
    <3> QED
      BY <3>1
  <2>4. CASE StartPass
    BY <2>1, <2>4, Zenon DEF StartPass
  <2>5. ASSUME NEW k, OperatorStarts(k)
        PROVE  \E x : Begin("beside", x)
    BY <2>5, Zenon DEF OperatorStarts
  <2>6. ASSUME NEW ks, OperatorStops(ks)
        PROVE  \E x : Begin("beside", x)
    BY <2>6, Zenon DEF OperatorStops
  <2> QED
    BY <2>1, <2>2, <2>3, <2>4, <2>5, <2>6, Zenon DEF Call
<1> QED
  BY <1>1 DEF Begin, policy, memory, risk

LEMMA RestoredKept ==
  ASSUME NEW k, rows'[k] = rows[k], engines'[k] = engines[k],
         objects'[<<k, engines[k]>>] = objects[<<k, engines[k]>>],
         positions'[k] = positions[k]
  PROVE  Restored(k)' = Restored(k) /\ Up(k)' = Up(k)
BY DEF Restored, Matches, Up, Registered

LEMMA ResumeRestores ==
  ASSUME Static, RecoveryInv, NEW k \in Keys, Resume(k)
  PROVE  /\ Restored(k)'
         /\ \A j \in Keys : j # k =>
              Restored(j)' = Restored(j) /\ Up(j)' = Up(j) /\ rows'[j] = rows[j]
<1>1. rows[k] \in RowRecords /\ RowInv(k)
  BY RowFacts
<1>2. rows[k].status = "RUNNING" /\ ~Up(k)
  BY DEF Resume, Recovering, RecoveryInv
<1>3. rows[k].id # 0 /\ rows[k].id \in Ids
  BY <1>1, <1>2 DEF RowInv, RowRecords
<1>4. CASE rows[k].mode = "STOPPED"
  <2>1. rows' = [rows EXCEPT ![k] = StoppedRow(rows[k])] /\ UNCHANGED memory
        /\ positions' = positions
    BY <1>4 DEF Resume, Static, RowTypes, risk
  <2>2. rows'[k].status = "STOPPED" /\ ~Up(k)'
    BY <1>1, <1>2, <2>1, StoppedRowFacts DEF Static, RowTypes, Up, memory
  <2>3. Restored(k)'
    BY <2>2 DEF Restored, Matches
  <2>4. \A j \in Keys : j # k => rows'[j] = rows[j]
    BY <2>1 DEF Static, RowTypes
  <2> QED
    BY <2>1, <2>3, <2>4, RestoredKept DEF memory
<1>5. CASE rows[k].mode # "STOPPED"
  <2> DEFINE i == rows[k].id
             o == [mode |-> rows[k].mode, profile |-> rows[k].profile,
                   holds |-> positions[k] = "open"]
  <2>1. /\ engines' = [engines EXCEPT ![k] = i]
        /\ objects' = [objects EXCEPT ![<<k, i>>] = o]
        /\ rows' = [rows EXCEPT ![k].recovery = "RUNNING",
                                ![k].linked = positions[k] = "open"]
        /\ positions' = positions
    BY <1>5 DEF Resume, ResumedMode, risk
  <2>2. engines'[k] = i /\ objects'[<<k, i>>] = o
    BY <1>3, <2>1 DEF Static, EngineTypes, ObjectTypes
  <2>3. /\ rows'[k].recovery = "RUNNING"
        /\ rows'[k].linked = (positions[k] = "open")
        /\ rows'[k].status = "RUNNING" /\ rows'[k].id = i
        /\ rows'[k].mode = rows[k].mode
    BY <1>1, <1>2, <2>1 DEF Static, RowTypes, RowRecords
  <2>a. objects'[<<k, i>>].mode = rows[k].mode
        /\ objects'[<<k, i>>].holds = (positions[k] = "open")
    BY <2>2
  <2>b. Up(k)' /\ Registered(k)' = <<k, i>>
    BY <1>3, <2>2 DEF Up, Registered
  <2>4. Restored(k)'
    BY <1>5, <2>1, <2>2, <2>3, <2>a, <2>b DEF Restored, Matches
  <2>5. \A j \in Keys : j # k =>
          /\ rows'[j] = rows[j] /\ engines'[j] = engines[j]
          /\ \A n \in Ids : objects'[<<j, n>>] = objects[<<j, n>>]
    BY <2>1 DEF Static, RowTypes, EngineTypes, ObjectTypes
  <2>6. \A j \in Keys : engines[j] \in Ids
    BY DEF Static, EngineTypes
  <2>7. \A j \in Keys : j # k => Restored(j)' = Restored(j) /\ Up(j)' = Up(j)
    BY <2>1, <2>5, <2>6, RestoredKept
  <2> QED
    BY <2>4, <2>5, <2>7
<1> QED
  BY <1>4, <1>5

LEMMA RecoverKeepsRecovery ==
  ASSUME Static, RecoveryInv, Recover
  PROVE  RecoveryInv'
<1>0. \A t \in Threads : ~Busy(t)
  BY DEF Recover, Restart, FinishRecovery, RequireRecovery, RecoverPosition,
         Resume, Recovering, RecoveryInv
<1>1. call' = call
  BY DEF Recover, Restart, FinishRecovery, RequireRecovery, RecoverPosition, Resume
<1>2. \A t \in Threads : ~Busy(t)'
  BY <1>0, <1>1 DEF Busy
<1>3. CASE Restart
  <2>1. phase' = "recovering" /\ rows' = rows
        /\ recovery'.todo = {k \in Keys : rows[k].status = "RUNNING"}
        /\ \A k \in Keys : ~Up(k)'
    BY <1>3 DEF Restart, Up
  <2>2. \A k \in Keys : rows[k].status \in {"RUNNING", "STOPPED"}
    BY RowFacts DEF RowRecords
  <2> QED
    BY <1>2, <2>1, <2>2 DEF RecoveryInv, Restored, Matches
<1>4. CASE FinishRecovery
  <2>1. UNCHANGED <<rows, engines, objects, positions>>
    BY <1>4 DEF FinishRecovery, memory, risk
  <2>2. \A k \in Keys : Restored(k)
    BY <1>4 DEF FinishRecovery, RecoveryInv
  <2>3. \A k \in Keys : Restored(k)'
    BY <2>1, <2>2, RestoredKept
  <2> QED
    BY <1>2, <1>4, <2>3 DEF FinishRecovery, RecoveryInv
<1>5. ASSUME NEW k \in Keys, RequireRecovery(k)
      PROVE  RecoveryInv'
  <2>1. UNCHANGED <<engines, objects, positions, phase>>
        /\ phase = "recovering" /\ k \in recovery.todo /\ ~Up(k)
    BY <1>5 DEF RequireRecovery, Recovering, RecoveryInv, memory, risk
  <2>2. recovery'.todo = recovery.todo \ {k}
    BY <1>5 DEF RequireRecovery, Recovered, Static, ProcessTypes
  <2>3. rows'[k].recovery = "RECOVERY_REQUIRED"
        /\ \A j \in Keys : j # k => rows'[j] = rows[j]
    BY <1>5, RowFacts DEF RequireRecovery, Static, RowTypes, RowRecords
  <2>4. Restored(k)'
    BY <2>1, <2>3 DEF Restored, Matches, Up
  <2>5. \A j \in Keys : j # k => Restored(j)' = Restored(j) /\ Up(j)' = Up(j)
    BY <2>1, <2>3, RestoredKept
  <2> QED
    BY <1>2, <2>1, <2>2, <2>3, <2>4, <2>5 DEF RecoveryInv
<1>6. ASSUME NEW k \in Keys, RecoverPosition(k)
      PROVE  RecoveryInv'
  <2>1. UNCHANGED <<engines, objects, rows, recovery>>
        /\ phase = "recovering" /\ k \in recovery.todo
        /\ phase' \in {"recovering", "failed"}
    BY <1>6 DEF RecoverPosition, Recovering, memory
  <2>2. \A j \in Keys : j # k => positions'[j] = positions[j]
    BY <1>6 DEF RecoverPosition, Static, RiskTypes
  <2>3. \A j \in Keys : j # k => Restored(j)' = Restored(j)
    BY <2>1, <2>2, RestoredKept
  <2>4. \A j \in Keys : Up(j)' = Up(j)
    BY <2>1 DEF Up
  <2> QED
    BY <1>2, <2>1, <2>3, <2>4 DEF RecoveryInv
<1>7. ASSUME NEW k \in Keys, Resume(k)
      PROVE  RecoveryInv'
  <2>1. phase = "recovering" /\ phase' = phase
    BY <1>7 DEF Resume, Recovering
  <2>2. recovery'.todo = recovery.todo \ {k}
    BY <1>7 DEF Resume, Recovered, Static, ProcessTypes
  <2> QED
    BY <1>2, <1>7, <2>1, <2>2, ResumeRestores DEF RecoveryInv
<1> QED
  BY <1>3, <1>4, <1>5, <1>6, <1>7 DEF Recover

LEMMA RecoveryStep ==
  ASSUME Static, RecoveryInv, [Next]_vars
  PROVE  RecoveryInv'
<1>1. CASE UNCHANGED vars
  BY <1>1, RestoredKept DEF vars, memory, risk, RecoveryInv, Up, Busy
<1>2. CASE \E t \in Threads : Work(t)
  BY <1>2, WorkKeepsRecovery
<1>3. CASE Call
  BY <1>3, CallFrame DEF RecoveryInv
<1>4. CASE Recover
  BY <1>4, RecoverKeepsRecovery
<1>5. CASE Environment
  <2>1. CASE Crash
    <3>1. \A t \in Threads : ~Busy(t)'
      BY <2>1, IdleFacts DEF Crash, Busy
    <3> QED
      BY <2>1, <3>1 DEF Crash, RecoveryInv
  <2>2. CASE ~Crash
    <3>1. UNCHANGED <<rows, engines, objects, positions, phase, recovery, call>>
      BY <1>5, <2>2
         DEF Environment, Govern, SelectProfile, Edit, BrokerCloses, memory, risk
    <3> QED
      BY <3>1, RestoredKept DEF RecoveryInv, Up, Busy
  <2> QED
    BY <2>1, <2>2
<1> QED
  BY <1>1, <1>2, <1>3, <1>4, <1>5 DEF Next

LEMMA RecoveryInit == Init => RecoveryInv
BY IdleFacts DEF Init, RecoveryInv

\* Whatever the threads do, a start goes over the rows of a process in which no
\* call is under way, and what it has gone over is restored.
THEOREM RecoveryInvariant == Spec => [](Static /\ RecoveryInv)
<1>1. Init => Static /\ RecoveryInv
  BY StaticInit, RecoveryInit
<1>2. Static /\ RecoveryInv /\ [Next]_vars => (Static /\ RecoveryInv)'
  BY StaticStep, RecoveryStep
<1> QED
  BY <1>1, <1>2, PTL DEF Spec

\* After a restart every runtime that was running runs again in its mode and
\* holds the open row, or says that it has to be recovered, whatever the
\* threads did to each other before (RecoveryRestores).
THEOREM RestartRestores == Spec => []RecoveryRestores
<1>1. RecoveryInv => RecoveryRestores
  BY DEF RecoveryInv, RecoveryRestores, Restored, Matches
<1> QED
  BY <1>1, RecoveryInvariant, PTL

\* A step that lets a start of the process fail.
LEMMA FailedStart ==
  ASSUME Static, [Next]_vars, phase = "recovering", phase' = "failed"
  PROVE  \E k \in Keys : RecoverPosition(k)
<1>1. ~UNCHANGED vars
  BY DEF vars
<1>2. ~(\E t \in Threads : Work(t))
  BY WorkFrame
<1>3. ~Call
  BY CallFrame
<1>4. ~Environment
  BY DEF Environment, Crash, Govern, SelectProfile, Edit, BrokerCloses
<1>5. Recover
  BY <1>1, <1>2, <1>3, <1>4 DEF Next
<1> QED
  BY <1>5 DEF Recover, Restart, FinishRecovery, RequireRecovery, Resume

LEMMA FailedStartLeaves ==
  ASSUME Static, NEW k \in Keys, RecoverPosition(k), phase' = "failed"
  PROVE  /\ k \in recovery.todo /\ rows[k].linked /\ positions[k] # "open"
         /\ \/ positions'[k] = "open"
            \/ \E j \in Keys \ {k} : /\ j[2] = k[2]
                                      /\ intents[j] \in ActiveOwnershipStates
<1>1. k \in recovery.todo /\ rows[k].linked /\ positions[k] # "open"
      /\ phase = "recovering"
  BY DEF RecoverPosition, Recovering
<1>2. intents[k] \in TradedStates
  BY DEF Static, AllIntents
<1>3. CASE intents[k] \in FoundStates
  <2>1. positions' = [positions EXCEPT ![k] = "open"]
    BY <1>3 DEF RecoverPosition, RowStays
  <2> QED
    BY <1>1, <2>1 DEF Static, RiskTypes
<1>4. CASE intents[k] \notin FoundStates
  <2>1. Owned(k[2])
    BY <1>1, <1>4 DEF RecoverPosition
  <2>2. intents[k] \notin ActiveOwnershipStates
    BY <1>2, <1>4 DEF TradedStates, FoundStates, ActiveOwnershipStates,
       ProvenanceStates, Absent
  <2> QED
    BY <1>1, <2>1, <2>2 DEF Owned
<1> QED
  BY <1>3, <1>4

\* The action of FailedStartHeals.
Heals ==
  phase = "recovering" /\ phase' = "failed" =>
    \E k \in recovery.todo :
      /\ rows[k].linked /\ positions[k] # "open"
      /\ \/ positions'[k] = "open"
         \/ \E j \in Keys \ {k} : /\ j[2] = k[2]
                                   /\ intents[j] \in ActiveOwnershipStates

\* A start of the process that fails leaves a row open that was not, unless
\* the trade of another family owns the instrument by now (FailedStartHeals).
THEOREM FailedStartsHeal == Spec => FailedStartHeals
<1>1. Static /\ [Next]_vars => [Heals]_vars
  BY FailedStart, FailedStartLeaves DEF Heals
<1> QED
  BY <1>1, RecoveryInvariant, PTL DEF Spec, FailedStartHeals, Heals

-----------------------------------------------------------------------------
(* One thread at a time: what it does to rows and engines.                 *)

Alone(t) == /\ call[Other(t)] = IdleCall
            /\ \A k \in Keys : Matches(k) \/ AtWork(t, k)
            /\ InHand(t)

LEMMA AloneFromMemory ==
  ASSUME Static, MemoryInv, NEW t \in Threads, Busy(t)
  PROVE  Alone(t)
<1>1. ~Busy(Other(t)) /\ Other(t) \in Threads
  BY OtherThread DEF MemoryInv
<1>2. call[Other(t)] = IdleCall
  BY <1>1, CallFacts DEF CallInv
<1>3. \A k \in Keys : ~AtWork(Other(t), k)
  BY <1>2, IdleFacts, NothingFacts DEF AtWork, Now
<1> QED
  BY <1>2, <1>3, OtherThread DEF MemoryInv, Alone

LEMMA IdleInHand ==
  ASSUME NEW t, call[t] = IdleCall
  PROVE  InHand(t) /\ ~Busy(t) /\ \A k : ~AtWork(t, k)
BY IdleFacts, NothingFacts DEF InHand, Busy, AtWork, Now

LEMMA SameMatches ==
  ASSUME UNCHANGED <<rows, engines, objects>>
  PROVE  \A k : Matches(k)' = Matches(k) /\ Up(k)' = Up(k)
BY DEF Matches, Up, Registered

\* A step that leaves the other keys alone.
Spares(k) == \A j \in Keys : j # k =>
  /\ rows'[j] = rows[j] /\ engines'[j] = engines[j]
  /\ \A i \in Ids : objects'[<<j, i>>] = objects[<<j, i>>]

LEMMA OthersMatch ==
  ASSUME Static, NEW k, Spares(k)
  PROVE  \A j \in Keys : j # k => Matches(j)' = Matches(j) /\ Up(j)' = Up(j)
<1> SUFFICES ASSUME NEW j \in Keys, j # k
             PROVE  Matches(j)' = Matches(j) /\ Up(j)' = Up(j)
  OBVIOUS
<1>1. rows'[j] = rows[j] /\ engines'[j] = engines[j]
      /\ \A i \in Ids : objects'[<<j, i>>] = objects[<<j, i>>]
  BY DEF Spares
<1>2. engines[j] \in Ids
  BY DEF Static, EngineTypes
<1>3. Registered(j)' = Registered(j) /\ Up(j)' = Up(j)
      /\ objects'[Registered(j)] = objects[Registered(j)]
  BY <1>1, <1>2 DEF Registered, Up
<1> QED
  BY <1>1, <1>3 DEF Matches

LEMMA EngineSpares ==
  ASSUME Static, NEW k \in Keys, NEW i \in Ids, NEW o,
         \/ rows' = rows
         \/ \E r : rows' = [rows EXCEPT ![k] = r],
         \/ engines' = engines
         \/ \E n : engines' = [engines EXCEPT ![k] = n],
         \/ objects' = objects
         \/ objects' = [objects EXCEPT ![<<k, i>>] = o]
  PROVE  Spares(k)
BY DEF Static, RowTypes, EngineTypes, ObjectTypes, Spares

\* A step of the call that touches no engine and no row.
LEMMA QuietStep ==
  ASSUME Static, NEW t \in Threads, Alone(t),
         UNCHANGED <<rows, engines, objects>>,
         call'[Other(t)] = call[Other(t)],
         Now(t).do \notin {"mark", "sync", "write"},
         Now(t)'.do \notin {"mark", "sync", "write"},
         Now(t)'.do = "mode" =>
           /\ Up(Now(t)'.key)
           /\ objects[Registered(Now(t)'.key)].mode = "NORMAL",
         call'[t].kind = "price" => /\ call[t].kind = "price"
                                    /\ call'[t].plan \subseteq call[t].plan
  PROVE  Alone(t)'
<1>1. \A k \in Keys : Matches(k)'
  BY SameMatches DEF Alone, AtWork
<1>2. InHand(t)'
  BY DEF Alone, InHand, Now, Up, Registered
<1> QED
  BY <1>1, <1>2 DEF Alone

\* A call that is over when no command is in the middle of its work.
LEMMA RaiseAlone ==
  ASSUME Static, NEW t \in Threads, Alone(t), SetCall(t, IdleCall),
         UNCHANGED <<rows, engines, objects>>,
         Now(t).do \notin {"mark", "sync", "write"}
  PROVE  Alone(t)'
<1>1. call'[t] = IdleCall /\ call'[Other(t)] = call[Other(t)]
  BY SetCallEffect, OtherThread DEF Static
<1> QED
  BY <1>1, IdleFacts, NothingFacts, QuietStep DEF Now

\* What a command that is followed by another one makes of the call.
LEMMA StaticThenEffect ==
  ASSUME Static, NEW t \in Threads, NEW c,
         NEW next \in Commands \cup {NoCommand}, Then(t, c, next)
  PROVE  /\ SameHead(call'[t], call[t])
         /\ call'[t].plan = call[t].plan \ {c}
         /\ Now(t)' = next
         /\ call'[Other(t)] = call[Other(t)]
BY ThenEffect, OtherThread DEF Static, Now

LEMMA DoneAlone ==
  ASSUME Static, NEW t \in Threads, NEW c \in Due(t), Alone(t), Done(t, c),
         UNCHANGED <<rows, engines, objects>>,
         c.do \notin {"mark", "sync", "write"}
  PROVE  Alone(t)'
<1>1. Now(t).do \notin {"mark", "sync", "write"}
  BY StaticDue, NothingFacts
<1>2. /\ SameHead(call'[t], call[t])
      /\ call'[t].plan = call[t].plan \ {c}
      /\ Now(t)' = NoCommand
      /\ call'[Other(t)] = call[Other(t)]
  BY StaticThenEffect DEF Done
<1> QED
  BY <1>1, <1>2, NothingFacts, QuietStep DEF SameHead

\* A step of the call that leaves one key with a command in hand.
LEMMA HandStep ==
  ASSUME Static, NEW t \in Threads, Alone(t), NEW k \in Keys, Spares(k),
         call'[Other(t)] = call[Other(t)],
         AtWork(t, k)' \/ Matches(k)',
         Now(t).do \in {"mark", "sync", "write"} => Now(t).key = k,
         InHand(t)'
  PROVE  Alone(t)'
<1>1. \A j \in Keys : j # k => Matches(j)'
  BY OthersMatch DEF Alone, AtWork
<1> QED
  BY <1>1 DEF Alone

LEMMA ResolveAlone ==
  ASSUME Static, NEW t \in Threads, NEW c \in Due(t), Alone(t), Resolve(t, c)
  PROVE  Alone(t)'
<1>1. c.do = "resolve" /\ c \in Commands /\ c.key \in Keys
  BY StaticDue DEF Resolve, Does
<1>2. c = Now(t) /\ NowFits(t, c)
  BY <1>1, StaticDue DEF PlanFits, MayPlan
<1>3. UNCHANGED <<rows, engines, objects>>
  BY DEF Resolve, memory
<1>4. CASE Raise(t)
  BY <1>1, <1>2, <1>3, <1>4, RaiseAlone DEF Raise
<1>5. CASE ~StartRefused(c.key, c.mode)
  <2> DEFINE d == [c EXCEPT !.do = "start",
                     !.mode = IF @ = None THEN DefaultMode(c.key) ELSE @]
  <2>1. DefaultMode(c.key) \in Modes
    BY <1>1, ModeFacts DEF Modes
  <2>2. d \in Commands /\ d.do = "start"
    BY <1>1, <2>1 DEF Commands
  <2>3. Then(t, c, d)
    BY <1>5 DEF Resolve
  <2>4. PICK next \in Commands : next = d
    BY <2>2
  <2> HIDE DEF d
  <2>5. /\ SameHead(call'[t], call[t])
        /\ call'[t].plan = call[t].plan \ {c}
        /\ Now(t)' = next
        /\ call'[Other(t)] = call[Other(t)]
    BY <2>3, <2>4, StaticThenEffect
  <2> QED
    BY <1>1, <1>2, <1>3, <2>2, <2>4, <2>5, QuietStep DEF SameHead
<1> QED
  BY <1>4, <1>5 DEF Resolve

\* The engine of a key that is not running left no mode that protects.
LEMMA DownRow ==
  ASSUME Static, NEW k \in Keys, Matches(k), ~Up(k)
  PROVE  rows[k].mode # "EXITS_ONLY" \/ rows[k].recovery = "RECOVERY_REQUIRED"
BY RowFacts DEF Matches, RowInv

LEMMA StartAlone ==
  ASSUME Static, NEW t \in Threads, NEW c \in Due(t), Alone(t), Start(t, c)
  PROVE  Alone(t)'
<1>1. c.do = "start" /\ c \in Commands /\ c.key \in Keys
  BY StaticDue DEF Start, Does
<1>2. c = Now(t) /\ NowFits(t, c)
  BY <1>1, StaticDue DEF PlanFits, MayPlan
<1>3. CASE Up(c.key)
  BY <1>1, <1>2, <1>3, RaiseAlone DEF Start, Raise, memory
<1>4. CASE ~Up(c.key)
  <2>1. PICK i \in Ids : i = NewId(c.key) /\ i # 0
    BY <1>1, <1>4, NewIdFacts DEF Start
  <2>2. PICK d \in Commands : d = [c EXCEPT !.do = "sync", !.id = i]
    BY <1>1, <2>1 DEF Commands
  <2>3. /\ d.do = "sync" /\ d.key = c.key /\ d.id = i /\ d.mode = c.mode
    BY <1>1, <2>2 DEF Commands
  <2>4. PICK o : o = [mode |-> c.mode, profile |-> call[t].profile,
                      holds |-> FALSE]
    OBVIOUS
  <2>5. Then(t, c, d) /\ engines' = [engines EXCEPT ![c.key] = i]
        /\ objects' = [objects EXCEPT ![<<c.key, i>>] = o] /\ rows' = rows
    BY <1>4, <2>1, <2>2, <2>4 DEF Start
  <2>6. /\ SameHead(call'[t], call[t])
        /\ Now(t)' = d /\ call'[Other(t)] = call[Other(t)]
    BY <2>5, StaticThenEffect
  <2>7. Spares(c.key)
    BY <1>1, <2>5, EngineSpares
  <2>8. engines'[c.key] = i /\ objects'[<<c.key, i>>] = o
    BY <1>1, <2>5 DEF Static, EngineTypes, ObjectTypes
  <2>9. c.mode \in {"NORMAL", "EXITS_ONLY"} /\ call[t].kind # "price"
    BY <1>1, <1>2 DEF NowFits, MayRun, StageOf
  <2>10. Matches(c.key)
    BY <1>1, <1>2 DEF Alone, AtWork
  <2>11. Writing(t, d)'
    BY <1>1, <1>4, <2>1, <2>3, <2>4, <2>5, <2>8, <2>9, <2>10, DownRow,
       NoneAssumption DEF Writing, Up, Registered, Unlifted, WrittenMode
  <2>12. InHand(t)'
    <3>1. \A x : x = d => Writing(t, x)'
      BY <2>11
    <3> QED
      BY <2>3, <2>6, <2>9, <3>1 DEF InHand, SameHead
  <2> QED
    BY <1>1, <1>2, <2>3, <2>6, <2>7, <2>12, HandStep DEF AtWork
<1> QED
  BY <1>3, <1>4

LEMMA PlannedMatches ==
  ASSUME Static, NEW t \in Threads, Alone(t), NEW k \in Keys,
         Now(t).do \notin {"mark", "sync", "write"}
  PROVE  Matches(k)
BY DEF Alone, AtWork

\* A plan whose engines are up stays one.
LEMMA PricesKept ==
  ASSUME NEW t, InHand(t), engines' = engines, SameHead(call'[t], call[t]),
         call'[t].plan \subseteq call[t].plan
  PROVE  call'[t].kind = "price" =>
           \A c \in call'[t].plan : c.id = engines'[c.key] /\ Up(c.key)'
BY DEF InHand, SameHead, Up

LEMMA SetModeAlone ==
  ASSUME Static, NEW t \in Threads, NEW c \in Due(t), Alone(t), SetMode(t, c)
  PROVE  Alone(t)'
<1>1. c.do \in {"mode", "mode_if_up"} /\ c \in Commands /\ c.key \in Keys
  BY StaticDue DEF SetMode, Does
<1>2. \/ c = Now(t) /\ NowFits(t, c)
      \/ Now(t) = NoCommand /\ c \in call[t].plan /\ PlanFits(t, c)
  BY StaticDue
<1>3. Now(t).do \notin {"mark", "sync", "write"}
  BY <1>1, <1>2, NothingFacts
<1>4. CASE ~Up(c.key)
  <2>1. UNCHANGED <<rows, engines, objects>>
    BY <1>4 DEF SetMode
  <2>2. CASE c.do = "mode"
    BY <1>3, <1>4, <2>1, <2>2, RaiseAlone DEF SetMode, Raise
  <2>3. CASE c.do = "mode_if_up"
    BY <1>4, <2>1, <2>3, DoneAlone DEF SetMode
  <2> QED
    BY <1>1, <2>2, <2>3
<1>5. CASE Up(c.key)
  <2>1. PICK i \in Ids : i = engines[c.key]
    BY <1>1 DEF Static, EngineTypes
  <2>2. PICK d \in Commands : d = [c EXCEPT !.do = "sync", !.id = i]
    BY <1>1, <2>1 DEF Commands
  <2>3. /\ d.do = "sync" /\ d.key = c.key /\ d.id = i /\ d.mode = c.mode
    BY <1>1, <2>2 DEF Commands
  <2>4. PICK o : o = [objects[<<c.key, i>>] EXCEPT !.mode = c.mode]
    OBVIOUS
  <2>5. Then(t, c, d) /\ engines' = engines
        /\ objects' = [objects EXCEPT ![<<c.key, i>>] = o] /\ rows' = rows
    <3>1. objects' = [objects EXCEPT ![<<c.key, i>>].mode = c.mode]
          /\ Then(t, c, d) /\ engines' = engines /\ rows' = rows
      BY <1>5, <2>1, <2>2 DEF SetMode, Registered
    <3> QED
      BY <2>4, <3>1
  <2>6. /\ SameHead(call'[t], call[t]) /\ call'[t].plan = call[t].plan \ {c}
        /\ Now(t)' = d /\ call'[Other(t)] = call[Other(t)]
    BY <2>5, StaticThenEffect
  <2>7. Spares(c.key)
    BY <1>1, <2>5, EngineSpares
  <2>8. objects[<<c.key, i>>] \in ObjectRecords
    BY <1>1, ObjectFacts
  <2>9. objects'[<<c.key, i>>].mode = c.mode
    <3>1. objects'[<<c.key, i>>] = o
      BY <1>1, <2>5 DEF Static, ObjectTypes
    <3> QED
      BY <2>4, <2>8, <3>1 DEF ObjectRecords
  <2>10. c.mode \in {"NORMAL", "EXITS_ONLY"}
    BY <1>1, <1>2 DEF NowFits, PlanFits, MayRun
  <2>11. c.mode = "NORMAL" => rows[c.key].mode # "EXITS_ONLY"
    <3> SUFFICES ASSUME c.mode = "NORMAL" PROVE rows[c.key].mode # "EXITS_ONLY"
      OBVIOUS
    <3>1. c = Now(t) /\ c.do = "mode"
      BY <1>1, <1>2 DEF PlanFits, NowFits, MayRun
    <3>2. objects[Registered(c.key)].mode = "NORMAL"
      BY <3>1 DEF Alone, InHand
    <3>3. Matches(c.key)
      BY <1>1, <1>3, PlannedMatches
    <3> QED
      BY <1>5, <3>2, <3>3 DEF Matches
  <2>12. Writing(t, d)'
    BY <1>5, <2>1, <2>3, <2>5, <2>9, <2>10, <2>11, NoneAssumption
       DEF Writing, Up, Registered, Unlifted, WrittenMode
  <2>13. InHand(t)'
    <3>1. \A x : x = d => Writing(t, x)'
      BY <2>12
    <3> QED
      BY <2>3, <2>5, <2>6, <3>1, PricesKept DEF Alone, InHand
  <2> QED
    BY <1>1, <1>3, <2>3, <2>6, <2>7, <2>13, HandStep DEF AtWork
<1> QED
  BY <1>4, <1>5

LEMMA StopAlone ==
  ASSUME Static, NEW t \in Threads, NEW c \in Due(t), Alone(t), Stop(t, c)
  PROVE  Alone(t)'
<1>1. c.do \in {"stop", "stop_if_up"} /\ c \in Commands /\ c.key \in Keys
  BY StaticDue DEF Stop, Does
<1>2. Now(t) = NoCommand /\ PlanFits(t, c)
  BY <1>1, StaticDue DEF NowFits, MayRun
<1>3. Now(t).do \notin {"mark", "sync", "write"}
  BY <1>2, NothingFacts
<1>4. CASE ~Up(c.key)
  <2>1. UNCHANGED <<rows, engines, objects>>
    BY <1>4 DEF Stop
  <2>2. CASE c.do = "stop"
    BY <1>3, <1>4, <2>1, <2>2, RaiseAlone DEF Stop, Raise
  <2>3. CASE c.do = "stop_if_up"
    BY <1>4, <2>1, <2>3, DoneAlone DEF Stop
  <2> QED
    BY <1>1, <2>2, <2>3
<1>5. CASE Up(c.key)
  <2>1. PICK i \in Ids : i = engines[c.key]
    BY <1>1 DEF Static, EngineTypes
  <2>2. PICK d \in Commands : d = [c EXCEPT !.do = "mark", !.id = i]
    BY <1>1, <2>1 DEF Commands
  <2>3. /\ d.do = "mark" /\ d.key = c.key /\ d.id = i
    BY <1>1, <2>2 DEF Commands
  <2>4. Then(t, c, d) /\ engines' = [engines EXCEPT ![c.key] = 0]
        /\ objects' = objects /\ rows' = rows
    BY <1>5, <2>1, <2>2 DEF Stop
  <2>5. /\ SameHead(call'[t], call[t])
        /\ Now(t)' = d /\ call'[Other(t)] = call[Other(t)]
    BY <2>4, StaticThenEffect
  <2>6. Spares(c.key)
    BY <1>1, <2>1, <2>4, EngineSpares
  <2>7. Matches(c.key) /\ call[t].kind # "price"
    BY <1>1, <1>2, <1>3, PlannedMatches DEF PlanFits, MayPlan, StageOf
  <2>8. ~Up(d.key)' /\ rows'[d.key].id = d.id
    BY <1>1, <1>5, <2>1, <2>3, <2>4, <2>7 DEF Static, EngineTypes, Up, Matches
  <2>9. InHand(t)'
    BY <2>3, <2>5, <2>7, <2>8 DEF InHand, Marking, SameHead, Up
  <2> QED
    BY <1>1, <1>3, <2>3, <2>5, <2>6, <2>9, HandStep DEF AtWork
<1> QED
  BY <1>4, <1>5

\* A command that is in hand is the one that is executed.
LEMMA HandDue ==
  ASSUME Static, NEW t \in Threads, NEW c \in Due(t), Alone(t),
         c.do \in {"mark", "write"}
  PROVE  /\ c = Now(t) /\ NowFits(t, c)
         /\ c.do = "mark" => Marking(c)
         /\ c.do = "write" => Writing(t, c)
<1>1. c = Now(t) /\ NowFits(t, c)
  BY StaticDue DEF PlanFits, MayPlan
<1> QED
  BY <1>1 DEF Alone, InHand

LEMMA DoneHand ==
  ASSUME Static, NEW t \in Threads, NEW c \in Due(t), Alone(t), Done(t, c),
         engines' = engines, Spares(c.key), Matches(c.key)',
         c.do \in {"mark", "write", "detach"}, c = Now(t)
  PROVE  Alone(t)'
<1>1. /\ SameHead(call'[t], call[t])
      /\ call'[t].plan = call[t].plan \ {c}
      /\ Now(t)' = NoCommand
      /\ call'[Other(t)] = call[Other(t)]
  BY StaticThenEffect DEF Done
<1>2. InHand(t)'
  BY <1>1, NothingFacts, PricesKept DEF Alone, InHand
<1>3. c.key \in Keys
  BY StaticDue
<1> QED
  BY <1>1, <1>2, <1>3, HandStep

LEMMA MarkAlone ==
  ASSUME Static, NEW t \in Threads, NEW c \in Due(t), Alone(t), Mark(t, c)
  PROVE  Alone(t)'
<1>1. c \in Commands /\ c.key \in Keys /\ c.id \in Ids /\ c.do = "mark"
  BY StaticDue DEF Commands, Mark, Does
<1>2. c = Now(t) /\ ~Up(c.key) /\ rows[c.key].id = c.id
  BY <1>1, HandDue DEF Marking
<1>3. PICK r : r = StoppedRow(rows[c.key])
  OBVIOUS
<1>4. rows' = [rows EXCEPT ![c.key] = r] /\ engines' = engines
      /\ \/ objects' = objects
         \/ objects' = [objects EXCEPT ![<<c.key, c.id>>] = NoObject]
  BY <1>2, <1>3 DEF Mark, Marked
<1>5. Spares(c.key)
  <2>1. PICK o : o = NoObject
    OBVIOUS
  <2> QED
    BY <1>1, <1>4, <2>1, EngineSpares
<1>6. rows'[c.key] = r
  BY <1>1, <1>4 DEF Static, RowTypes
<1>7. r.status = "STOPPED"
  BY <1>1, <1>3, RowFacts, StoppedRowFacts
<1>8. Matches(c.key)'
  BY <1>2, <1>4, <1>6, <1>7 DEF Matches, Up
<1> QED
  BY <1>1, <1>2, <1>4, <1>5, <1>8, DoneHand DEF Mark

LEMMA WriteAlone ==
  ASSUME Static, NEW t \in Threads, NEW c \in Due(t), Alone(t), Write(t, c)
  PROVE  Alone(t)'
<1>1. c \in Commands /\ c.key \in Keys /\ c.do = "write"
  BY StaticDue DEF Write, Does
<1>2. c = Now(t) /\ Writing(t, c)
  BY <1>1, HandDue
<1>3. PICK r : r = SyncedRow(c.key, c)
  OBVIOUS
<1>4. rows' = [rows EXCEPT ![c.key] = r] /\ engines' = engines
      /\ objects' = objects
  BY <1>3 DEF Write, memory
<1>5. Spares(c.key)
  BY <1>1, <1>4, ZeroId, EngineSpares
<1>6. rows'[c.key] = r
  BY <1>1, <1>4 DEF Static, RowTypes
<1>7. /\ r.id = c.id /\ r.status = "RUNNING" /\ r.recovery = "RUNNING"
      /\ r.linked = c.linked /\ r.mode = WrittenMode(c)
  BY <1>1, <1>3, SyncedRowFacts
<1>8. Matches(c.key)'
  BY <1>1, <1>2, <1>4, <1>6, <1>7 DEF Matches, Up, Writing, Registered
<1> QED
  BY <1>1, <1>2, <1>4, <1>5, <1>8, DoneHand DEF Write

\* A NORMAL engine whose row matches lifts nothing.
LEMMA MatchUnlifted ==
  ASSUME NEW k, Matches(k), Up(k)
  PROVE  Unlifted(k) /\ objects[Registered(k)].mode # "STOPPED"
BY DEF Matches, Unlifted

LEMMA SyncAlone ==
  ASSUME Static, NEW t \in Threads, NEW c \in Due(t), Alone(t), Sync(t, c)
  PROVE  Alone(t)'
<1>1. c \in Commands /\ c.key \in Keys /\ c.do = "sync"
  BY StaticDue DEF Sync, Does
<1>2. /\ Up(c.key) /\ c.id = engines[c.key]
      /\ Unlifted(c.key) /\ objects[Registered(c.key)].mode # "STOPPED"
      /\ \/ WrittenMode(c) = objects[Registered(c.key)].mode
         \/ c.mode = None /\ call[t].kind = "price"
      /\ Now(t).do \in {"mark", "sync", "write"} => Now(t).key = c.key
  <2>1. CASE c = Now(t)
    BY <1>1, <2>1 DEF Alone, InHand, Writing
  <2>2. CASE Now(t) = NoCommand /\ c \in call[t].plan /\ PlanFits(t, c)
    <3>1. call[t].kind = "price" /\ c.mode = None
      BY <1>1, <2>2, CallFacts
         DEF PlanFits, MayPlan, StageOf, CallInv, CycleStages
    <3>2. c.id = engines[c.key] /\ Up(c.key)
      BY <2>2, <3>1 DEF Alone, InHand
    <3>3. Matches(c.key)
      BY <1>1, <2>2, NothingFacts, PlannedMatches
    <3> QED
      BY <2>2, <3>1, <3>2, <3>3, NothingFacts, MatchUnlifted
  <2> QED
    BY <2>1, <2>2, StaticDue
<1>3. PICK i \in Ids : i = engines[c.key] /\ i # 0 /\ c.id = i
  BY <1>1, <1>2 DEF Static, EngineTypes, Up
<1>4. PICK o \in ObjectRecords : o = objects[<<c.key, i>>]
  BY <1>1, ObjectFacts
<1>5. PICK d \in Commands :
        d = [c EXCEPT !.do = "write", !.id = i,
               !.mode = IF @ = None /\ call[t].kind = "price" THEN o.mode ELSE @,
               !.linked = o.holds \/ o.holds]
  BY <1>1, <1>3, <1>4 DEF Commands, ObjectRecords
<1>6. /\ d.do = "write" /\ d.key = c.key /\ d.id = i
      /\ d.mode = IF c.mode = None /\ call[t].kind = "price"
                    THEN o.mode ELSE c.mode
      /\ d.linked = o.holds
  BY <1>1, <1>4, <1>5 DEF Commands, ObjectRecords
<1>7. Then(t, c, d) /\ UNCHANGED <<rows, engines, objects>>
  BY <1>3, <1>4, <1>5 DEF Sync, memory
<1>8. /\ SameHead(call'[t], call[t]) /\ call'[t].plan = call[t].plan \ {c}
      /\ Now(t)' = d /\ call'[Other(t)] = call[Other(t)]
  BY <1>7, StaticThenEffect
<1>9. Registered(c.key) = <<c.key, i>>
  BY <1>3 DEF Registered
<1>10. WrittenMode(d) = o.mode
  <2>1. CASE c.mode = None /\ call[t].kind = "price"
    <3>1. o.mode # None
      BY NoneAssumption DEF ObjectRecords, Modes
    <3> QED
      BY <1>6, <2>1, <3>1 DEF WrittenMode
  <2>2. CASE ~(c.mode = None /\ call[t].kind = "price")
    BY <1>2, <1>4, <1>6, <1>9, <2>2 DEF WrittenMode
  <2> QED
    BY <2>1, <2>2
<1>11. Writing(t, d)
  BY <1>2, <1>3, <1>4, <1>6, <1>9, <1>10 DEF Writing
<1>12. Writing(t, d)'
  BY <1>7, <1>8, <1>11
     DEF Writing, Up, Registered, Unlifted, WrittenMode, SameHead
<1>13. InHand(t)'
  <2>1. \A x : x = d => Writing(t, x)'
    BY <1>12
  <2> QED
    BY <1>6, <1>7, <1>8, <2>1, PricesKept DEF Alone, InHand
<1>14. Spares(c.key)
  BY <1>7 DEF Spares
<1> QED
  BY <1>1, <1>2, <1>6, <1>8, <1>13, <1>14, HandStep DEF AtWork

LEMMA PlannedDo ==
  ASSUME NEW t, Planned(t)
  PROVE  Now(t).do \notin {"mark", "sync", "write", "mode"} /\ Now(t) = NoCommand
BY NothingFacts DEF Planned

LEMMA FinishAlone ==
  ASSUME Static, NEW t \in Threads, Alone(t), Finish(t)
  PROVE  Alone(t)'
BY PlannedDo, RaiseAlone DEF Finish, memory

LEMMA StageAlone ==
  ASSUME Static, NEW t \in Threads, Alone(t), Planned(t), NEW x, SetCall(t, x),
         UNCHANGED <<rows, engines, objects>>,
         x.now.do \in {"nothing", "resolve"}, x.kind # "price"
  PROVE  Alone(t)'
<1>1. call'[t] = x /\ call'[Other(t)] = call[Other(t)]
  BY SetCallEffect, OtherThread DEF Static
<1> QED
  BY <1>1, PlannedDo, QuietStep DEF Now

LEMMA EvaluateAlone ==
  ASSUME Static, NEW t \in Threads, Alone(t), Evaluate(t)
  PROVE  Alone(t)'
<1>1. /\ SetCall(t, call'[t]) /\ call'[t].kind = "cycle"
      /\ call'[t].now = NoCommand
  BY EvaluateEffect
<1>2. Planned(t)
  BY CallFacts DEF Evaluate, InCycle, CallInv
<1> QED
  BY <1>1, <1>2, NothingFacts, StageAlone DEF Evaluate, memory

LEMMA EnsureAlone ==
  ASSUME Static, NEW t \in Threads, Alone(t), Ensure(t)
  PROVE  Alone(t)'
<1>1. PICK next \in Commands \cup {NoCommand} :
        /\ SetCall(t, [call[t] EXCEPT !.stage = "confirm", !.now = next])
        /\ call'[t] = [call[t] EXCEPT !.stage = "confirm", !.now = next]
        /\ call[t] \in CallRecords /\ call[t].kind = "cycle"
        /\ call'[t].now = next
        /\ next = NoCommand \/ next.do = "resolve"
  BY EnsureEffect
<1>2. SetCall(t, call'[t]) /\ call'[t].kind = "cycle"
  BY <1>1 DEF CallRecords
<1> QED
  BY <1>1, <1>2, NothingFacts, StageAlone DEF Ensure, memory

LEMMA ConfirmAlone ==
  ASSUME Static, NEW t \in Threads, Alone(t), Confirm(t)
  PROVE  Alone(t)'
<1>1. PICK next \in Commands \cup {NoCommand} :
        /\ SetCall(t, [call[t] EXCEPT !.stage = "assess", !.now = next])
        /\ call'[t] = [call[t] EXCEPT !.stage = "assess", !.now = next]
        /\ call[t] \in CallRecords /\ call[t].kind = "cycle"
        /\ call'[t].now = next
        /\ \/ next = NoCommand
           \/ next.do = "mode" /\ next.key = Target(t) /\ Confirmed(t)
  BY ConfirmEffect
<1>2. call'[t].kind = "cycle" /\ call'[Other(t)] = call[Other(t)]
  BY <1>1, SetCallEffect, OtherThread DEF CallRecords, Static
<1>3. Planned(t) /\ UNCHANGED <<rows, engines, objects>>
  BY DEF Confirm, memory
<1> QED
  BY <1>1, <1>2, <1>3, NothingFacts, PlannedDo, QuietStep DEF Now, Confirmed

LEMMA ConcludeAlone ==
  ASSUME Static, NEW t \in Threads, Alone(t), Assess(t) \/ Settle(t)
  PROVE  Alone(t)'
<1>1. PICK r : Conclude(t, r) /\ Planned(t) /\ call[t].kind = "cycle"
  BY DEF Assess, Settle, InCycle
<1>2. UNCHANGED <<rows, engines, objects>>
  BY <1>1 DEF Conclude, memory
<1>3. CASE call[t].family = FamilyCount
  BY <1>1, <1>2, <1>3, PlannedDo, RaiseAlone DEF Conclude
<1>4. CASE call[t].family # FamilyCount
  <2>1. call[t].family + 1 \in Families
    BY <1>1, <1>4, CycleFacts, FamilyFacts
  <2>2. PICK x : x = [IdleCall EXCEPT !.kind = "cycle", !.stage = "evaluate",
                                      !.family = call[t].family + 1]
    OBVIOUS
  <2>3. SetCall(t, x)
    BY <1>1, <1>4, <2>2 DEF Conclude
  <2>4. x.kind = "cycle" /\ x.now = NoCommand
    BY <2>1, <2>2, EvaluationCall
  <2> QED
    BY <1>1, <1>2, <2>3, <2>4, NothingFacts, StageAlone
<1> QED
  BY <1>3, <1>4

\* A trade of a price: the engine is in its mode or protected by now, and its
\* row is written next.
LEMMA TradeAlone ==
  ASSUME Static, NEW c \in Due("loop"), Alone("loop"), c.do = "trade",
         Then("loop", c, [c EXCEPT !.do = "sync"]),
         UNCHANGED <<rows, engines>>,
         Spares(c.key),
         objects'[<<c.key, c.id>>].mode
           \in {objects[<<c.key, c.id>>].mode, "EXITS_ONLY"}
  PROVE  Alone("loop")'
<1>1. c \in Commands /\ c.key \in Keys /\ c.id \in Ids /\ "loop" \in Threads
  BY StaticDue DEF Threads, Commands
<1>2. Now("loop") = NoCommand /\ c \in call["loop"].plan /\ PlanFits("loop", c)
  BY <1>1, StaticDue DEF NowFits, MayRun
<1>3. call["loop"].kind = "price" /\ c.mode = None
  BY <1>1, <1>2, CallFacts DEF PlanFits, MayPlan, StageOf, CallInv, CycleStages
<1>4. c.id = engines[c.key] /\ Up(c.key)
  BY <1>2, <1>3 DEF Alone, InHand
<1>5. Matches(c.key)
  BY <1>1, <1>2, NothingFacts, PlannedMatches
<1>6. PICK d \in Commands : d = [c EXCEPT !.do = "sync"]
  BY <1>1 DEF Commands
<1>7. d.do = "sync" /\ d.key = c.key /\ d.id = c.id /\ d.mode = None
  BY <1>1, <1>3, <1>6 DEF Commands
<1>8. /\ SameHead(call'["loop"], call["loop"])
      /\ call'["loop"].plan = call["loop"].plan \ {c}
      /\ Now("loop")' = d /\ call'[Other("loop")] = call[Other("loop")]
  BY <1>1, <1>6, StaticThenEffect
<1>9. Writing("loop", d)'
  BY <1>3, <1>4, <1>5, <1>7, <1>8
     DEF Writing, Up, Registered, Unlifted, Matches, SameHead
<1>10. InHand("loop")'
  <2>1. \A x : x = d => Writing("loop", x)'
    BY <1>9
  <2> QED
    BY <1>7, <1>8, <2>1, PricesKept DEF Alone, InHand
<1> QED
  BY <1>1, <1>2, <1>7, <1>8, <1>10, NothingFacts, HandStep DEF AtWork

LEMMA EnterAlone ==
  ASSUME Static, NEW c \in Due("loop"), Alone("loop"), Enter(c)
  PROVE  Alone("loop")'
<1>1. c \in Commands /\ c.key \in Keys /\ c.id \in Ids /\ c.do = "trade"
  BY StaticDue DEF Threads, Enter, Does, Commands
<1>2. PICK m \in {objects[<<c.key, c.id>>].mode, "EXITS_ONLY"} :
        objects' = [objects EXCEPT ![<<c.key, c.id>>].holds = TRUE,
                                   ![<<c.key, c.id>>].mode = m]
  <2>1. PICK filled \in {"PARTIALLY_FILLED", "POSITION_OPENED"} :
          objects' = [objects EXCEPT ![<<c.key, c.id>>].holds = TRUE,
                ![<<c.key, c.id>>].mode = IF filled = "PARTIALLY_FILLED"
                                            THEN "EXITS_ONLY" ELSE @]
    BY DEF Enter
  <2>2. objects[<<c.key, c.id>>] \in ObjectRecords
    BY <1>1, ObjectFacts
  <2>3. CASE filled = "PARTIALLY_FILLED"
    BY <2>1, <2>3
  <2>4. CASE filled # "PARTIALLY_FILLED"
    <3>1. objects' = [objects EXCEPT ![<<c.key, c.id>>].holds = TRUE,
                        ![<<c.key, c.id>>].mode = objects[<<c.key, c.id>>].mode]
      BY <1>1, <2>1, <2>2, <2>4 DEF Static, ObjectTypes, ObjectRecords
    <3> QED
      BY <3>1
  <2> QED
    BY <2>3, <2>4
<1>3. PICK o : o = [objects[<<c.key, c.id>>] EXCEPT !.holds = TRUE, !.mode = m]
  OBVIOUS
<1>4. objects' = [objects EXCEPT ![<<c.key, c.id>>] = o]
  BY <1>1, <1>2, <1>3 DEF Static, ObjectTypes
<1>5. o.mode = m
  <2>1. objects[<<c.key, c.id>>] \in ObjectRecords
    BY <1>1, ObjectFacts
  <2> QED
    BY <1>3, <2>1 DEF ObjectRecords
<1>6. Then("loop", c, [c EXCEPT !.do = "sync"])
      /\ rows' = rows /\ engines' = engines
  BY DEF Enter
<1> QED
  <2>1. Spares(c.key)
    BY <1>1, <1>4, <1>6, EngineSpares
  <2>2. objects'[<<c.key, c.id>>] = o
    BY <1>1, <1>4 DEF Static, ObjectTypes
  <2> QED
    BY <1>1, <1>2, <1>5, <1>6, <2>1, <2>2, TradeAlone

LEMMA ExitAlone ==
  ASSUME Static, NEW c \in Due("loop"), Alone("loop"), Exit(c)
  PROVE  Alone("loop")'
<1>1. c \in Commands /\ c.key \in Keys /\ c.id \in Ids /\ c.do = "trade"
  BY StaticDue DEF Threads, Exit, Does, Commands
<1>2. PICK o : o = [objects[<<c.key, c.id>>] EXCEPT !.holds = FALSE]
  OBVIOUS
<1>3. objects' = [objects EXCEPT ![<<c.key, c.id>>] = o]
  <2>1. objects' = [objects EXCEPT ![<<c.key, c.id>>].holds = FALSE]
    BY DEF Exit
  <2> QED
    BY <1>2, <2>1
<1>4. o.mode = objects[<<c.key, c.id>>].mode
  BY <1>1, <1>2, ObjectFacts DEF ObjectRecords
<1>5. Then("loop", c, [c EXCEPT !.do = "sync"])
      /\ rows' = rows /\ engines' = engines
  BY DEF Exit
<1> QED
  <2>1. Spares(c.key)
    BY <1>1, <1>3, <1>5, EngineSpares
  <2>2. objects'[<<c.key, c.id>>] = o
    BY <1>1, <1>3 DEF Static, ObjectTypes
  <2> QED
    BY <1>1, <1>4, <1>5, <2>1, <2>2, TradeAlone

LEMMA DeclineAlone ==
  ASSUME Static, NEW c \in Due("loop"), Alone("loop"), Decline(c)
  PROVE  Alone("loop")'
BY DoneAlone DEF Decline, Does, Threads, memory

LEMMA ListAlone ==
  ASSUME Static, Alone("beside"), ListPass
  PROVE  Alone("beside")'
<1>1. PICK x : /\ SetCall("beside", x) /\ x.kind = "supervisor"
               /\ x.now = NoCommand
  BY ListEffect
<1>2. Planned("beside")
  BY CallFacts DEF ListPass, CallInv, Threads
<1> QED
  BY <1>1, <1>2, NothingFacts, StageAlone DEF ListPass, memory, Threads

\* The commands of the supervisor's pass.
LEMMA SuperviseFacts ==
  ASSUME Static, NEW c \in Due("beside"),
         c.do \in {"attach", "close", "force", "detach"}
  PROVE  /\ c \in Commands /\ c.key \in Keys /\ "beside" \in Threads
         /\ call["beside"].kind = "supervisor"
         /\ Now("beside").do \notin {"mark", "sync", "write"}
         /\ c.do = "attach" => c.mode = None
         /\ c.do \in {"force", "detach"} => c = Now("beside")
<1>1. /\ c \in Commands /\ c.key \in Keys /\ "beside" \in Threads
      /\ \/ c = Now("beside") /\ NowFits("beside", c)
         \/ /\ Now("beside") = NoCommand /\ c \in call["beside"].plan
            /\ PlanFits("beside", c)
  BY StaticDue DEF Threads
<1>2. StageOf("beside") = "supervisor"
  BY <1>1 DEF PlanFits, NowFits, MayPlan, MayRun
<1>3. call["beside"].kind = "supervisor"
  BY <1>1, <1>2, CallFacts DEF StageOf, CallInv, CycleStages
<1> QED
  BY <1>1, <1>3, NothingFacts DEF PlanFits, NowFits, MayPlan, MayRun

\* A command of the pass that leaves engines and rows alone.
LEMMA SuperviseQuiet ==
  ASSUME Static, NEW c \in Due("beside"), Alone("beside"),
         c.do \in {"close", "force"}, NEW do \in {"force", "detach"},
         Then("beside", c, [c EXCEPT !.do = do]),
         UNCHANGED <<rows, engines, objects>>
  PROVE  Alone("beside")'
<1>1. /\ c \in Commands /\ c.key \in Keys /\ "beside" \in Threads
      /\ call["beside"].kind = "supervisor"
      /\ Now("beside").do \notin {"mark", "sync", "write"}
  BY SuperviseFacts
<1>2. PICK d \in Commands : d = [c EXCEPT !.do = do]
  BY <1>1 DEF Commands
<1>3. d.do = do
  BY <1>1, <1>2 DEF Commands
<1>4. /\ SameHead(call'["beside"], call["beside"])
      /\ Now("beside")' = d
      /\ call'[Other("beside")] = call[Other("beside")]
  BY <1>1, <1>2, StaticThenEffect
<1> QED
  BY <1>1, <1>3, <1>4, QuietStep DEF SameHead

LEMMA AttachAlone ==
  ASSUME Static, NEW c \in Due("beside"), Alone("beside"), Attach(c)
  PROVE  Alone("beside")'
<1>1. /\ c \in Commands /\ c.key \in Keys /\ "beside" \in Threads
      /\ call["beside"].kind = "supervisor" /\ c.mode = None
      /\ Now("beside").do \notin {"mark", "sync", "write"}
  BY SuperviseFacts DEF Attach, Does
<1>2. CASE ~MayAdopt(c.key)
  BY <1>1, <1>2, RaiseAlone DEF Attach, Raise
<1>3. CASE MayAdopt(c.key) /\ ~Up(c.key)
  BY <1>1, <1>3, DoneAlone DEF Attach, Does
<1>4. CASE MayAdopt(c.key) /\ Up(c.key)
  <2>1. PICK i \in Ids : i = engines[c.key]
    BY <1>1 DEF Static, EngineTypes
  <2>2. PICK d \in Commands : d = [c EXCEPT !.do = "sync", !.id = i]
    BY <1>1, <2>1 DEF Commands
  <2>3. /\ d.do = "sync" /\ d.key = c.key /\ d.id = i /\ d.mode = None
    BY <1>1, <2>2 DEF Commands
  <2>4. PICK o : o = [objects[<<c.key, i>>] EXCEPT !.holds = TRUE]
    OBVIOUS
  <2>5. Then("beside", c, d) /\ engines' = engines
        /\ objects' = [objects EXCEPT ![<<c.key, i>>] = o] /\ rows' = rows
    <3>1. objects' = [objects EXCEPT ![<<c.key, i>>].holds = TRUE]
          /\ Then("beside", c, d) /\ engines' = engines /\ rows' = rows
      BY <1>4, <2>1, <2>2 DEF Attach, Registered
    <3> QED
      BY <2>4, <3>1
  <2>6. /\ SameHead(call'["beside"], call["beside"])
        /\ Now("beside")' = d
        /\ call'[Other("beside")] = call[Other("beside")]
    BY <1>1, <2>5, StaticThenEffect
  <2>7. Spares(c.key)
    BY <1>1, <2>5, EngineSpares
  <2>8. objects'[<<c.key, i>>].mode = objects[<<c.key, i>>].mode
    <3>1. objects'[<<c.key, i>>] = o
      BY <1>1, <2>5 DEF Static, ObjectTypes
    <3>2. objects[<<c.key, i>>] \in ObjectRecords
      BY <1>1, ObjectFacts
    <3> QED
      BY <2>4, <3>1, <3>2 DEF ObjectRecords
  <2>9. Matches(c.key)
    BY <1>1, PlannedMatches
  <2>10. Writing("beside", d)'
    BY <1>1, <1>4, <2>1, <2>3, <2>5, <2>8, <2>9
       DEF Writing, Up, Registered, Unlifted, WrittenMode, Matches
  <2>11. InHand("beside")'
    <3>1. \A x : x = d => Writing("beside", x)'
      BY <2>10
    <3> QED
      BY <1>1, <2>3, <2>6, <3>1 DEF InHand, SameHead
  <2> QED
    BY <1>1, <2>3, <2>6, <2>7, <2>11, HandStep DEF AtWork
<1> QED
  BY <1>2, <1>3, <1>4

LEMMA DetachAlone ==
  ASSUME Static, NEW c \in Due("beside"), Alone("beside"), Detach(c)
  PROVE  Alone("beside")'
<1>1. /\ c \in Commands /\ c.key \in Keys /\ "beside" \in Threads
      /\ c.do = "detach" /\ c = Now("beside") /\ Done("beside", c)
      /\ Now("beside").do \notin {"mark", "sync", "write"}
  BY SuperviseFacts DEF Detach, Does
<1>2. CASE ~(Up(c.key) /\ objects[Registered(c.key)].holds)
  BY <1>1, <1>2, DoneAlone DEF Detach
<1>3. CASE Up(c.key) /\ objects[Registered(c.key)].holds
  <2>1. PICK i \in Ids : i = engines[c.key]
    BY <1>1 DEF Static, EngineTypes
  <2>2. PICK o : o = [objects[<<c.key, i>>] EXCEPT !.holds = FALSE]
    OBVIOUS
  <2>3. PICK r : r = [rows[c.key] EXCEPT !.linked = FALSE,
                                         !.recovery = "RUNNING"]
    OBVIOUS
  <2>4. engines' = engines
        /\ objects' = [objects EXCEPT ![<<c.key, i>>] = o]
    <3>1. objects' = [objects EXCEPT ![<<c.key, i>>].holds = FALSE]
          /\ engines' = engines
      BY <1>3, <2>1 DEF Detach, Registered
    <3> QED
      BY <2>2, <3>1
  <2>5. rows' = [rows EXCEPT ![c.key] = r]
    BY <1>1, <1>3, <2>3 DEF Detach, Static, RowTypes
  <2>6. Spares(c.key)
    BY <1>1, <2>4, <2>5, EngineSpares
  <2>7. objects'[<<c.key, i>>] = o /\ rows'[c.key] = r
    BY <1>1, <2>4, <2>5 DEF Static, RowTypes, ObjectTypes
  <2>8. o.mode = objects[<<c.key, i>>].mode /\ o.holds = FALSE
    BY <1>1, <2>2, ObjectFacts DEF ObjectRecords
  <2>9. /\ r.status = rows[c.key].status /\ r.id = rows[c.key].id
        /\ r.mode = rows[c.key].mode /\ r.linked = FALSE
        /\ r.recovery = "RUNNING"
    BY <1>1, <2>3, RowFacts DEF RowRecords
  <2>10. Matches(c.key)
    BY <1>1, PlannedMatches
  <2>11. Matches(c.key)'
    BY <1>3, <2>1, <2>4, <2>7, <2>8, <2>9, <2>10 DEF Matches, Up, Registered
  <2> QED
    BY <1>1, <2>4, <2>6, <2>11, DoneHand
<1> QED
  BY <1>2, <1>3

\* A step of a call leaves rows and engines as they should be.
LEMMA WorkAlone ==
  ASSUME Static, NEW t \in Threads, Alone(t), Work(t)
  PROVE  Alone(t)'
<1>1. CASE Plan(t)
  BY <1>1, EvaluateAlone, EnsureAlone, ConfirmAlone, ConcludeAlone DEF Plan
<1>2. CASE Execute(t)
  <2>1. CASE Finish(t)
    BY <2>1, FinishAlone
  <2>2. ASSUME NEW c \in Due(t),
               \/ Resolve(t, c) \/ Start(t, c) \/ SetMode(t, c)
               \/ Stop(t, c) \/ Mark(t, c) \/ Sync(t, c) \/ Write(t, c)
        PROVE  Alone(t)'
    BY <2>2, ResolveAlone, StartAlone, SetModeAlone, StopAlone, MarkAlone,
       SyncAlone, WriteAlone
  <2> QED
    BY <1>2, <2>1, <2>2 DEF Execute
<1>3. CASE t = "loop" /\ Trade
  BY <1>3, EnterAlone, ExitAlone, DeclineAlone DEF Trade
<1>4. CASE t = "beside" /\ Supervise
  <2>1. ASSUME NEW c \in Due("beside"),
               Attach(c) \/ CloseMissing(c) \/ ForceIntent(c) \/ Detach(c)
        PROVE  Alone("beside")'
    <3>1. CASE CloseMissing(c)
      BY <1>4, <3>1, SuperviseQuiet DEF CloseMissing, Does, memory
    <3>2. CASE ForceIntent(c)
      <4>1. c.do = "force" /\ UNCHANGED <<rows, engines, objects>>
        BY <3>2 DEF ForceIntent, Does, memory
      <4>2. CASE Raise("beside")
        BY <1>4, <4>1, <4>2, RaiseAlone, SuperviseFacts DEF Raise
      <4>3. CASE Then("beside", c, [c EXCEPT !.do = "detach"])
        BY <1>4, <4>1, <4>3, SuperviseQuiet
      <4> QED
        BY <3>2, <4>2, <4>3 DEF ForceIntent
    <3> QED
      BY <1>4, <2>1, <3>1, <3>2, AttachAlone, DetachAlone
  <2> QED
    BY <1>4, <2>1, ListAlone DEF Supervise
<1> QED
  BY <1>1, <1>2, <1>3, <1>4 DEF Work

-----------------------------------------------------------------------------
(* The rows and engines, while the threads take turns.                     *)

LEMMA AloneNext ==
  ASSUME NEW t \in Threads, Alone(t)'
  PROVE  MemoryInv'
<1>1. call'[Other(t)] = IdleCall /\ InHand(t)'
      /\ \A k \in Keys : Matches(k)' \/ AtWork(t, k)'
  BY DEF Alone
<1>2. InHand(Other(t))' /\ ~Busy(Other(t))'
  BY <1>1, IdleFacts, NothingFacts DEF InHand, Busy, Now
<1> QED
  BY <1>1, <1>2, OtherThread DEF MemoryInv

LEMMA MemoryKept ==
  ASSUME MemoryInv, UNCHANGED <<rows, engines, objects, call>>
  PROVE  MemoryInv'
<1>1. \A t : /\ Busy(t)' = Busy(t) /\ Now(t)' = Now(t)
             /\ call'[t] = call[t]
  BY DEF Busy, Now
<1>2. \A t, k : AtWork(t, k)' = AtWork(t, k)
  BY <1>1 DEF AtWork
<1>3. \A t, c : Writing(t, c)' = Writing(t, c)
  BY <1>1 DEF Writing, Up, Registered, Unlifted, WrittenMode
<1>4. \A t : InHand(t)' = InHand(t)
  BY <1>1, <1>3 DEF InHand, Marking, Up, Registered
<1> QED
  BY <1>1, <1>2, <1>4, SameMatches DEF MemoryInv

\* No thread is in a call and every row tells what its engine does.
AllIdle == /\ \A t \in Threads : call[t] = IdleCall
           /\ \A k \in Keys : Matches(k)

LEMMA RestIsIdle ==
  ASSUME Static, MemoryInv, \A t \in Threads : ~Busy(t)
  PROVE  AllIdle
<1>1. \A t \in Threads : call[t] = IdleCall
  BY CallFacts DEF CallInv
<1> QED
  BY <1>1, IdleInHand DEF MemoryInv, AllIdle

\* The first state of a call.
LEMMA BeginAlone ==
  ASSUME Static, AllIdle, NEW t \in Threads, NEW x, Begin(t, x),
         x.now.do \in {"nothing", "resolve"},
         x.kind = "price" =>
           \A c \in x.plan : c.id = engines[c.key] /\ Up(c.key)
  PROVE  Alone(t)'
<1>1. call'[t] = x /\ call'[Other(t)] = IdleCall
  BY BeginEffect, OtherThread DEF AllIdle
<1>2. UNCHANGED <<rows, engines, objects>>
  BY DEF Begin, memory
<1>3. \A k \in Keys : Matches(k)'
  BY <1>2, SameMatches DEF AllIdle
<1>4. InHand(t)'
  BY <1>1, <1>2 DEF InHand, Now, Up
<1> QED
  BY <1>1, <1>3, <1>4 DEF Alone

LEMMA CallAlone ==
  ASSUME Static, AllIdle, Call
  PROVE  \E t \in Threads : Alone(t)'
<1>1. ASSUME NEW t \in Threads, StartCycle(t)
      PROVE  Alone(t)'
  <2>1. PICK x : x = [IdleCall EXCEPT !.kind = "cycle", !.stage = "evaluate",
                                      !.family = 1]
    OBVIOUS
  <2>2. Begin(t, x)
    BY <1>1, <2>1 DEF StartCycle
  <2>3. x.kind = "cycle" /\ x.now = NoCommand
    BY <2>1, FamilyFacts, EvaluationCall
  <2> QED
    BY <2>2, <2>3, NothingFacts, BeginAlone
<1>2. ASSUME NEW i \in Instruments, StartPrice(i)
      PROVE  Alone("loop")'
  <2>1. /\ Begin("loop", call'["loop"])
        /\ call'["loop"].plan = {Command(do, k, engines[k], None, None) :
                                   do \in {"sync", "trade"}, k \in UpKeys(i)}
        /\ call'["loop"].now = NoCommand
    BY <1>2, StartPriceEffect
  <2>2. \A c \in call'["loop"].plan : c.id = engines[c.key] /\ Up(c.key)
    BY <2>1, PricePlan DEF UpKeys
  <2> QED
    BY <2>1, <2>2, NothingFacts, BeginAlone DEF Threads
<1>3. CASE StartPass
  <2>1. PICK x : Begin("beside", x) /\ x.kind = "supervisor"
                 /\ x.now = NoCommand
    BY <1>3, StartPassEffect
  <2> QED
    BY <2>1, NothingFacts, BeginAlone DEF Threads
<1>4. ASSUME NEW k \in Keys, OperatorStarts(k)
      PROVE  Alone("beside")'
  <2>1. PICK x : Begin("beside", x) /\ x.kind = "operator"
                 /\ x.now = Command("resolve", k, 0, None, "MANUAL")
    BY <1>4, OperatorStartsEffect
  <2>2. x.now.do = "resolve"
    BY <2>1, CommandFacts
  <2> QED
    BY <2>1, <2>2, BeginAlone DEF Threads
<1>5. ASSUME NEW ks \in SUBSET Keys, OperatorStops(ks)
      PROVE  Alone("beside")'
  <2>1. PICK x : Begin("beside", x) /\ x.kind = "operator"
                 /\ x.now = NoCommand
    BY <1>5, OperatorStopsEffect
  <2> QED
    BY <2>1, NothingFacts, BeginAlone DEF Threads
<1> QED
  BY <1>1, <1>2, <1>3, <1>4, <1>5, StopSets DEF Call, Threads

\* A call that begins while the threads take turns meets no other one.
LEMMA CallMeetsNone ==
  ASSUME Static, Call, ~overlapped'
  PROVE  ~overlapped /\ \A t \in Threads : ~Busy(t)
<1>1. PICK t \in Threads : \E x : Begin(t, x)
  BY CallFrame
<1>2. ~Busy(t) /\ overlapped' = (overlapped \/ Busy(Other(t)))
  BY <1>1 DEF Begin
<1>3. overlapped \in BOOLEAN
  BY DEF Static, ProcessTypes
<1> QED
  BY <1>2, <1>3, OtherThread

\* What the environment leaves alone, unless the process crashes.
LEMMA EnvironmentFrame ==
  ASSUME Environment
  PROVE  \/ phase' = "down"
         \/ UNCHANGED <<rows, engines, objects, positions, call, phase,
                        overlapped>>
BY DEF Environment, Crash, Govern, SelectProfile, Edit, BrokerCloses, memory,
       risk

LEMMA MemoryStep ==
  ASSUME Static, RecoveryInv, ~overlapped /\ Running => MemoryInv,
         [Next]_vars, ~overlapped' /\ Running'
  PROVE  MemoryInv'
<1>1. CASE UNCHANGED vars
  BY <1>1, MemoryKept DEF vars, memory, Running
<1>2. ASSUME NEW t \in Threads, Work(t)
      PROVE  MemoryInv'
  <2>1. UNCHANGED <<phase, overlapped>> /\ Busy(t)
    BY <1>2, WorkFrame
  <2>2. Alone(t)
    BY <2>1, AloneFromMemory DEF Running
  <2> QED
    BY <1>2, <2>2, WorkAlone, AloneNext
<1>3. CASE Call
  BY <1>3, CallMeetsNone, CallFrame, RestIsIdle, CallAlone, AloneNext
<1>4. CASE Recover
  <2>1. phase' # "up" /\ call' = call
    BY <1>4 DEF Recover, Restart, FinishRecovery, RequireRecovery,
       RecoverPosition, Resume, Recovering
  <2>2. RecoveryInv' /\ phase' = "ready"
    BY <1>4, <2>1, RecoverKeepsRecovery DEF Running
  <2>3. \A t \in Threads : ~Busy(t)'
    BY <2>2 DEF RecoveryInv
  <2>4. \A t \in Threads : call'[t] = IdleCall
    BY <2>1, <2>3, CallFacts DEF CallInv, Busy
  <2>5. \A t \in Threads : InHand(t)'
    BY <2>4, IdleFacts, NothingFacts DEF InHand, Now
  <2>6. \A k \in Keys : Matches(k)'
    BY <2>2 DEF RecoveryInv, Restored
  <2> QED
    BY <2>3, <2>5, <2>6 DEF MemoryInv
<1>5. CASE Environment
  BY <1>5, EnvironmentFrame, MemoryKept DEF Running
<1> QED
  BY <1>1, <1>2, <1>3, <1>4, <1>5 DEF Next

LEMMA MemoryInit == Init => MemoryInv
<1> SUFFICES ASSUME Init PROVE MemoryInv
  OBVIOUS
<1>1. \A t \in Threads : call[t] = IdleCall
  BY DEF Init
<1>2. \A k \in Keys : Matches(k)
  BY DEF Init, Matches, Up, NoRow
<1>3. \A t \in Threads : InHand(t) /\ ~Busy(t)
  BY <1>1, IdleInHand
<1> QED
  BY <1>2, <1>3 DEF MemoryInv

\* While the threads take turns, no row is at odds with its engine but the one
\* that a call is about to write.
TurnsInv == /\ Static /\ RecoveryInv
            /\ ~overlapped /\ Running => MemoryInv

\* While the threads take turns, memory and the rows differ in nothing but what
\* the call in hand is about to write.
THEOREM TurnsInvariant == Spec => []TurnsInv
<1>1. Init => TurnsInv
  BY StaticInit, RecoveryInit, MemoryInit DEF TurnsInv
<1>2. TurnsInv /\ [Next]_vars => TurnsInv'
  BY StaticStep, RecoveryStep, MemoryStep DEF TurnsInv
<1> QED
  BY <1>1, <1>2, PTL DEF Spec

\* The rows tell which engines run, under which id, in which mode and with or
\* without a position, when no call is under way and none ever met another
\* one (RowsTellEngines).
THEOREM RowsTellTheEngines == Spec => []RowsTellEngines
<1>1. TurnsInv => RowsTellEngines
  BY RestIsIdle
     DEF TurnsInv, RowsTellEngines, AtRest, Running, AllIdle, Matches
<1> QED
  BY <1>1, TurnsInvariant, PTL

-----------------------------------------------------------------------------
(* What a cycle knows of its family, while the threads take turns.         *)

\* A call that is no cycle, or a cycle that has yet to look at its family.
LEMMA NothingToSettle ==
  ASSUME Static', NEW t \in Threads,
         call'[t].kind # "cycle" \/ call'[t].stage = "evaluate"
  PROVE  Settling(t)'
<1>1. call'[t] \in CallRecords
  BY DEF Static, CallTypes
<1>2. StageOf(t)' \notin {"ensure", "confirm", "conclude"}
  BY <1>1 DEF StageOf, CallRecords
<1> QED
  BY <1>2 DEF Settling, OpenInv, ManualInv, RotationInv, WithdrawalInv

LEMMA IdleSettles ==
  ASSUME Static, Static', NEW t \in Threads, SetCall(t, IdleCall)
  PROVE  Settling(t)'
BY SetCallEffect, IdleFacts, NothingToSettle DEF Static

\* What the step of a command may do to rows and engines, for the cycle to
\* know its family as before.
ModeOf(k) == objects[Registered(k)].mode
RowsSettle(c) == \A j \in Keys :
  /\ rows'[j].profile = rows[j].profile \/ (j = c.key /\ c.do = "write")
  /\ \/ rows'[j].control = rows[j].control
     \/ rows'[j].control = "AUTO" /\ c.control = "AUTO"
  /\ \/ rows'[j].status = rows[j].status
     \/ rows'[j].status = "STOPPED" /\ ~Up(j)
     \/ /\ rows'[j].status = "RUNNING" /\ j = c.key /\ c.do = "write"
        /\ c.control = "AUTO" => rows'[j].control = "AUTO"
EnginesSettle(c) == \A j \in Keys :
  IF j = c.key /\ c.do = "stop_if_up" THEN ~Up(j)'
  ELSE /\ Up(j)' = Up(j)
       /\ Up(j) => ModeOf(j)' = IF j = c.key /\ c.do = "mode_if_up"
                                 THEN "EXITS_ONLY" ELSE ModeOf(j)
NextSettles(c, next) ==
  next # NoCommand => /\ next.key = c.key
                      /\ next.do \in {"mode", "sync", "write"} =>
                           c.do \in {"mode", "mode_if_up", "start", "sync"}

\* The command and its mode, at the stages of a cycle.
LEMMA CycleCommand ==
  ASSUME Static, NEW t \in Threads, NEW c \in Due(t), call[t].kind = "cycle"
  PROVE  /\ c.key \in Keys /\ c.key[1] = call[t].family
         /\ StageOf(t) = call[t].stage
         /\ StageOf(t) \in {"ensure", "confirm", "assess", "conclude"}
         /\ c.control = "AUTO" => StageOf(t) = "confirm"
         /\ c.control # "MANUAL"
         /\ StageOf(t) = "confirm" =>
              c.control = "AUTO" /\ c.do \in {"resolve", "start", "sync", "write"}
         /\ StageOf(t) = "ensure" =>
              c.do \in {"mode", "stop", "mark", "sync", "write"}
         /\ c.do \in {"stop", "mode"} /\ StageOf(t) = "ensure" =>
              c \in call[t].plan
         /\ StageOf(t) = "conclude" =>
              /\ c.do \in {"mode_if_up", "stop_if_up", "mark", "sync", "write"}
              /\ c.do \in {"mode_if_up", "stop_if_up"} <=> c \in call[t].plan
<1>1. /\ c.key \in Keys /\ call[t].stage \notin {"evaluate", "listing"}
      /\ \/ c = Now(t) /\ NowFits(t, c)
         \/ Now(t) = NoCommand /\ c \in call[t].plan /\ PlanFits(t, c)
  BY StaticDue
<1>2. StageOf(t) = call[t].stage /\ call[t].stage \in CycleStages
  BY CallFacts DEF CallInv, StageOf
<1>3. StageOf(t) \in {"ensure", "confirm", "assess", "conclude"}
  BY <1>1, <1>2 DEF CycleStages
<1> QED
  <2>1. \A d \in call[t].plan : PlanFits(t, d)
    BY CallFacts DEF CallInv
  <2> QED
    BY <1>1, <1>2, <1>3, <2>1, NoneAssumption
       DEF PlanFits, NowFits, MayPlan, MayRun, OfFamily, Deployable

LEMMA ThenSettles ==
  ASSUME Static, NEW t \in Threads, NEW c \in Due(t),
         NEW next \in Commands \cup {NoCommand}, Then(t, c, next),
         call[t].kind = "cycle", Settling(t), positions' = positions,
         NextSettles(c, next), RowsSettle(c),
         StageOf(t) = "conclude" => EnginesSettle(c)
  PROVE  Settling(t)'
<1>1. /\ SameHead(call'[t], call[t])
      /\ call'[t].plan = call[t].plan \ {c}
      /\ Now(t)' = next
  BY StaticThenEffect
<1>2. StageOf(t)' = StageOf(t) /\ Target(t)' = Target(t)
  BY <1>1 DEF StageOf, Target, SameHead
<1>3. /\ c.key \in Keys /\ c.key[1] = call[t].family
      /\ c \in call[t].plan \/ c = Now(t)
  BY CycleCommand, StaticDue
<1>4. OpenInv(t)'
  BY <1>1 DEF Settling, OpenInv, OpenKeys, SameHead
<1>5. CASE StageOf(t) = "ensure"
  <2>1. /\ c.control \notin {"AUTO", "MANUAL"}
        /\ c.do \in {"mode", "stop", "mark", "sync", "write"}
    BY <1>5, CycleCommand
  <2>2. rows[c.key].control = "AUTO"
    BY <1>3, <1>5, StaticDue, NothingFacts DEF Settling, ManualInv
  <2>3. \A j \in Keys : rows'[j].control = rows[j].control
    BY <2>1 DEF RowsSettle
  <2>4. ManualRows(call[t].family)' = {}
    <3>1. ManualRows(call[t].family) = {}
      BY <1>5 DEF Settling, ManualInv
    <3>2. \A j \in Keys :
            rows'[j].status = "RUNNING" /\ rows'[j].control = "MANUAL" =>
              rows[j].status = "RUNNING" /\ rows[j].control = "MANUAL"
      BY <2>2, <2>3 DEF RowsSettle
    <3> QED
      BY <1>1, <3>1, <3>2 DEF ManualRows, SameHead
  <2>5. /\ \A d \in call[t].plan : rows[d.key].control = "AUTO"
        /\ \A d \in call[t].plan : d.key \in Keys
    <3>1. \A d \in call[t].plan : d \in Commands
      BY CallFacts DEF CallRecords
    <3> QED
      BY <1>5, <3>1, NothingFacts DEF Settling, ManualInv
  <2>6. ManualInv(t)'
    BY <1>1, <1>2, <1>3, <1>5, <2>2, <2>3, <2>4, <2>5
       DEF ManualInv, SameHead, NextSettles
  <2>7. RotationInv(t)'
    <3>1. /\ \A d \in call[t].plan : d.do = "stop" =>
               \/ d.key \notin call[t].open
               \/ d.key = Target(t) /\ rows[d.key].profile # call[t].profile
          /\ \A d \in call[t].plan \cup {Now(t)} :
               d.do \in {"mode", "sync", "write"} => d.key # Target(t)
      BY <1>5 DEF Settling, RotationInv
    <3>2. c.do \in {"mode", "sync", "write"} => c.key # Target(t)
      BY <1>3, <3>1
    <3>3. next.do \in {"mode", "sync", "write"} => next.key # Target(t)
      BY <2>1, <3>2, NothingFacts DEF NextSettles
    <3>4. \A d \in call[t].plan : d.key = Target(t) =>
            rows'[d.key].profile = rows[d.key].profile
      BY <2>5, <3>2 DEF RowsSettle
    <3> QED
      BY <1>1, <1>2, <3>1, <3>3, <3>4 DEF RotationInv, SameHead
  <2>8. WithdrawalInv(t)'
    BY <1>2, <1>5 DEF WithdrawalInv
  <2> QED
    BY <1>4, <2>6, <2>7, <2>8 DEF Settling
<1>6. CASE StageOf(t) = "confirm"
  <2>1. c.control = "AUTO"
    BY <1>6, CycleCommand
  <2>2. ManualRows(call[t].family) = {}
    BY <1>6 DEF Settling, ManualInv
  <2>3. \A j \in Keys :
          rows'[j].status = "RUNNING" /\ rows'[j].control = "MANUAL" =>
            rows[j].status = "RUNNING" /\ rows[j].control = "MANUAL"
    BY <2>1 DEF RowsSettle
  <2>4. ManualRows(call[t].family)' = {}
    BY <1>1, <2>2, <2>3 DEF ManualRows, SameHead
  <2> QED
    BY <1>1, <1>2, <1>4, <1>6, <2>4
       DEF Settling, ManualInv, RotationInv, WithdrawalInv, SameHead
<1>7. CASE StageOf(t) = "assess"
  BY <1>2, <1>4, <1>7
     DEF Settling, ManualInv, RotationInv, WithdrawalInv
<1>8. CASE StageOf(t) = "conclude"
  <2> DEFINE f == call[t].family
             said == call[t].risk
  <2>1. c.control # "AUTO"
    BY <1>8, CycleCommand
  <2>2. \A j \in Keys : rows'[j].control = rows[j].control
    BY <2>1 DEF RowsSettle
  <2>3. c \in call[t].plan \/ Now(t) # NoCommand
    BY <1>3, StaticDue, NothingFacts
  <2>4. /\ call[t].state # "AUTO_DEPLOYED"
        /\ said \in {"NO_OPEN_RISK", "EXITS_ONLY", "UNMANAGED_OPEN_RISK"}
        /\ said = "NO_OPEN_RISK" <=> call[t].open = {}
        /\ said = "EXITS_ONLY" =>
             \A k \in call[t].open : k \in AutoRows(f) /\ Up(k)
        /\ \A d \in call[t].plan :
             /\ d.do = "stop_if_up" =>
                  d.key \notin call[t].open \/ said = "UNMANAGED_OPEN_RISK"
             /\ d.do = "mode_if_up" => said = "EXITS_ONLY"
        /\ \A k \in Keys : k[1] = f /\ Up(k) /\ rows[k].control = "AUTO" =>
             \/ /\ objects[Registered(k)].mode = "EXITS_ONLY"
                /\ said = "EXITS_ONLY"
             \/ \E d \in call[t].plan : d.key = k
    BY <1>8, <2>3 DEF Settling, WithdrawalInv, Planned
  <2>5. said = "EXITS_ONLY" =>
          \A k \in call[t].open : k \in AutoRows(f)' /\ Up(k)'
    <3> SUFFICES ASSUME said = "EXITS_ONLY", NEW k \in call[t].open
                 PROVE  k \in AutoRows(f)' /\ Up(k)'
      BY <1>1 DEF SameHead
    <3>1. k \in Keys /\ k[1] = f /\ rows[k].status = "RUNNING"
          /\ rows[k].control = "AUTO" /\ Up(k)
      BY <2>4 DEF AutoRows
    <3>2. rows'[k].status = "RUNNING" /\ rows'[k].control = "AUTO"
      BY <2>2, <3>1 DEF RowsSettle
    <3>3. Up(k)'
      BY <1>8, <2>4, <3>1, CycleCommand DEF EnginesSettle
    <3> QED
      BY <1>1, <3>1, <3>2, <3>3 DEF AutoRows, SameHead
  <2>6. \A k \in Keys : k[1] = f /\ Up(k)' /\ rows'[k].control = "AUTO" =>
          \/ ModeOf(k)' = "EXITS_ONLY" /\ said = "EXITS_ONLY"
          \/ \E d \in call'[t].plan : d.key = k
    <3> SUFFICES ASSUME NEW k \in Keys, k[1] = f, Up(k)',
                        rows'[k].control = "AUTO"
                 PROVE  \/ ModeOf(k)' = "EXITS_ONLY" /\ said = "EXITS_ONLY"
                        \/ \E d \in call'[t].plan : d.key = k
      OBVIOUS
    <3>1. rows[k].control = "AUTO"
      BY <2>2
    <3>2. Up(k)
      BY <1>8 DEF EnginesSettle
    <3>3. \/ ModeOf(k) = "EXITS_ONLY" /\ said = "EXITS_ONLY"
          \/ \E d \in call[t].plan : d.key = k
      BY <2>4, <3>1, <3>2 DEF ModeOf
    <3>4. CASE k = c.key /\ c.do = "mode_if_up"
      <4>1. c \in call[t].plan
        BY <1>8, <3>4, CycleCommand
      <4>2. ModeOf(k)' = "EXITS_ONLY"
        BY <1>8, <3>2, <3>4 DEF EnginesSettle
      <4> QED
        BY <2>4, <3>4, <4>1, <4>2
    <3>5. CASE ~(k = c.key /\ c.do = "mode_if_up")
      <4>1. ModeOf(k)' = ModeOf(k) /\ ~(k = c.key /\ c.do = "stop_if_up")
        BY <1>8, <3>2, <3>5 DEF EnginesSettle
      <4>2. (\E d \in call[t].plan : d.key = k) =>
              \E d \in call'[t].plan : d.key = k
        BY <1>1, <1>8, <3>5, <4>1, CycleCommand
      <4> QED
        BY <3>3, <4>1, <4>2
    <3> QED
      BY <3>4, <3>5
  <2>7. WithdrawalInv(t)'
    BY <1>1, <1>2, <2>4, <2>5, <2>6 DEF WithdrawalInv, ModeOf, SameHead
  <2> QED
    BY <1>2, <1>4, <1>8, <2>7 DEF Settling, ManualInv, RotationInv
<1> QED
  BY <1>5, <1>6, <1>7, <1>8, CycleCommand

LEMMA SameRowsSettle ==
  ASSUME rows' = rows, NEW c
  PROVE  RowsSettle(c)
BY DEF RowsSettle

LEMMA SameEnginesSettle ==
  ASSUME UNCHANGED <<engines, objects>>, NEW c,
         c.do \in {"stop_if_up", "mode_if_up"} => ~Up(c.key)
  PROVE  EnginesSettle(c)
BY DEF EnginesSettle, ModeOf, Up, Registered

\* A command of a cycle is over.
LEMMA DoneSettles ==
  ASSUME Static, NEW t \in Threads, NEW c \in Due(t), Done(t, c),
         call[t].kind = "cycle", Settling(t), positions' = positions,
         RowsSettle(c), StageOf(t) = "conclude" => EnginesSettle(c)
  PROVE  Settling(t)'
BY ThenSettles DEF Done, NextSettles

LEMMA ResolveSettles ==
  ASSUME Static, Static', NEW t \in Threads, NEW c \in Due(t),
         call[t].kind = "cycle", Settling(t), Resolve(t, c)
  PROVE  Settling(t)'
<1>1. c.do = "resolve" /\ c \in Commands /\ c.key \in Keys
  BY StaticDue DEF Resolve, Does
<1>2. CASE StartRefused(c.key, c.mode)
  BY <1>2, IdleSettles DEF Resolve, Raise
<1>3. CASE ~StartRefused(c.key, c.mode)
  <2>1. DefaultMode(c.key) \in Modes
    BY <1>1, ModeFacts DEF Modes
  <2>2. PICK d \in Commands :
          d = [c EXCEPT !.do = "start",
                 !.mode = IF @ = None THEN DefaultMode(c.key) ELSE @]
    BY <1>1, <2>1 DEF Commands
  <2>3. d.do = "start" /\ d.key = c.key
    BY <1>1, <2>2 DEF Commands
  <2>4. NextSettles(c, d)
    BY <2>3 DEF NextSettles
  <2>5. Then(t, c, d) /\ rows' = rows /\ positions' = positions
    BY <1>3, <2>2 DEF Resolve, risk
  <2>6. StageOf(t) # "conclude"
    BY <1>1, CycleCommand
  <2> QED
    BY <2>4, <2>5, <2>6, SameRowsSettle, ThenSettles
<1> QED
  BY <1>2, <1>3

LEMMA StartSettles ==
  ASSUME Static, Static', NEW t \in Threads, NEW c \in Due(t),
         call[t].kind = "cycle", Settling(t), Start(t, c)
  PROVE  Settling(t)'
<1>1. c.do = "start" /\ c \in Commands /\ c.key \in Keys
  BY StaticDue DEF Start, Does
<1>2. CASE Up(c.key)
  BY <1>2, IdleSettles DEF Start, Raise
<1>3. CASE ~Up(c.key)
  <2>1. PICK i \in Ids : i = NewId(c.key)
    BY <1>1, <1>3, NewIdFacts DEF Start
  <2>2. PICK d \in Commands : d = [c EXCEPT !.do = "sync", !.id = i]
    BY <1>1, <2>1 DEF Commands
  <2>3. d.do = "sync" /\ d.key = c.key
    BY <1>1, <2>2 DEF Commands
  <2>4. NextSettles(c, d)
    BY <1>1, <2>3 DEF NextSettles
  <2>5. Then(t, c, d) /\ rows' = rows /\ positions' = positions
    BY <1>3, <2>1, <2>2 DEF Start, risk
  <2>6. StageOf(t) # "conclude"
    BY <1>1, CycleCommand
  <2> QED
    BY <2>4, <2>5, <2>6, SameRowsSettle, ThenSettles
<1> QED
  BY <1>2, <1>3

LEMMA SetModeSettles ==
  ASSUME Static, Static', NEW t \in Threads, NEW c \in Due(t),
         call[t].kind = "cycle", Settling(t), SetMode(t, c)
  PROVE  Settling(t)'
<1>1. c.do \in {"mode", "mode_if_up"} /\ c \in Commands /\ c.key \in Keys
      /\ rows' = rows /\ positions' = positions /\ engines' = engines
  BY StaticDue DEF SetMode, Does, risk
<1>2. RowsSettle(c)
  BY <1>1, SameRowsSettle
<1>3. CASE ~Up(c.key)
  <2>1. CASE c.do = "mode"
    BY <1>3, <2>1, IdleSettles DEF SetMode, Raise
  <2>2. CASE c.do = "mode_if_up"
    BY <1>1, <1>2, <1>3, <2>2, SameEnginesSettle, DoneSettles DEF SetMode
  <2> QED
    BY <1>1, <2>1, <2>2
<1>4. CASE Up(c.key)
  <2>1. PICK i \in Ids : i = engines[c.key]
    BY <1>1 DEF Static, EngineTypes
  <2>2. PICK d \in Commands : d = [c EXCEPT !.do = "sync", !.id = i]
    BY <1>1, <2>1 DEF Commands
  <2>3. d.do = "sync" /\ d.key = c.key
    BY <1>1, <2>2 DEF Commands
  <2>4. NextSettles(c, d)
    BY <1>1, <2>3 DEF NextSettles
  <2>5. PICK o : o = [objects[<<c.key, i>>] EXCEPT !.mode = c.mode]
    OBVIOUS
  <2>6. Then(t, c, d) /\ objects' = [objects EXCEPT ![<<c.key, i>>] = o]
    <3>1. objects' = [objects EXCEPT ![<<c.key, i>>].mode = c.mode]
          /\ Then(t, c, d)
      BY <1>4, <2>1, <2>2 DEF SetMode, Registered
    <3> QED
      BY <2>5, <3>1
  <2>7. ASSUME StageOf(t) = "conclude"
        PROVE  EnginesSettle(c)
    <3>1. c \in call[t].plan /\ c.do = "mode_if_up"
      BY <1>1, <2>7, CycleCommand
    <3>2. c.mode = "EXITS_ONLY"
      BY <3>1, CallFacts DEF CallInv, PlanFits
    <3>3. \A j \in Keys : j # c.key => ModeOf(j)' = ModeOf(j)
      <4>1. \A j \in Keys : engines[j] \in Ids
        BY DEF Static, EngineTypes
      <4> QED
        BY <1>1, <2>6, <4>1 DEF Static, ObjectTypes, ModeOf, Registered
    <3>4. ModeOf(c.key)' = "EXITS_ONLY"
      <4>1. objects'[<<c.key, i>>] = o
        BY <1>1, <2>6 DEF Static, ObjectTypes
      <4>2. o.mode = c.mode
        BY <1>1, <2>5, ObjectFacts DEF ObjectRecords
      <4> QED
        BY <1>1, <2>1, <3>2, <4>1, <4>2 DEF ModeOf, Registered
    <3>5. \A j \in Keys : Up(j)' = Up(j)
      BY <1>1 DEF Up
    <3> QED
      BY <3>1, <3>3, <3>4, <3>5 DEF EnginesSettle
  <2> QED
    BY <1>1, <1>2, <2>4, <2>6, <2>7, ThenSettles
<1> QED
  BY <1>3, <1>4

LEMMA StopSettles ==
  ASSUME Static, Static', NEW t \in Threads, NEW c \in Due(t),
         call[t].kind = "cycle", Settling(t), Stop(t, c)
  PROVE  Settling(t)'
<1>1. c.do \in {"stop", "stop_if_up"} /\ c \in Commands /\ c.key \in Keys
      /\ rows' = rows /\ positions' = positions /\ objects' = objects
  BY StaticDue DEF Stop, Does, risk
<1>2. RowsSettle(c)
  BY <1>1, SameRowsSettle
<1>3. CASE ~Up(c.key)
  <2>1. CASE c.do = "stop"
    BY <1>3, <2>1, IdleSettles DEF Stop, Raise
  <2>2. CASE c.do = "stop_if_up"
    BY <1>1, <1>2, <1>3, <2>2, SameEnginesSettle, DoneSettles DEF Stop
  <2> QED
    BY <1>1, <2>1, <2>2
<1>4. CASE Up(c.key)
  <2>1. PICK i \in Ids : i = engines[c.key]
    BY <1>1 DEF Static, EngineTypes
  <2>2. PICK d \in Commands : d = [c EXCEPT !.do = "mark", !.id = i]
    BY <1>1, <2>1 DEF Commands
  <2>3. d.do = "mark" /\ d.key = c.key
    BY <1>1, <2>2 DEF Commands
  <2>4. NextSettles(c, d)
    BY <2>3 DEF NextSettles
  <2>5. Then(t, c, d) /\ engines' = [engines EXCEPT ![c.key] = 0]
    BY <1>4, <2>1, <2>2 DEF Stop
  <2>6. ASSUME StageOf(t) = "conclude"
        PROVE  EnginesSettle(c)
    <3>1. c.do = "stop_if_up"
      BY <1>1, <2>6, CycleCommand
    <3>2. engines'[c.key] = 0
          /\ \A j \in Keys : j # c.key => engines'[j] = engines[j]
      BY <1>1, <2>5 DEF Static, EngineTypes
    <3> QED
      BY <1>1, <3>1, <3>2 DEF EnginesSettle, Up, ModeOf, Registered
  <2> QED
    BY <1>1, <1>2, <2>4, <2>5, <2>6, ThenSettles
<1> QED
  BY <1>3, <1>4

LEMMA MarkSettles ==
  ASSUME Static, NEW t \in Threads, NEW c \in Due(t), Alone(t),
         call[t].kind = "cycle", Settling(t), Mark(t, c)
  PROVE  Settling(t)'
<1>1. c \in Commands /\ c.key \in Keys /\ c.id \in Ids /\ c.do = "mark"
  BY StaticDue DEF Commands, Mark, Does
<1>2. ~Up(c.key) /\ rows[c.key].id = c.id
  BY <1>1, HandDue DEF Marking
<1>3. PICK r : r = StoppedRow(rows[c.key])
  OBVIOUS
<1>4. rows' = [rows EXCEPT ![c.key] = r] /\ engines' = engines
      /\ positions' = positions /\ Done(t, c)
      /\ \/ objects' = objects
         \/ objects' = [objects EXCEPT ![<<c.key, c.id>>] = NoObject]
  BY <1>2, <1>3 DEF Mark, Marked, risk
<1>5. /\ r.status = "STOPPED" /\ r.profile = rows[c.key].profile
      /\ r.control = rows[c.key].control
  BY <1>1, <1>3, RowFacts DEF StoppedRow, RowRecords
<1>6. rows'[c.key] = r /\ \A j \in Keys : j # c.key => rows'[j] = rows[j]
  BY <1>1, <1>4 DEF Static, RowTypes
<1>7. RowsSettle(c)
  BY <1>2, <1>5, <1>6 DEF RowsSettle
<1>8. EnginesSettle(c)
  <2>1. Spares(c.key)
    <3>1. PICK o : o = NoObject
      OBVIOUS
    <3> QED
      BY <1>1, <1>4, <3>1, EngineSpares
  <2>2. \A j \in Keys : Up(j)' = Up(j)
    BY <1>4 DEF Up
  <2>3. \A j \in Keys : Up(j) => ModeOf(j)' = ModeOf(j)
    <3>1. \A j \in Keys : engines[j] \in Ids
      BY DEF Static, EngineTypes
    <3> QED
      BY <1>2, <1>4, <2>1, <3>1 DEF ModeOf, Registered, Spares
  <2> QED
    BY <1>1, <2>2, <2>3 DEF EnginesSettle
<1> QED
  BY <1>4, <1>7, <1>8, DoneSettles

LEMMA SyncSettles ==
  ASSUME Static, Static', NEW t \in Threads, NEW c \in Due(t),
         call[t].kind = "cycle", Settling(t), Sync(t, c)
  PROVE  Settling(t)'
<1>1. c.do = "sync" /\ UNCHANGED <<rows, engines, objects, positions>>
      /\ c \in Commands /\ c.key \in Keys /\ c.id \in Ids
  BY StaticDue DEF Sync, Does, memory, risk, Commands
<1>2. CASE ~Up(c.key)
  BY <1>2, IdleSettles DEF Sync, Raise, Up
<1>3. CASE Up(c.key)
  <2>1. PICK i \in Ids : i = engines[c.key]
    BY <1>1 DEF Static, EngineTypes
  <2>2. PICK l \in BOOLEAN :
          l = (objects[<<c.key, c.id>>].holds \/ objects[<<c.key, i>>].holds)
    OBVIOUS
  <2>3. PICK d \in Commands :
          d = [c EXCEPT !.do = "write", !.id = i, !.mode = @, !.linked = l]
    BY <1>1, <2>1 DEF Commands
  <2>4. d.do = "write" /\ d.key = c.key
    BY <1>1, <2>3 DEF Commands
  <2>5. Then(t, c, d)
    <3>1. Then(t, c, [c EXCEPT !.do = "write", !.id = i, !.mode = @,
                        !.linked = objects[<<c.key, c.id>>].holds
                                     \/ objects[<<c.key, i>>].holds])
      BY <1>3, <2>1 DEF Sync, Up
    <3> QED
      BY <2>2, <2>3, <3>1
  <2>6. NextSettles(c, d)
    BY <1>1, <2>4 DEF NextSettles
  <2>7. RowsSettle(c) /\ EnginesSettle(c)
    BY <1>1, SameRowsSettle, SameEnginesSettle
  <2> QED
    BY <1>1, <2>5, <2>6, <2>7, ThenSettles
<1> QED
  BY <1>2, <1>3

LEMMA WriteSettles ==
  ASSUME Static, NEW t \in Threads, NEW c \in Due(t),
         call[t].kind = "cycle", Settling(t), Write(t, c)
  PROVE  Settling(t)'
<1>1. c.do = "write" /\ UNCHANGED <<engines, objects, positions>>
      /\ c \in Commands /\ c.key \in Keys /\ Done(t, c)
      /\ rows' = [rows EXCEPT ![c.key] = SyncedRow(c.key, c)]
  BY StaticDue DEF Write, Does, memory, risk
<1>2. PICK r : r = SyncedRow(c.key, c)
  OBVIOUS
<1>3. /\ r.status = "RUNNING"
      /\ r.control = IF c.control = None THEN rows[c.key].control
                                          ELSE c.control
      /\ c.control \in {"AUTO", None}
  <2>1. c.control \in {"AUTO", "MANUAL", None} /\ c.control # "MANUAL"
    BY <1>1, CycleCommand DEF Commands
  <2> QED
    BY <1>1, <1>2, <2>1, SyncedRowFacts
<1>4. rows'[c.key] = r /\ \A j \in Keys : j # c.key => rows'[j] = rows[j]
  BY <1>1, <1>2 DEF Static, RowTypes
<1>5. RowsSettle(c)
  BY <1>1, <1>3, <1>4, NoneAssumption DEF RowsSettle
<1>6. EnginesSettle(c)
  BY <1>1, SameEnginesSettle
<1> QED
  BY <1>1, <1>5, <1>6, DoneSettles

\* What the plans are made for.
LEMMA WithdrawalKeys ==
  ASSUME NEW f, NEW open, NEW eligible, NEW k \in AutoRows(f)
  PROVE  \E c \in WithdrawalCommands(f, open, eligible) : c.key = k
<1>1. /\ Command("mode_if_up", k, 0, "EXITS_ONLY", None).key = k
      /\ Command("stop_if_up", k, 0, None, None).key = k
  BY CommandFacts
<1>2. CASE Retained(f, open, eligible) /\ k \in open
  BY <1>1, <1>2 DEF WithdrawalCommands
<1>3. CASE ~(Retained(f, open, eligible) /\ k \in open)
  BY <1>1, <1>3 DEF WithdrawalCommands
<1> QED
  BY <1>2, <1>3

LEMMA RiskFacts ==
  ASSUME NEW f, NEW open, NEW eligible
  PROVE  LET said == WithdrawalRisk(f, open, eligible)
         IN  /\ said \in {"NO_OPEN_RISK", "EXITS_ONLY", "UNMANAGED_OPEN_RISK"}
             /\ said = "NO_OPEN_RISK" <=> open = {}
             /\ said = "EXITS_ONLY" <=> Retained(f, open, eligible)
             /\ Retained(f, open, eligible) =>
                  \A k \in open : k \in AutoRows(f) /\ Up(k)
BY DEF WithdrawalRisk, Retained, Unprotected

LEMMA EvaluateSettles ==
  ASSUME Static, NEW t \in Threads, Alone(t), Evaluate(t)
  PROVE  Settling(t)'
<1> DEFINE f == call[t].family
           open == OpenKeys(f)
<1>1. PICK view \in Views, i \in Instruments, eligible \in SUBSET Instruments :
        /\ call'[t] \in CallRecords
        /\ call'[t].kind = "cycle" /\ call'[t].family = f
        /\ call'[t].now = NoCommand
        /\ call'[t].instrument = i
        /\ call'[t].open = open
        /\ \/ Withdraws(t, view, i, eligible)
           \/ LeavesToOperator(t)
           \/ Deploys(t, i)
  BY EvaluateEffect
<1>2. UNCHANGED <<rows, engines, objects, positions>>
  BY DEF Evaluate, memory, risk
<1>3. Planned(t) /\ \A k \in Keys : Matches(k)
  BY CallFacts, PlannedDo, PlannedMatches DEF Evaluate, InCycle, CallInv
<1>4. OpenInv(t)'
  BY <1>1, <1>2 DEF OpenInv, OpenKeys
<1>5. StageOf(t)' = call'[t].stage /\ Now(t)' = NoCommand
  BY <1>1 DEF StageOf, Now
<1>6. CASE Withdraws(t, view, i, eligible)
  <2> DEFINE said == WithdrawalRisk(f, open, eligible)
  <2>1. /\ call'[t].stage = "conclude" /\ call'[t].state # "AUTO_DEPLOYED"
        /\ call'[t].plan = WithdrawalCommands(f, open, eligible)
        /\ call'[t].risk = said
    BY <1>1, <1>6 DEF Withdraws
  <2>2. /\ said \in {"NO_OPEN_RISK", "EXITS_ONLY", "UNMANAGED_OPEN_RISK"}
        /\ said = "NO_OPEN_RISK" <=> open = {}
        /\ said = "EXITS_ONLY" <=> Retained(f, open, eligible)
        /\ said = "EXITS_ONLY" =>
             \A k \in open : k \in AutoRows(f) /\ Up(k)
    BY RiskFacts
  <2>3. \A c \in call'[t].plan :
          /\ c.do = "stop_if_up" =>
               c.key \notin open \/ said = "UNMANAGED_OPEN_RISK"
          /\ c.do = "mode_if_up" => said = "EXITS_ONLY"
    BY <2>1, <2>2, WithdrawalPlan
  <2>4. \A k \in Keys : k[1] = f /\ Up(k) /\ rows[k].control = "AUTO" =>
          \E c \in call'[t].plan : c.key = k
    BY <1>3, <2>1, WithdrawalKeys DEF Matches, AutoRows
  <2>5. \A g, k : AutoRows(g)' = AutoRows(g) /\ Up(k)' = Up(k)
    BY <1>2 DEF AutoRows, Up
  <2> HIDE DEF said, open
  <2>6. WithdrawalInv(t)'
    BY <1>1, <1>2, <2>1, <2>2, <2>3, <2>4, <2>5 DEF WithdrawalInv
  <2> QED
    BY <1>4, <1>5, <2>1, <2>6 DEF Settling, ManualInv, RotationInv
<1>7. CASE LeavesToOperator(t)
  <2>1. WithdrawalInv(t)'
    BY <1>1, <1>2, <1>5, <1>7
       DEF LeavesToOperator, WithdrawalInv, Planned, ManualRows
  <2> QED
    BY <1>4, <1>5, <1>7, <2>1
       DEF Settling, ManualInv, RotationInv, LeavesToOperator
<1>8. CASE Deploys(t, i)
  <2>1. /\ call'[t].stage = "ensure" /\ ManualRows(f) = {}
        /\ call'[t].plan = RotationCommands(f, i, call'[t].profile, open)
    BY <1>1, <1>8 DEF Deploys
  <2>2. Target(t)' = <<f, i>>
    BY <1>1 DEF Target
  <2>3. \A c \in call'[t].plan :
          /\ rows[c.key].control = "AUTO"
          /\ c.do = "stop" => \/ c.key \notin open
                              \/ /\ c.key = <<f, i>>
                                 /\ rows[c.key].profile # call'[t].profile
          /\ c.do \in {"mode", "sync", "write"} => c.key # <<f, i>>
    <3> SUFFICES ASSUME NEW c \in call'[t].plan
                 PROVE  /\ rows[c.key].control = "AUTO"
                        /\ c.do = "stop" =>
                             \/ c.key \notin open
                             \/ /\ c.key = <<f, i>>
                                /\ rows[c.key].profile # call'[t].profile
                        /\ c.do \in {"mode", "sync", "write"} =>
                             c.key # <<f, i>>
      OBVIOUS
    <3>1. /\ c.key \in AutoRows(f) /\ c.key[1] = f
          /\ \/ /\ c.do = "mode" /\ c.key[2] # i
             \/ /\ c.do = "stop"
                /\ \/ c.key[2] # i /\ c.key \notin open
                   \/ c.key[2] = i /\ rows[c.key].profile # call'[t].profile
      BY <2>1, RotationPlan
    <3>2. c.key \in Keys /\ rows[c.key].control = "AUTO"
      BY <3>1 DEF AutoRows
    <3>3. c.key = <<c.key[1], c.key[2]>>
      BY <3>2 DEF Keys
    <3> QED
      BY <3>1, <3>2, <3>3
  <2>4. ManualInv(t)'
    BY <1>1, <1>2, <1>5, <2>1, <2>3 DEF ManualInv, ManualRows
  <2>5. RotationInv(t)'
    BY <1>1, <1>2, <1>5, <2>1, <2>2, <2>3, NothingFacts DEF RotationInv
  <2> QED
    BY <1>4, <1>5, <2>1, <2>4, <2>5 DEF Settling, WithdrawalInv
<1> QED
  BY <1>1, <1>6, <1>7, <1>8

LEMMA EnsureSettles ==
  ASSUME Static, NEW t \in Threads, Settling(t), Ensure(t)
  PROVE  Settling(t)'
<1>1. /\ SameHead([call'[t] EXCEPT !.stage = call[t].stage], call[t])
      /\ call'[t].stage = "confirm" /\ call[t] \in CallRecords
      /\ call'[t] = [call[t] EXCEPT !.stage = "confirm", !.now = call'[t].now]
  BY EnsureEffect
<1>2. /\ call'[t].kind = "cycle" /\ call'[t].family = call[t].family
      /\ call'[t].open = call[t].open /\ StageOf(t) = "ensure"
      /\ call[t].kind = "cycle"
  BY <1>1 DEF Ensure, InCycle, StageOf, CallRecords
<1>3. UNCHANGED <<rows, positions>>
  BY DEF Ensure, risk
<1>4. StageOf(t)' = "confirm"
  BY <1>1, <1>2 DEF StageOf
<1>5. OpenInv(t)'
  BY <1>2, <1>3 DEF Settling, OpenInv, OpenKeys, StageOf
<1>6. ManualRows(call[t].family)' = {}
  BY <1>2, <1>3 DEF Settling, ManualInv, ManualRows
<1> QED
  BY <1>4, <1>5, <1>6 DEF Settling, ManualInv, RotationInv, WithdrawalInv

LEMMA ConfirmSettles ==
  ASSUME Static, NEW t \in Threads, Settling(t), Confirm(t)
  PROVE  Settling(t)'
<1>1. /\ call'[t].stage = "assess" /\ call[t] \in CallRecords
      /\ call'[t] = [call[t] EXCEPT !.stage = "assess", !.now = call'[t].now]
  BY ConfirmEffect
<1>2. /\ call'[t].kind = "cycle" /\ call'[t].family = call[t].family
      /\ call'[t].open = call[t].open /\ StageOf(t) = "confirm"
      /\ call[t].kind = "cycle"
  BY <1>1 DEF Confirm, InCycle, StageOf, CallRecords
<1>3. UNCHANGED positions
  BY DEF Confirm, risk
<1>4. StageOf(t)' = "assess"
  BY <1>1, <1>2 DEF StageOf
<1>5. OpenInv(t)'
  BY <1>2, <1>3 DEF Settling, OpenInv, OpenKeys, StageOf
<1> QED
  BY <1>4, <1>5 DEF Settling, ManualInv, RotationInv, WithdrawalInv

LEMMA ConcludeSettles ==
  ASSUME Static, Static', NEW t \in Threads, Assess(t) \/ Settle(t)
  PROVE  Settling(t)'
<1>1. PICK r : Conclude(t, r) /\ call[t].kind = "cycle"
  BY DEF Assess, Settle, InCycle
<1>2. CASE call[t].family = FamilyCount
  BY <1>1, <1>2, IdleSettles DEF Conclude
<1>3. CASE call[t].family # FamilyCount
  <2>1. call[t].family + 1 \in Families
    BY <1>1, <1>3, CycleFacts, FamilyFacts
  <2>2. PICK x : x = [IdleCall EXCEPT !.kind = "cycle", !.stage = "evaluate",
                                      !.family = call[t].family + 1]
    OBVIOUS
  <2>3. SetCall(t, x)
    BY <1>1, <1>3, <2>2 DEF Conclude
  <2>4. x.stage = "evaluate"
    BY <2>1, <2>2, EvaluationCall
  <2>5. call'[t] = x
    BY <2>3, SetCallEffect DEF Static
  <2> QED
    BY <2>4, <2>5, NothingToSettle
<1> QED
  BY <1>2, <1>3

LEMMA ThenKind ==
  ASSUME Static, NEW t \in Threads, NEW c, NEW next, Then(t, c, next)
  PROVE  call'[t].kind = call[t].kind
<1>1. PICK x : x = [call[t] EXCEPT !.plan = @ \ {c}, !.now = next]
  OBVIOUS
<1>2. call'[t] = x
  BY <1>1, SetCallEffect DEF Then, Static
<1> QED
  BY <1>1, <1>2, CallFacts DEF CallRecords

LEMMA RaiseKind ==
  ASSUME Static, NEW t \in Threads, Raise(t)
  PROVE  call'[t].kind = "idle"
BY SetCallEffect, IdleFacts DEF Raise, Static

LEMMA TradeFacts ==
  ASSUME Static, NEW c \in Due("loop"), c.do = "trade"
  PROVE  call["loop"].kind = "price" /\ "loop" \in Threads
<1>1. StageOf("loop") = "price" /\ "loop" \in Threads
  BY StaticDue DEF Threads, PlanFits, NowFits, MayPlan, MayRun
<1> QED
  BY <1>1, CallFacts DEF StageOf, CallInv, CycleStages

\* A call that is no cycle does not become one.
LEMMA CycleKind ==
  ASSUME Static, NEW t \in Threads, Work(t), call[t].kind # "cycle"
  PROVE  call'[t].kind # "cycle"
<1>1. ASSUME NEW c, Done(t, c) \/ \E next : Then(t, c, next)
      PROVE  call'[t].kind # "cycle"
  BY <1>1, ThenKind DEF Done
<1>2. ASSUME Raise(t)
      PROVE  call'[t].kind # "cycle"
  BY <1>2, RaiseKind
<1>3. ~Plan(t)
  BY DEF Plan, Evaluate, Ensure, Confirm, Assess, Settle, InCycle
<1>4. CASE Execute(t)
  <2>1. CASE Finish(t)
    BY <2>1, SetCallEffect, IdleFacts DEF Finish, Static
  <2>2. ASSUME NEW c \in Due(t), Resolve(t, c)
        PROVE  call'[t].kind # "cycle"
    BY <1>1, <1>2, <2>2 DEF Resolve
  <2>3. ASSUME NEW c \in Due(t), Start(t, c)
        PROVE  call'[t].kind # "cycle"
    BY <1>1, <1>2, <2>3 DEF Start
  <2>4. ASSUME NEW c \in Due(t), SetMode(t, c)
        PROVE  call'[t].kind # "cycle"
    BY <1>1, <1>2, <2>4 DEF SetMode
  <2>5. ASSUME NEW c \in Due(t), Stop(t, c)
        PROVE  call'[t].kind # "cycle"
    BY <1>1, <1>2, <2>5 DEF Stop
  <2>6. ASSUME NEW c \in Due(t), Mark(t, c) \/ Write(t, c)
        PROVE  call'[t].kind # "cycle"
    BY <1>1, <2>6 DEF Mark, Write
  <2>7. ASSUME NEW c \in Due(t), Sync(t, c)
        PROVE  call'[t].kind # "cycle"
    BY <1>1, <1>2, <2>7 DEF Sync
  <2> QED
    BY <1>4, <2>1, <2>2, <2>3, <2>4, <2>5, <2>6, <2>7 DEF Execute
<1>5. CASE t = "loop" /\ Trade
  BY <1>1, <1>5 DEF Trade, Enter, Exit, Decline
<1>6. CASE t = "beside" /\ Supervise
  <2>1. CASE ListPass
    BY <1>6, <2>1, ListEffect
  <2>2. ASSUME NEW c \in Due("beside"), Attach(c)
        PROVE  call'[t].kind # "cycle"
    BY <1>1, <1>2, <1>6, <2>2 DEF Attach
  <2>3. ASSUME NEW c \in Due("beside"),
               CloseMissing(c) \/ ForceIntent(c) \/ Detach(c)
        PROVE  call'[t].kind # "cycle"
    BY <1>1, <1>2, <1>6, <2>3 DEF CloseMissing, ForceIntent, Detach
  <2> QED
    BY <1>6, <2>1, <2>2, <2>3 DEF Supervise
<1> QED
  BY <1>3, <1>4, <1>5, <1>6 DEF Work

LEMMA WorkSettles ==
  ASSUME Static, Static', NEW t \in Threads, Alone(t), Settling(t), Work(t)
  PROVE  Settling(t)'
<1>1. CASE call[t].kind # "cycle"
  BY <1>1, CycleKind, NothingToSettle
<1>2. CASE call[t].kind = "cycle"
  <2>1. CASE Plan(t)
    BY <2>1, EvaluateSettles, EnsureSettles, ConfirmSettles, ConcludeSettles
       DEF Plan
  <2>2. CASE Execute(t)
    <3>1. ~Finish(t)
      BY <1>2 DEF Finish
    <3>2. ASSUME NEW c \in Due(t),
                 \/ Resolve(t, c) \/ Start(t, c) \/ SetMode(t, c)
                 \/ Stop(t, c) \/ Mark(t, c) \/ Sync(t, c) \/ Write(t, c)
          PROVE  Settling(t)'
      BY <1>2, <3>2, ResolveSettles, StartSettles, SetModeSettles, StopSettles,
         MarkSettles, SyncSettles, WriteSettles
    <3> QED
      BY <2>2, <3>1, <3>2 DEF Execute
  <2>3. ~(t = "loop" /\ Trade)
    BY <1>2, TradeFacts DEF Trade, Enter, Exit, Decline, Does
  <2>4. ~(t = "beside" /\ Supervise)
    <3>1. t = "beside" => ~ListPass
      BY <1>2, CallFacts DEF ListPass, CallInv
    <3> QED
      BY <1>2, <3>1, SuperviseFacts
         DEF Supervise, Attach, CloseMissing, ForceIntent, Detach, Does
  <2> QED
    BY <2>1, <2>2, <2>3, <2>4 DEF Work
<1> QED
  BY <1>1, <1>2

LEMMA SettlingKept ==
  ASSUME NEW t, Settling(t),
         UNCHANGED <<rows, engines, objects, positions, call>>
  PROVE  Settling(t)'
<1>1. /\ StageOf(t)' = StageOf(t) /\ Now(t)' = Now(t)
      /\ Target(t)' = Target(t) /\ Planned(t)' = Planned(t)
  BY DEF StageOf, Now, Target, Planned
<1>2. \A f : /\ OpenKeys(f)' = OpenKeys(f) /\ ManualRows(f)' = ManualRows(f)
             /\ AutoRows(f)' = AutoRows(f)
  BY DEF OpenKeys, ManualRows, AutoRows
<1>3. \A k : Up(k)' = Up(k) /\ Registered(k)' = Registered(k)
  BY DEF Up, Registered
<1>4. OpenInv(t)' /\ ManualInv(t)' /\ RotationInv(t)'
  BY <1>1, <1>2, <1>3 DEF Settling, OpenInv, ManualInv, RotationInv
<1>5. WithdrawalInv(t)'
  BY <1>1, <1>2, <1>3 DEF Settling, WithdrawalInv
<1> QED
  BY <1>4, <1>5 DEF Settling

LEMMA BeginSettles ==
  ASSUME Static, Static', AllIdle, NEW t \in Threads, NEW x, Begin(t, x),
         x.kind # "cycle" \/ x.stage = "evaluate"
  PROVE  \A u \in Threads : Settling(u)'
<1>1. call'[t] = x /\ \A u \in Threads : u # t => call'[u] = IdleCall
  BY BeginEffect DEF AllIdle
<1> QED
  BY <1>1, IdleFacts, NothingToSettle

LEMMA CallSettles ==
  ASSUME Static, Static', AllIdle, Call
  PROVE  \A u \in Threads : Settling(u)'
<1>1. ASSUME NEW t \in Threads, StartCycle(t)
      PROVE  \A u \in Threads : Settling(u)'
  <2>1. PICK x : x = [IdleCall EXCEPT !.kind = "cycle", !.stage = "evaluate",
                                      !.family = 1]
    OBVIOUS
  <2>2. Begin(t, x)
    BY <1>1, <2>1 DEF StartCycle
  <2>3. x.stage = "evaluate"
    BY <2>1, FamilyFacts, EvaluationCall
  <2> QED
    BY <2>2, <2>3, BeginSettles
<1>2. ASSUME NEW i \in Instruments, StartPrice(i)
      PROVE  \A u \in Threads : Settling(u)'
  <2>1. PICK x : Begin("loop", x) /\ x.kind = "price"
    BY <1>2, StartPriceEffect
  <2> QED
    BY <2>1, BeginSettles DEF Threads
<1>3. CASE StartPass
  <2>1. PICK x : Begin("beside", x) /\ x.kind = "supervisor"
    BY <1>3, StartPassEffect
  <2> QED
    BY <2>1, BeginSettles DEF Threads
<1>4. ASSUME NEW k \in Keys, OperatorStarts(k)
      PROVE  \A u \in Threads : Settling(u)'
  <2>1. PICK x : Begin("beside", x) /\ x.kind = "operator"
    BY <1>4, OperatorStartsEffect
  <2> QED
    BY <2>1, BeginSettles DEF Threads
<1>5. ASSUME NEW ks \in SUBSET Keys, OperatorStops(ks)
      PROVE  \A u \in Threads : Settling(u)'
  <2>1. PICK x : Begin("beside", x) /\ x.kind = "operator"
    BY <1>5, OperatorStopsEffect
  <2> QED
    BY <2>1, BeginSettles DEF Threads
<1> QED
  BY <1>1, <1>2, <1>3, <1>4, <1>5, StopSets DEF Call

\* The invariant: what holds whatever the threads do to each other, and what
\* rows, engines and cycles know of each other while they take turns.
IInv == TurnsInv /\ (~overlapped /\ Running => \A t \in Threads : Settling(t))

LEMMA SettlingStep ==
  ASSUME IInv, TurnsInv', [Next]_vars, ~overlapped' /\ Running'
  PROVE  \A t \in Threads : Settling(t)'
<1>0. Static /\ Static' /\ RecoveryInv /\ RecoveryInv'
  BY DEF IInv, TurnsInv
<1>1. CASE UNCHANGED vars
  BY <1>1, SettlingKept DEF IInv, vars, memory, risk, Running
<1>2. ASSUME NEW t \in Threads, Work(t)
      PROVE  \A u \in Threads : Settling(u)'
  <2>1. UNCHANGED <<phase, overlapped>> /\ Busy(t)
    BY <1>0, <1>2, WorkFrame
  <2>2. MemoryInv /\ Settling(t)
    BY <2>1 DEF IInv, TurnsInv, Running
  <2>3. Alone(t)
    BY <1>0, <2>1, <2>2, AloneFromMemory
  <2>4. Settling(t)'
    BY <1>0, <1>2, <2>2, <2>3, WorkSettles
  <2>5. call'[Other(t)] = IdleCall
    BY <1>0, <1>2, <2>3, WorkAlone DEF Alone
  <2>6. Settling(Other(t))'
    BY <1>0, <2>5, OtherThread, IdleFacts, NothingToSettle
  <2> QED
    BY <2>4, <2>6, OtherThread
<1>3. CASE Call
  <2>1. ~overlapped /\ \A t \in Threads : ~Busy(t)
    BY <1>0, <1>3, CallMeetsNone
  <2>2. MemoryInv
    BY <1>3, <2>1, CallFrame DEF IInv, TurnsInv
  <2> QED
    BY <1>0, <1>3, <2>1, <2>2, RestIsIdle, CallSettles
<1>4. CASE Recover
  <2>1. phase' # "up"
    BY <1>4 DEF Recover, Restart, FinishRecovery, RequireRecovery,
       RecoverPosition, Resume, Recovering
  <2>2. \A t \in Threads : call'[t].kind # "cycle"
    BY <1>0, <2>1 DEF RecoveryInv, Busy
  <2> QED
    BY <1>0, <2>2, NothingToSettle
<1>5. CASE Environment
  BY <1>5, EnvironmentFrame, SettlingKept DEF IInv, Running
<1> QED
  BY <1>1, <1>2, <1>3, <1>4, <1>5 DEF Next

\* While the threads take turns, a cycle knows its family: its open positions,
\* that no runtime of the operator's is in the way of an engine, and that what
\* it is going to stop holds nothing, is replaced or is declared unmanaged.
THEOREM Invariance == Spec => []IInv
<1>1. Init => IInv
  <2> SUFFICES ASSUME Init PROVE IInv
    OBVIOUS
  <2>1. TurnsInv
    BY StaticInit, RecoveryInit, MemoryInit DEF TurnsInv
  <2>2. \A t \in Threads : StageOf(t) = "idle" /\ call[t].kind = "idle"
    BY IdleFacts DEF Init, StageOf
  <2>3. \A t \in Threads : Settling(t)
    BY <2>2 DEF Settling, OpenInv, ManualInv, RotationInv, WithdrawalInv
  <2> QED
    BY <2>1, <2>3 DEF IInv
<1>2. IInv /\ [Next]_vars => IInv'
  <2> SUFFICES ASSUME IInv, [Next]_vars PROVE IInv'
    OBVIOUS
  <2>1. TurnsInv'
    BY StaticStep, RecoveryStep, MemoryStep DEF IInv, TurnsInv
  <2> QED
    BY <2>1, SettlingStep DEF IInv
<1> QED
  BY <1>1, <1>2, PTL DEF Spec

-----------------------------------------------------------------------------
(* What a step may never do.                                               *)

\* Only a row that is written changes hands or leaves its mode for another one
\* than STOPPED.
KeepsRow(k) == /\ rows'[k].control = rows[k].control
               /\ rows'[k].mode \in {rows[k].mode, "STOPPED"}

LEMMA StoppedKeeps ==
  ASSUME Static, NEW k \in Keys, NEW r,
         r \in {StoppedRow(rows[k]), [rows[k] EXCEPT !.recovery = "RUNNING"]}
           \/ r = rows[k],
         rows' = [rows EXCEPT ![k] = r]
  PROVE  \A j \in Keys : KeepsRow(j)
<1>1. rows'[k] = r /\ \A j \in Keys : j # k => rows'[j] = rows[j]
  BY DEF Static, RowTypes
<1>2. r.control = rows[k].control /\ r.mode \in {rows[k].mode, "STOPPED"}
  BY RowFacts DEF StoppedRow, RowRecords
<1> QED
  BY <1>1, <1>2 DEF KeepsRow

LEMMA SameRowsKeep ==
  ASSUME rows' = rows
  PROVE  \A k : KeepsRow(k)
BY DEF KeepsRow

LEMMA MarkKeeps ==
  ASSUME Static, NEW t \in Threads, NEW c \in Due(t), Mark(t, c)
  PROVE  \A k \in Keys : KeepsRow(k)
<1>1. c.key \in Keys
  BY StaticDue
<1>2. PICK r : r = Marked(c.key, c.id)
  OBVIOUS
<1>3. r \in {StoppedRow(rows[c.key])} \/ r = rows[c.key]
  BY <1>2 DEF Marked
<1>4. rows' = [rows EXCEPT ![c.key] = r]
  BY <1>2 DEF Mark
<1> QED
  BY <1>1, <1>3, <1>4, StoppedKeeps

LEMMA DetachKeeps ==
  ASSUME Static, NEW c \in Due("beside"), Detach(c)
  PROVE  \A k \in Keys : KeepsRow(k)
<1>1. c.key \in Keys
  BY StaticDue DEF Threads
<1>2. CASE rows' = rows
  BY <1>2, SameRowsKeep
<1>3. CASE rows' = [rows EXCEPT ![c.key].linked = FALSE,
                                ![c.key].recovery = "RUNNING"]
  <2>1. /\ rows'[c.key].control = rows[c.key].control
        /\ rows'[c.key].mode = rows[c.key].mode
        /\ \A j \in Keys : j # c.key => rows'[j] = rows[j]
    BY <1>1, <1>3 DEF Static, RowTypes, RowRecords
  <2> QED
    BY <2>1 DEF KeepsRow
<1> QED
  BY <1>2, <1>3 DEF Detach

LEMMA RecoverKeeps ==
  ASSUME Static, Recover
  PROVE  \A k \in Keys : KeepsRow(k)
<1>1. ASSUME rows' = rows
      PROVE  \A k \in Keys : KeepsRow(k)
  BY <1>1, SameRowsKeep
<1>2. ASSUME NEW j \in Keys, RequireRecovery(j)
      PROVE  \A k \in Keys : KeepsRow(k)
  <2>1. rows' = [rows EXCEPT ![j].recovery = "RECOVERY_REQUIRED"]
    BY <1>2 DEF RequireRecovery
  <2>2. /\ rows'[j].control = rows[j].control /\ rows'[j].mode = rows[j].mode
        /\ \A k \in Keys : k # j => rows'[k] = rows[k]
    BY <2>1 DEF Static, RowTypes, RowRecords
  <2> QED
    BY <2>2 DEF KeepsRow
<1>3. ASSUME NEW j \in Keys, Resume(j)
      PROVE  \A k \in Keys : KeepsRow(k)
  <2>1. CASE rows[j].mode = "STOPPED"
    <3>1. PICK r : r = StoppedRow(rows[j])
      OBVIOUS
    <3>2. rows' = [rows EXCEPT ![j] = r]
      BY <1>3, <2>1, <3>1 DEF Resume
    <3> QED
      BY <3>1, <3>2, StoppedKeeps
  <2>2. CASE rows[j].mode # "STOPPED"
    <3>1. rows' = [rows EXCEPT ![j].recovery = "RUNNING",
                               ![j].linked = positions[j] = "open"]
      BY <1>3, <2>2 DEF Resume
    <3>2. /\ rows'[j].control = rows[j].control
          /\ rows'[j].mode = rows[j].mode
          /\ \A k \in Keys : k # j => rows'[k] = rows[k]
      BY <3>1 DEF Static, RowTypes, RowRecords
    <3> QED
      BY <3>2 DEF KeepsRow
  <2> QED
    BY <2>1, <2>2
<1> QED
  BY <1>1, <1>2, <1>3 DEF Recover, Restart, FinishRecovery, RecoverPosition,
     memory

\* A row that is not kept is written.
LEMMA RowWritten ==
  ASSUME Static, [Next]_vars, NEW k \in Keys, ~KeepsRow(k)
  PROVE  \E t \in Threads : \E c \in Due(t) : Write(t, c) /\ c.key = k
<1>1. rows' # rows
  BY SameRowsKeep
<1>2. ~UNCHANGED vars /\ ~Call /\ ~Recover /\ ~Environment
  <2>1. ~Call
    BY <1>1, CallFrame
  <2>2. ~Environment
    BY <1>1 DEF Environment, Crash, Govern, SelectProfile, Edit, BrokerCloses
  <2> QED
    BY <1>1, <2>1, <2>2, RecoverKeeps DEF vars
<1>3. PICK t \in Threads : Work(t)
  BY <1>2 DEF Next
<1>4. ~Plan(t)
  BY <1>1 DEF Plan, Evaluate, Ensure, Confirm, Assess, Settle, Conclude
<1>5. ~(t = "loop" /\ Trade)
  BY <1>1 DEF Trade, Enter, Exit, Decline
<1>6. ~(t = "beside" /\ Supervise)
  BY <1>1, DetachKeeps DEF Supervise, ListPass, Attach, CloseMissing, ForceIntent
<1>7. ~Finish(t)
  BY <1>1 DEF Finish
<1>8. ASSUME NEW c \in Due(t), ~Write(t, c),
             \/ Resolve(t, c) \/ Start(t, c) \/ SetMode(t, c)
             \/ Stop(t, c) \/ Mark(t, c) \/ Sync(t, c) \/ Write(t, c)
      PROVE  FALSE
  BY <1>1, <1>8, MarkKeeps DEF Resolve, Start, SetMode, Stop, Sync
<1>9. PICK c \in Due(t) : Write(t, c)
  BY <1>3, <1>4, <1>5, <1>6, <1>7, <1>8 DEF Work, Execute
<1>10. c.key = k
  <2>1. c.key # k => rows'[k] = rows[k]
    BY <1>9, StaticDue DEF Write, Static, RowTypes
  <2>2. rows'[k] = rows[k] => KeepsRow(k)
    BY DEF KeepsRow
  <2> QED
    BY <2>1, <2>2
<1> QED
  BY <1>9, <1>10

\* What is known of a row that is written while the threads take turns.
LEMMA WriteFacts ==
  ASSUME IInv, ~overlapped, NEW t \in Threads, NEW c \in Due(t), Write(t, c)
  PROVE  /\ c.key \in Keys /\ c \in Commands /\ NowFits(t, c)
         /\ Writing(t, c) /\ c.do = "write" /\ Settling(t)
         /\ rows'[c.key].mode = WrittenMode(c)
         /\ rows'[c.key].control = IF c.control = None
                                     THEN rows[c.key].control ELSE c.control
<1>1. /\ Static /\ Running /\ Busy(t) /\ c.do = "write"
      /\ c.key \in Keys /\ c \in Commands
  BY StaticDue DEF IInv, TurnsInv, Write, Does
<1>2. Alone(t) /\ Settling(t)
  BY <1>1, AloneFromMemory DEF IInv, TurnsInv
<1>3. PICK r : r = SyncedRow(c.key, c)
  OBVIOUS
<1>4. rows'[c.key] = r
  BY <1>1, <1>3 DEF Write, Static, RowTypes
<1> QED
  BY <1>1, <1>2, <1>3, <1>4, HandDue, SyncedRowFacts

\* The action of ManualIsNotTakenOver.
ManualStays ==
  \A k \in Keys :
    /\ rows[k].status = "RUNNING" /\ rows[k].control = "MANUAL" /\ ~overlapped
    => rows'[k].control = "MANUAL"

LEMMA ManualStep ==
  ASSUME IInv, [Next]_vars
  PROVE  ManualStays
<1> SUFFICES ASSUME NEW k \in Keys, rows[k].status = "RUNNING",
                    rows[k].control = "MANUAL", ~overlapped, ~KeepsRow(k)
             PROVE  rows'[k].control = "MANUAL"
  BY DEF ManualStays, KeepsRow
<1>1. PICK t \in Threads : \E c \in Due(t) : Write(t, c) /\ c.key = k
  BY RowWritten DEF IInv, TurnsInv
<1>2. PICK c \in Due(t) : Write(t, c) /\ c.key = k
  BY <1>1
<1>3. /\ NowFits(t, c) /\ Settling(t) /\ c \in Commands
      /\ rows'[k].control = IF c.control = None
                              THEN rows[k].control ELSE c.control
  BY <1>2, WriteFacts
<1>4. c.control # "AUTO"
  <2> SUFFICES ASSUME c.control = "AUTO" PROVE FALSE
    OBVIOUS
  <2>1. StageOf(t) = "confirm" /\ k[1] = call[t].family
    BY <1>2, <1>3 DEF NowFits, OfFamily, CycleStages
  <2>2. ManualRows(call[t].family) = {}
    BY <1>3, <2>1 DEF Settling, ManualInv
  <2> QED
    BY <2>1, <2>2 DEF ManualRows
<1> QED
  BY <1>3, <1>4 DEF Commands

\* While the threads take turns, a runtime the operator started is not made an
\* autonomous one while it runs (ManualIsNotTakenOver).
THEOREM ManualKept == Spec => ManualIsNotTakenOver
<1>1. IInv /\ [Next]_vars => [ManualStays]_vars
  BY ManualStep
<1> QED
  BY <1>1, Invariance, PTL DEF Spec, ManualIsNotTakenOver, ManualStays

\* The action of ProtectionOutlivesCycles.
ProtectionStays ==
  \A k \in Keys :
    /\ positions[k] = "open" /\ rows[k].mode = "EXITS_ONLY" /\ ~overlapped
    /\ rows[k].recovery # "RECOVERY_REQUIRED"
    => rows'[k].mode # "NORMAL"

LEMMA ProtectionStep ==
  ASSUME IInv, [Next]_vars
  PROVE  ProtectionStays
<1> SUFFICES ASSUME NEW k \in Keys, rows[k].mode = "EXITS_ONLY", ~overlapped,
                    rows[k].recovery # "RECOVERY_REQUIRED", ~KeepsRow(k)
             PROVE  rows'[k].mode # "NORMAL"
  BY DEF ProtectionStays, KeepsRow
<1>1. PICK t \in Threads : \E c \in Due(t) : Write(t, c) /\ c.key = k
  BY RowWritten DEF IInv, TurnsInv
<1>2. PICK c \in Due(t) : Write(t, c) /\ c.key = k
  BY <1>1
<1>3. Writing(t, c) /\ c.do = "write" /\ rows'[k].mode = WrittenMode(c)
  BY <1>2, WriteFacts
<1> QED
  BY <1>2, <1>3 DEF Writing, Unlifted

\* While the threads take turns, EXITS_ONLY is not lifted from an open position
\* but for a runtime that was left to be recovered (ProtectionOutlivesCycles).
THEOREM ProtectionKept == Spec => ProtectionOutlivesCycles
<1>1. IInv /\ [Next]_vars => [ProtectionStays]_vars
  BY ProtectionStep
<1> QED
  BY <1>1, Invariance, PTL DEF Spec, ProtectionOutlivesCycles, ProtectionStays

\* An engine leaves memory in a stop, unless the process ends.
LEMMA EngineStopped ==
  ASSUME Static, RecoveryInv, [Next]_vars, NEW k \in Keys, Up(k),
         engines'[k] = 0, phase' = phase
  PROVE  \E t \in Threads : \E c \in Due(t) : Stop(t, c) /\ c.key = k
<1>1. engines'[k] # engines[k]
  BY DEF Up
<1>2. ~Call
  BY <1>1, CallFrame DEF memory
<1>3. ~Environment
  BY <1>1 DEF Environment, Crash, Govern, SelectProfile, Edit, BrokerCloses,
     memory
<1>4. ~Recover
  <2>1. ~Resume(k)
    BY DEF Resume, Recovering, RecoveryInv
  <2>2. \A j \in Keys : Resume(j) /\ j # k => engines'[k] = engines[k]
    BY DEF Resume, Static, EngineTypes, memory
  <2>3. ~Restart
    BY DEF Restart
  <2> QED
    BY <1>1, <2>1, <2>2, <2>3 DEF Recover, FinishRecovery, RequireRecovery,
       RecoverPosition, memory
<1>5. PICK t \in Threads : Work(t)
  BY <1>1, <1>2, <1>3, <1>4 DEF Next, vars, memory
<1>6. ~Plan(t)
  BY <1>1 DEF Plan, Evaluate, Ensure, Confirm, Assess, Settle, Conclude, memory
<1>7. ~(t = "loop" /\ Trade)
  BY <1>1 DEF Trade, Enter, Exit, Decline, memory
<1>8. ~(t = "beside" /\ Supervise)
  BY <1>1 DEF Supervise, ListPass, Attach, CloseMissing, ForceIntent, Detach,
     memory
<1>9. ASSUME NEW c \in Due(t), Start(t, c)
      PROVE  FALSE
  <2>1. c.key \in Keys
    BY StaticDue
  <2>2. CASE Up(c.key)
    BY <1>1, <1>9, <2>2 DEF Start, memory
  <2>3. CASE ~Up(c.key)
    <3>1. engines' = [engines EXCEPT ![c.key] = NewId(c.key)]
      BY <1>9, <2>3 DEF Start
    <3>2. c.key # k
      BY <2>3
    <3> QED
      BY <1>1, <3>1, <3>2 DEF Static, EngineTypes
  <2> QED
    BY <2>2, <2>3
<1>10. ASSUME NEW c \in Due(t), ~Stop(t, c),
              \/ Resolve(t, c) \/ Start(t, c) \/ SetMode(t, c)
              \/ Stop(t, c) \/ Mark(t, c) \/ Sync(t, c) \/ Write(t, c)
       PROVE  FALSE
  BY <1>1, <1>9, <1>10 DEF Resolve, SetMode, Mark, Sync, Write, memory
<1>11. PICK c \in Due(t) : Stop(t, c)
  <2>1. ~Finish(t)
    BY <1>1 DEF Finish, memory
  <2> QED
    BY <1>5, <1>6, <1>7, <1>8, <1>10, <2>1 DEF Work, Execute
<1>12. c.key = k
  BY <1>1, <1>11, StaticDue DEF Stop, Static, EngineTypes
<1> QED
  BY <1>11, <1>12

\* The action of CyclesKeepExits.
ExitsStay ==
  \A t \in Threads, k \in Keys :
    /\ call[t].kind = "cycle" /\ Up(k) /\ phase' = phase /\ engines'[k] = 0
    /\ objects[Registered(k)].holds /\ positions[k] = "open" /\ ~overlapped
    => \/ call[t].risk = "UNMANAGED_OPEN_RISK"
       \/ Target(t) = k /\ rows[k].profile # call[t].profile

LEMMA ExitsStep ==
  ASSUME IInv, [Next]_vars
  PROVE  ExitsStay
<1> SUFFICES ASSUME NEW t \in Threads, NEW k \in Keys, call[t].kind = "cycle",
                    Up(k), phase' = phase, engines'[k] = 0,
                    positions[k] = "open", ~overlapped
             PROVE  \/ call[t].risk = "UNMANAGED_OPEN_RISK"
                    \/ Target(t) = k /\ rows[k].profile # call[t].profile
  BY DEF ExitsStay
<1>0. Static /\ RecoveryInv
  BY DEF IInv, TurnsInv
<1>1. PICK u \in Threads : \E c \in Due(u) : Stop(u, c) /\ c.key = k
  BY <1>0, EngineStopped
<1>2. PICK c \in Due(u) : Stop(u, c) /\ c.key = k
  BY <1>1
<1>3. Running /\ Busy(u) /\ Busy(t)
  BY <1>0, <1>2, StaticDue DEF Busy
<1>4. u = t /\ Settling(t)
  BY <1>3, OtherThread DEF IInv, TurnsInv, MemoryInv
<1>5. /\ c.do \in {"stop", "stop_if_up"} /\ c \in call[t].plan
      /\ k[1] = call[t].family /\ StageOf(t) = call[t].stage
      /\ StageOf(t) \in {"ensure", "conclude"}
      /\ c.do = "stop" => StageOf(t) = "ensure"
      /\ c.do = "stop_if_up" => StageOf(t) = "conclude"
  <2>1. c.do \in {"stop", "stop_if_up"}
    BY <1>2 DEF Stop, Does
  <2>2. Now(t) = NoCommand /\ c \in call[t].plan /\ PlanFits(t, c)
    BY <1>0, <1>2, <1>4, <2>1, StaticDue DEF NowFits, MayRun
  <2>3. StageOf(t) = call[t].stage /\ StageOf(t) # "operator"
    BY <1>0, CallFacts DEF StageOf, CallRecords
  <2> QED
    BY <1>0, <1>2, <1>4, <2>1, <2>2, <2>3, CycleCommand DEF PlanFits, MayPlan
<1>6. k \in call[t].open
  BY <1>4, <1>5 DEF Settling, OpenInv, OpenKeys
<1>7. CASE c.do = "stop"
  BY <1>2, <1>4, <1>5, <1>6, <1>7 DEF Settling, RotationInv
<1>8. CASE c.do = "stop_if_up"
  BY <1>2, <1>4, <1>5, <1>6, <1>8 DEF Settling, WithdrawalInv, Planned
<1> QED
  BY <1>5, <1>7, <1>8

\* While the threads take turns, a cycle takes the engine from an open position
\* only if it declares the risk unmanaged, or to restart it under another
\* profile (CyclesKeepExits).
THEOREM ExitsKept == Spec => CyclesKeepExits
<1>1. IInv /\ [Next]_vars => [ExitsStay]_vars
  BY ExitsStep
<1> QED
  BY <1>1, Invariance, PTL DEF Spec, CyclesKeepExits, ExitsStay

\* The action of StatementIsTrue.
TrueStatement ==
  \A t \in Threads, f \in Families :
    Concludes(t) /\ f = call[t].family /\ ~overlapped =>
      HeldByHand(f)' \/ Stated(f)'

LEMMA AssessedFacts ==
  ASSUME NEW f, NEW open, NEW eligible
  PROVE  LET said == AssessedRisk(f, open, eligible)
         IN  /\ said = "NO_OPEN_RISK" <=> open = {}
             /\ said \in {"MANAGED", "EXITS_ONLY"} =>
                  \A k \in open : k \in AutoRows(f) /\ Up(k)
             /\ said = "MANAGED" => \A k \in open : rows[k].mode # "EXITS_ONLY"
BY DEF AssessedRisk, Unprotected

LEMMA StatementStep ==
  ASSUME IInv
  PROVE  TrueStatement
<1> SUFFICES ASSUME NEW t \in Threads, Concludes(t), ~overlapped,
                    NEW f \in Families, f = call[t].family
             PROVE  HeldByHand(f)' \/ Stated(f)'
  BY DEF TrueStatement
<1>0. Static
  BY DEF IInv, TurnsInv
<1>1. /\ call[t].kind = "cycle" /\ Running /\ Planned(t)
      /\ call[t].stage \in {"assess", "conclude"}
      /\ Assess(t) \/ Settle(t)
  BY DEF Concludes, Assess, Settle, InCycle
<1>2. Alone(t) /\ Settling(t)
  BY <1>0, <1>1, AloneFromMemory DEF IInv, TurnsInv, Busy
<1>3. \A k \in Keys : Matches(k)
  BY <1>0, <1>1, <1>2, PlannedDo, PlannedMatches
<1>4. call[t].open = OpenKeys(f)
  BY <1>1, <1>2 DEF Settling, OpenInv
<1>5. UNCHANGED <<rows, engines, objects, positions>>
  BY <1>1 DEF Assess, Settle, Conclude, memory, risk
<1>6. /\ \A k : Up(k)' = Up(k) /\ ModeOf(k)' = ModeOf(k)
      /\ OpenKeys(f)' = OpenKeys(f) /\ AutoRows(f)' = AutoRows(f)
      /\ ManualRows(f)' = ManualRows(f)
  BY <1>5 DEF Up, ModeOf, Registered, OpenKeys, AutoRows, ManualRows
<1>7. ASSUME NEW r, Conclude(t, r)
      PROVE  deployment'[f].state = call[t].state /\ deployment'[f].risk = r
  BY <1>0, <1>7 DEF Conclude, Static, PolicyTypes
<1>8. CASE Assess(t)
  <2>1. PICK eligible \in SUBSET Instruments :
          Conclude(t, AssessedRisk(f, call[t].open, eligible))
    BY <1>8 DEF Assess
  <2>2. PICK said : said = AssessedRisk(f, OpenKeys(f), eligible)
    OBVIOUS
  <2>3. /\ said = "NO_OPEN_RISK" <=> OpenKeys(f) = {}
        /\ said \in {"MANAGED", "EXITS_ONLY"} =>
             \A k \in OpenKeys(f) : k \in AutoRows(f) /\ Up(k)
        /\ said = "MANAGED" =>
             \A k \in OpenKeys(f) : rows[k].mode # "EXITS_ONLY"
    BY <2>2, AssessedFacts
  <2>4. said = "MANAGED" => \A k \in OpenKeys(f) : ModeOf(k) = "NORMAL"
    <3> SUFFICES ASSUME said = "MANAGED", NEW k \in OpenKeys(f)
                 PROVE  ModeOf(k) = "NORMAL"
      OBVIOUS
    <3>1. k \in Keys /\ Up(k) /\ rows[k].mode # "EXITS_ONLY"
      BY <2>3 DEF OpenKeys
    <3>2. rows[k].mode \in Modes
      BY <1>0, <3>1, RowFacts DEF RowRecords
    <3> QED
      BY <1>3, <3>1, <3>2 DEF Matches, ModeOf, Modes
  <2>5. deployment'[f].state = "AUTO_DEPLOYED" /\ deployment'[f].risk = said
    <3>1. call[t].state = "AUTO_DEPLOYED"
      BY <1>0, <1>8, CallFacts
         DEF Assess, InCycle, CallInv, StageOf, Deployable
    <3> QED
      BY <1>4, <1>7, <2>1, <2>2, <3>1
  <2>6. Stated(f)'
    BY <1>6, <2>3, <2>4, <2>5 DEF Stated, ModeOf
  <2> QED
    BY <2>6
<1>9. CASE Settle(t)
  <2>1. StageOf(t) = "conclude"
    BY <1>1, <1>9 DEF Settle, InCycle, StageOf
  <2>2. /\ deployment'[f].state = call[t].state
        /\ deployment'[f].risk = call[t].risk
    BY <1>7, <1>9 DEF Settle
  <2>3. CASE call[t].state = "BLOCKED" /\ ManualRows(f) # {}
    BY <1>6, <2>2, <2>3 DEF HeldByHand
  <2>4. CASE ~(call[t].state = "BLOCKED" /\ ManualRows(f) # {})
    <3> DEFINE said == call[t].risk
    <3>1. /\ call[t].state # "AUTO_DEPLOYED"
          /\ said \in {"NO_OPEN_RISK", "EXITS_ONLY", "UNMANAGED_OPEN_RISK"}
          /\ said = "NO_OPEN_RISK" <=> OpenKeys(f) = {}
          /\ said = "EXITS_ONLY" =>
               \A k \in OpenKeys(f) : k \in AutoRows(f) /\ Up(k)
          /\ \A k \in Keys : k[1] = f /\ Up(k) /\ rows[k].control = "AUTO" =>
               ModeOf(k) = "EXITS_ONLY" /\ said = "EXITS_ONLY"
      BY <1>1, <1>2, <1>4, <2>1, <2>4
         DEF Settling, WithdrawalInv, Planned, ModeOf
    <3>2. \A k \in AutoRows(f) : Up(k) =>
            ModeOf(k) = "EXITS_ONLY" /\ said = "EXITS_ONLY"
      BY <3>1 DEF AutoRows
    <3>3. Stated(f)'
      BY <1>6, <2>2, <3>1, <3>2 DEF Stated, ModeOf
    <3> QED
      BY <3>3
  <2> QED
    BY <2>3, <2>4
<1> QED
  BY <1>1, <1>8, <1>9

\* While the threads take turns, what a cycle says of a family's open risk is
\* true when it says so: there is some exactly when it says so, managed risk has
\* an engine that can exit it, and a family that is not deployed runs no AUTO
\* engine that could enter (StatementIsTrue).
THEOREM StatementsAreTrue == Spec => StatementIsTrue
<1>1. IInv /\ [Next]_vars => [TrueStatement]_vars
  BY StatementStep
<1> QED
  BY <1>1, Invariance, PTL DEF Spec, StatementIsTrue, TrueStatement
=============================================================================
