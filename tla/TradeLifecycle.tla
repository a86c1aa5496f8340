--------------------------- MODULE TradeLifecycle ---------------------------
(***************************************************************************)
(* The trading pipeline of one instrument, from a price to a closed trade: *)
(*   core/trading_engine.py           raw entry and exit signals           *)
(*   services/trade_decision_service  PROPOSED, APPROVED, REJECTED intents *)
(*   services/strategy_service        executions, broker calls, outcomes   *)
(*   services/trade_service           one commit per row written           *)
(* (paths under backend/app).                                              *)
(*                                                                         *)
(* process_price_update runs on the event loop without awaiting, so one    *)
(* price is handled at a time.  What it writes it commits row by row:      *)
(* "todo" is the rest of the writes of the call in progress, in the order  *)
(* of the source, and a crash can fall between any two.  The broker acts   *)
(* on its own; threads of the API start and stop engines and restrict them *)
(* to exits.  A call keeps the engine objects it began with, so an engine  *)
(* stopped in the middle goes on to the end of the call.                   *)
(*                                                                         *)
(* An intent is a number, given out in order.  Intent i sends at most one  *)
(* order, and the broker's deal, its reference and the local position that *)
(* come of it are numbered i too; None stands for no intent or position.   *)
(***************************************************************************)
EXTENDS LifecycleRules, Integers, Sequences, FiniteSets

CONSTANTS Strategies,        \* strategies running on the instrument
          MaxIntents,        \* bound on the intents of a behaviour
          MaxStarts,         \* bound on the engines started per strategy
          LostAnswersRaise,  \* is a lost broker answer an ordinary error?
          MayCrash           \* may the process end anywhere?

ASSUME MaxIntentsAssumption == MaxIntents \in Nat
ASSUME MaxStartsAssumption == MaxStarts \in Nat
ASSUME LostAnswersAssumption == LostAnswersRaise \in BOOLEAN
ASSUME MayCrashAssumption == MayCrash \in BOOLEAN
ASSUME StrategiesAssumption == "NOBODY" \notin Strategies

None == 0
Intents == 1 .. MaxIntents

VARIABLES
  intents,    \* TradeIntent rows
  entries,    \* per strategy: the latest entry Execution of its action key
  closes,     \* per position: the latest close Execution of its action key
  positions,  \* Position rows by broker reference
  trades,     \* number of Trade rows of each position
  deals,      \* the broker's truth about each order
  engines,    \* per strategy: the TradingEngine objects started so far
  running,    \* per strategy: the one runtime_manager holds, 0: none
  loop,       \* the process_price_update call in progress
  up          \* is the process running?

vars == <<intents, entries, closes, positions, trades, deals, engines, running,
          loop, up>>
rows == <<intents, entries, closes, positions, trades>>

-----------------------------------------------------------------------------
(* The writes of a call.                                                   *)

Write(op, arg) == [op |-> op, arg |-> arg]
Execution(status) == Write("execution", status)
Intent(state) == Write("intent", state)
Referenced(state) == Write("referenced", state)   \* and sets broker_reference
Raise == Write("raise", Absent)
Attach == Write("attach", Absent)                 \* engine.current_position
Detach == Write("detach", Absent)
RecordPosition == Write("record_position", Absent)
ExitsOnly == Write("exits_only", Absent)          \* engine.runtime_mode
ClosePosition == Write("close_position", Absent)
RecordTrade == Write("record_trade", Absent)
CallBroker == Write("call_broker", Absent)

Writes ==
  [op : {"execution"}, arg : ExecutionStatuses]
    \cup [op : {"intent", "referenced"}, arg : IntentStates]
    \cup [op : {"raise", "attach", "detach", "record_position", "exits_only",
               "close_position", "record_trade", "call_broker"},
          arg : {Absent}]

\* _fail_entry_execution_revalidation and the other refusals of an entry.
BlockedEntry == <<Execution("FAILED"), Intent("FAILED"), Raise>>

\* The order is on record before the broker hears of it (the mutant sends it
\* first).
SubmitEntry_CallFirst ==
  <<Execution("ORDER_SUBMITTED"), CallBroker, Intent("SUBMITTED")>>
SubmitEntry ==
  <<Execution("ORDER_SUBMITTED"), Intent("SUBMITTED"), CallBroker>>

\* No answer in time: the outcome is unknown and goes to manual review (the
\* mutant forgets the intent).
TimedOutEntry_NoIntent == <<Execution("NEEDS_MANUAL_REVIEW"), Raise>>
TimedOutEntry ==
  <<Execution("NEEDS_MANUAL_REVIEW"), Intent("ACKNOWLEDGED"), Raise>>

\* What _execute_entry_signal writes for each answer of place_order.
Acknowledged(rest) ==
  <<Execution("ORDER_ACKNOWLEDGED"), Referenced("ACKNOWLEDGED")>> \o rest
EntryOutcome == [answer \in
    {"FILLED", "PARTIALLY_FILLED", "REJECTED", "CANCELLED", "AMBIGUOUS",
     "TimeoutError", "raised"} |->
  CASE answer = "FILLED" ->
         Acknowledged(<<Execution("FILL_FULL"), Referenced("FILLED"), Attach,
           RecordPosition, Execution("POSITION_OPENED"),
           Referenced("POSITION_OPENED"), Attach>>)
    [] answer = "PARTIALLY_FILLED" ->
         Acknowledged(<<Execution("FILL_PARTIAL"),
           Referenced("PARTIALLY_FILLED"), Attach, RecordPosition, ExitsOnly,
           Execution("NEEDS_MANUAL_REVIEW"), Referenced("PARTIALLY_FILLED"),
           Attach>>)
    [] answer = "REJECTED" ->
         Acknowledged(<<Execution("FAILED"), Intent("FAILED"), Raise>>)
    [] answer = "CANCELLED" ->
         Acknowledged(<<Execution("CANCELLED"), Intent("CANCELLED"), Raise>>)
    \* The reference kept here is the dealReference of the request, which no
    \* position of the broker carries.
    [] answer = "AMBIGUOUS" ->
         <<Execution("ORDER_ACKNOWLEDGED"), Intent("ACKNOWLEDGED"),
           Execution("NEEDS_MANUAL_REVIEW"), Intent("ACKNOWLEDGED"), Raise>>
    [] answer = "TimeoutError" -> TimedOutEntry
    [] answer = "raised" ->
         <<Execution("FAILED"), Intent("FAILED"), Raise>>]

\* (The mutant writes one of the legacy statuses.)
BlockedExit_Legacy == <<Execution("RISK_REJECTED"), Raise>>
BlockedExit == <<Execution("FAILED"), Raise>>
SubmitExit == <<Intent("CLOSE_REQUESTED"), Execution("ORDER_SUBMITTED"),
                Intent("SUBMITTED"), CallBroker>>

\* After a full close: the engine lets go, the row is closed, the trade is
\* recorded and only then is the intent CLOSED (the mutants close the intent
\* first, and leave the position in the engine).
Settlement_ClosedFirst ==
  <<Detach, ClosePosition, Execution("CLOSE_CONFIRMED"), Intent("CLOSED"),
    RecordTrade, Execution("CLOSE_CONFIRMED")>>
Settlement_Attached ==
  <<ClosePosition, Execution("CLOSE_CONFIRMED"), RecordTrade,
    Intent("CLOSED"), Execution("CLOSE_CONFIRMED")>>
Settlement ==
  <<Detach, ClosePosition, Execution("CLOSE_CONFIRMED"), RecordTrade,
    Intent("CLOSED"), Execution("CLOSE_CONFIRMED")>>

\* What _execute_exit_signal and orchestrate_trade_decisions write for each
\* answer of close_position.
CloseOutcome == [answer \in
    {"FILLED", "PARTIALLY_FILLED", "AMBIGUOUS", "raised"} |->
  CASE answer = "FILLED" ->
         <<Execution("ORDER_ACKNOWLEDGED"), Intent("ACKNOWLEDGED"),
           Execution("FILL_FULL"), Intent("FILLED")>> \o Settlement
    [] answer = "PARTIALLY_FILLED" ->
         <<Execution("ORDER_ACKNOWLEDGED"), Intent("ACKNOWLEDGED"),
           Execution("FILL_PARTIAL"), Execution("NEEDS_MANUAL_REVIEW"),
           Intent("CLOSE_REQUESTED"), Raise>>
    [] answer = "AMBIGUOUS" ->       \* rejected and cancelled closes as well
         <<Execution("ORDER_ACKNOWLEDGED"), Intent("ACKNOWLEDGED"),
           Execution("NEEDS_MANUAL_REVIEW"), Intent("CLOSE_REQUESTED"), Raise>>
    [] answer = "raised" ->
         <<Execution("NEEDS_MANUAL_REVIEW"), Intent("CLOSE_REQUESTED"), Raise>>]

-----------------------------------------------------------------------------
DealStates == {"none", "pending", "open", "closing", "closed", "void"}
Exposed == {"pending", "open", "closing"}   \* the broker holds or may hold it
EngineObjects == [position : Intents \cup {None},
                  mode : {"NORMAL", "EXITS_ONLY"}]
Signals == [kind : {"entry", "exit"}, strategy : Strategies,
            engine : 1 .. MaxStarts, position : Intents \cup {None}]
Decisions == [kind : {"entry", "exit"}, strategy : Strategies,
              engine : 1 .. MaxStarts, position : Intents \cup {None},
              intent : Intents \cup {None}]
IdleLoop == [at |-> "idle", signals |-> {}, decisions |-> <<>>,
             todo |-> <<>>, guarded |-> FALSE]

TypeOK ==
  /\ intents \in [Intents -> [state : IntentStates \cup {Absent},
                              strategy : Strategies \cup {"NOBODY"},
                              reference : Intents \cup {None}]]
  /\ entries \in [Strategies -> [status : ExecutionStatuses \cup {Absent},
                                 intent : Intents \cup {None}]]
  /\ closes \in [Intents -> ExecutionStatuses \cup {Absent}]
  /\ positions \in [Intents -> {Absent, "open", "closed"}]
  /\ trades \in [Intents -> Nat]
  /\ deals \in [Intents -> DealStates]
  /\ engines \in [Strategies -> Seq(EngineObjects)]
  /\ running \in [Strategies -> 0 .. MaxStarts]
  /\ loop \in [at : {"idle", "deciding", "reviewing", "orchestrating",
                     "executing", "writing", "calling", "handling"},
               signals : SUBSET Signals, decisions : Seq(Decisions),
               todo : Seq(Writes), guarded : BOOLEAN]
  /\ up \in BOOLEAN

Init ==
  /\ intents = [i \in Intents |-> [state |-> Absent, strategy |-> "NOBODY",
                                   reference |-> None]]
  /\ entries = [s \in Strategies |-> [status |-> Absent, intent |-> None]]
  /\ closes = [i \in Intents |-> Absent]
  /\ positions = [i \in Intents |-> Absent]
  /\ trades = [i \in Intents |-> 0]
  /\ deals = [i \in Intents |-> "none"]
  /\ engines = [s \in Strategies |-> <<>>]
  /\ running = [s \in Strategies |-> 0]
  /\ loop = IdleLoop
  /\ up = TRUE

\* The intents that own the instrument (uq_trade_intent_active_instrument).
Active == {i \in Intents : intents[i].state \in ActiveOwnershipStates}
Unused == {i \in Intents : intents[i].state = Absent}

\* The decision being orchestrated, and its engine object.
Current == Head(loop.decisions)
Engine == engines[Current.strategy][Current.engine]
\* It is done with (or an exception left it): the loop goes on to the next.
NextDecision ==
  loop' = [loop EXCEPT !.decisions = Tail(loop.decisions), !.todo = <<>>,
             !.guarded = FALSE,
             !.at = IF Len(loop.decisions) = 1 THEN "idle" ELSE "orchestrating"]
\* An exception nobody caught ends process_price_update.
Escape == loop' = IdleLoop
SetPosition(d) ==
  [engines EXCEPT ![Current.strategy][Current.engine].position = d]
Proceed(label) == loop' = [loop EXCEPT !.at = label]
Perform(writes) == loop' = [loop EXCEPT !.at = "writing", !.todo = writes]
\* An exception inside the try of orchestrate_trade_decisions is handled.
RaiseFrom == IF loop.guarded THEN Proceed("handling") ELSE Escape

SetIntent(i, state) == intents' = [intents EXCEPT ![i].state = state]
MayBecome(i, state) == state \in IntentTransitions[intents[i].state]

-----------------------------------------------------------------------------
(* Signals and decisions.                                                  *)

MayEnter(engine) == engine.mode # "EXITS_ONLY" /\ engine.position = None
MayExit(engine) == engine.position # None
Signal(s) ==
  LET engine == engines[s][running[s]] IN
  [kind |-> IF MayEnter(engine) THEN "entry" ELSE "exit", strategy |-> s,
   engine |-> running[s], position |-> engine.position]

\* TradingEngine.process_price_update of every engine of the instrument.
EvaluatePrice ==
  /\ up
  /\ loop.at = "idle"
  /\ LET able == {s \in Strategies :
                    /\ running[s] # 0
                    /\ \/ MayEnter(engines[s][running[s]])
                       \/ MayExit(engines[s][running[s]])}
     IN  \E S \in SUBSET able \ {{}} :
           loop' = [loop EXCEPT !.at = "deciding",
                                !.signals = {Signal(s) : s \in S}]
  /\ UNCHANGED <<rows, deals, engines, running, up>>

Decided(signal, i) ==
  loop' = [loop EXCEPT
    !.signals = @ \ {signal},
    !.decisions = Append(@,
      [kind |-> signal.kind, strategy |-> signal.strategy,
       engine |-> signal.engine, position |-> signal.position, intent |-> i]),
    !.at = IF loop.signals = {signal} THEN "orchestrating" ELSE "deciding"]

\* Entries are decided before exits.
Signalled(kind) == {g \in loop.signals : g.kind = kind}

\* Refused by the allocator, by the active owner or by the index: the intent
\* is created REJECTED and never owns anything, so no number is spent on it.
RefuseEntry(signal) ==
  /\ loop.at = "deciding"
  /\ signal \in Signalled("entry")
  /\ Decided(signal, None)
  /\ UNCHANGED <<rows, deals, engines, running, up>>

\* find_active_trade_intent_for_instrument, and the index: an owner of any
\* strategy stands in the way.
Unowned == Active = {}

ProposeEntry(signal) ==
  /\ loop.at = "deciding"
  /\ signal \in Signalled("entry")
  /\ Unowned
  /\ \E i \in Unused :
       /\ \A j \in Unused : i <= j
       /\ intents' = [intents EXCEPT ![i].state = "PROPOSED",
                                     ![i].strategy = signal.strategy]
  /\ Proceed("reviewing")
  /\ UNCHANGED <<entries, closes, positions, trades, deals, engines, running, up>>

\* The operational, market and risk gates and the conflict check.
ReviewEntry(signal, i) ==
  /\ loop.at = "reviewing"
  /\ signal \in Signalled("entry")
  /\ intents[i].state = "PROPOSED"
  /\ intents[i].strategy = signal.strategy
  /\ \/ /\ Active = {i}
        /\ SetIntent(i, "APPROVED")
        /\ Decided(signal, i)
     \/ /\ SetIntent(i, "REJECTED")
        /\ Decided(signal, None)
  /\ UNCHANGED <<entries, closes, positions, trades, deals, engines, running, up>>

CloseAdmissible(s, d) ==
  {i \in Intents : /\ intents[i].state \in CloseAdmissibleStates
                   /\ intents[i].strategy = s
                   /\ intents[i].reference = d}

LinkExit(signal) ==
  /\ loop.at = "deciding"
  /\ Signalled("entry") = {}
  /\ signal \in Signalled("exit")
  /\ LET linked == CloseAdmissible(signal.strategy, signal.position)
     IN  IF linked = {} THEN Decided(signal, None)
                        ELSE \E i \in linked : Decided(signal, i)
  /\ UNCHANGED <<rows, deals, engines, running, up>>

-----------------------------------------------------------------------------
(* orchestrate_trade_decisions up to the first write of an execution.      *)

\* An entry that was not admitted clears the engine's position, an exit
\* that was not admitted is skipped.
SkipDecision ==
  /\ loop.at = "orchestrating"
  /\ Current.intent = None
  /\ engines' = IF Current.kind = "entry" THEN SetPosition(None) ELSE engines
  /\ NextDecision
  /\ UNCHANGED <<rows, deals, running, up>>

\* The engine's mode or the operational policy refuses before an execution.
BlockEntry ==
  /\ loop.at = "orchestrating"
  /\ Current.kind = "entry" /\ Current.intent # None
  /\ SetIntent(Current.intent, "FAILED")
  /\ NextDecision
  /\ UNCHANGED <<entries, closes, positions, trades, deals, engines, running, up>>

\* _prepare_execution: a fresh or reused attempt is executed.  One that may
\* have reached the broker is not repeated but sent to manual review; if it
\* is there already, that transition is illegal and the exception escapes.
Preparable(status) ==
  status \in UnsafeRetryStatuses =>
    "NEEDS_MANUAL_REVIEW" \in ExecutionTransitions[status]
Prepared(status) == IF status \in UnsafeRetryStatuses THEN "NEEDS_MANUAL_REVIEW"
                                                      ELSE "SUBMISSION_PENDING"
ExecuteOrSuppress(status) ==
  IF status \in UnsafeRetryStatuses THEN NextDecision ELSE Proceed("executing")

PrepareEntry ==
  LET s == Current.strategy
      status == entries[s].status
  IN
  /\ loop.at = "orchestrating"
  /\ Current.kind = "entry" /\ Current.intent # None
  /\ Engine.mode # "EXITS_ONLY"
  /\ IF Preparable(status)
       THEN /\ entries' = [entries EXCEPT ![s] =
                             [status |-> Prepared(status),
                              intent |-> Current.intent]]
            /\ ExecuteOrSuppress(status)
       ELSE UNCHANGED entries /\ Escape
  /\ UNCHANGED <<intents, closes, positions, trades, deals, engines, running, up>>

PrepareExit ==
  LET d == Current.position
      status == closes[d]
  IN
  /\ loop.at = "orchestrating"
  /\ Current.kind = "exit" /\ Current.intent # None
  /\ IF Preparable(status)
       THEN /\ closes' = [closes EXCEPT ![d] = Prepared(status)]
            /\ ExecuteOrSuppress(status)
       ELSE UNCHANGED closes /\ Escape
  /\ UNCHANGED <<intents, entries, positions, trades, deals, engines, running, up>>

-----------------------------------------------------------------------------
(* _execute_entry_signal and _execute_exit_signal.                         *)

Guarded(label, writes) ==
  loop' = [loop EXCEPT !.at = label, !.todo = writes, !.guarded = TRUE]

\* The last checks: approval, mode and policy, another owner; then market
\* status, broker metadata, size and account.
ExecuteEntry ==
  LET i == Current.intent IN
  /\ loop.at = "executing"
  /\ Current.kind = "entry"
  /\ IF intents[i].state # "APPROVED"
       THEN Guarded("handling", <<>>)
       ELSE \/ Guarded("writing", BlockedEntry)
            \/ /\ Engine.mode # "EXITS_ONLY"
               /\ IF Active = {i} THEN Guarded("writing", SubmitEntry)
                                  ELSE Guarded("handling", <<>>)
  /\ UNCHANGED <<rows, deals, engines, running, up>>

\* Only the market status may block an exit, never the mode or the policy.
ExecuteExit ==
  /\ loop.at = "executing"
  /\ Current.kind = "exit"
  /\ IF /\ intents[Current.intent].state \in CloseAdmissibleStates
        /\ Engine.position # None
       THEN Guarded("writing", BlockedExit) \/ Guarded("writing", SubmitExit)
       ELSE Guarded("handling", <<>>)
  /\ UNCHANGED <<rows, deals, engines, running, up>>

\* The execution row the current decision writes.
CurrentStatus == IF Current.kind = "entry" THEN entries[Current.strategy].status
                                           ELSE closes[Current.position]
SetExecution(status) ==
  IF Current.kind = "entry"
    THEN entries' = [entries EXCEPT ![Current.strategy].status = status]
         /\ UNCHANGED closes
    ELSE closes' = [closes EXCEPT ![Current.position] = status]
         /\ UNCHANGED entries

\* The position the current decision opens or closes.
CurrentPosition ==
  IF Current.kind = "entry" THEN Current.intent ELSE Current.position

Written ==
  IF Len(loop.todo) = 1 THEN NextDecision
                        ELSE loop' = [loop EXCEPT !.todo = Tail(@)]
Writing(op) == loop.at = "writing" /\ Head(loop.todo).op = op
Arg == Head(loop.todo).arg

WriteExecution ==
  /\ Writing("execution")
  /\ IF Arg \in ExecutionTransitions[CurrentStatus]
       THEN SetExecution(Arg) /\ Written
       ELSE UNCHANGED <<entries, closes>> /\ RaiseFrom
  /\ UNCHANGED <<intents, positions, trades, deals, engines, running, up>>

WriteIntent ==
  /\ Writing("intent") \/ Writing("referenced")
  /\ LET i == Current.intent
     IN  IF MayBecome(i, Arg)
           THEN /\ intents' = [intents EXCEPT
                     ![i].state = Arg,
                     ![i].reference = IF Writing("referenced") THEN i ELSE @]
                /\ Written
           ELSE UNCHANGED intents /\ RaiseFrom
  /\ UNCHANGED <<entries, closes, positions, trades, deals, engines, running, up>>

WriteEngine ==
  /\ \/ /\ Writing("attach")
        /\ engines' = SetPosition(CurrentPosition)
        /\ Written
     \/ /\ Writing("exits_only")
        /\ engines' = [engines EXCEPT
             ![Current.strategy][Current.engine].mode = "EXITS_ONLY"]
        /\ Written
     \/ /\ Writing("detach")                    \* the end of the try block
        /\ engines' = SetPosition(None)
        /\ loop' = [loop EXCEPT !.todo = Tail(@), !.guarded = FALSE]
  /\ UNCHANGED <<rows, deals, running, up>>

\* Without an open row there is nothing to close, nor to confirm.
WritePosition ==
  /\ \/ /\ Writing("record_position")
        /\ positions' = [positions EXCEPT ![CurrentPosition] = "open"]
        /\ Written
     \/ /\ Writing("close_position")
        /\ IF positions[CurrentPosition] = "open"
             THEN /\ positions' = [positions EXCEPT ![CurrentPosition] = "closed"]
                  /\ Written
             ELSE /\ loop' = [loop EXCEPT !.todo = Tail(Tail(@))]
                  /\ UNCHANGED positions
  /\ UNCHANGED <<intents, entries, closes, trades, deals, engines, running, up>>

WriteTrade ==
  /\ Writing("record_trade")
  /\ trades' = [trades EXCEPT ![CurrentPosition] = @ + 1]
  /\ Written
  /\ UNCHANGED <<intents, entries, closes, positions, deals, engines, running, up>>

RaiseException ==
  /\ Writing("raise")
  /\ RaiseFrom
  /\ UNCHANGED <<rows, deals, engines, running, up>>

-----------------------------------------------------------------------------
(* The exception handlers of orchestrate_trade_decisions.                  *)

\* An attempt in manual review keeps its intent; otherwise the intent fails
\* (the mutant forgets the orders without an answer).
Preserved_Answered(i) ==
  /\ entries[Current.strategy].status = "NEEDS_MANUAL_REVIEW"
  /\ intents[i].state \in {"SUBMITTED", "PARTIALLY_FILLED"}
Preserved(i) ==
  /\ entries[Current.strategy].status = "NEEDS_MANUAL_REVIEW"
  /\ intents[i].state \in {"SUBMITTED", "ACKNOWLEDGED", "PARTIALLY_FILLED"}

FailOrEscape(i) ==
  IF MayBecome(i, "FAILED") THEN SetIntent(i, "FAILED") /\ NextDecision
                            ELSE UNCHANGED intents /\ Escape

HandleEntry ==
  /\ loop.at = "handling"
  /\ Current.kind = "entry"
  /\ engines' = SetPosition(None)
  /\ IF intents[Current.intent].state = "POSITION_OPENED"
          \/ Preserved(Current.intent)
       THEN UNCHANGED intents /\ NextDecision
       ELSE FailOrEscape(Current.intent)
  /\ UNCHANGED <<entries, closes, positions, trades, deals, running, up>>

HandleExit ==
  /\ loop.at = "handling"
  /\ Current.kind = "exit"
  /\ IF intents[Current.intent].state \in {"CLOSED", "CLOSE_REQUESTED"}
       THEN UNCHANGED intents /\ NextDecision
       ELSE FailOrEscape(Current.intent)
  /\ UNCHANGED <<entries, closes, positions, trades, deals, engines, running, up>>

-----------------------------------------------------------------------------
(* The broker, the operator and the end of the process.                    *)

\* What close_position acts on: the deal the engine holds, or else any open
\* deal of the instrument.
CloseTargets ==
  LET held == Engine.position
      open == {d \in Intents : deals[d] \in {"open", "closing"}}
  IN  IF held \in open THEN {held} ELSE open

\* An order reaches the broker; a close request reaches it or finds nothing.
StartCall ==
  /\ Writing("call_broker")
  /\ \/ /\ Current.kind = "entry"
        /\ deals' = [deals EXCEPT ![Current.intent] = "pending"]
     \/ /\ Current.kind = "exit"
        /\ \E d \in CloseTargets : deals' = [deals EXCEPT ![d] = "closing"]
     \/ /\ Current.kind = "exit"
        /\ CloseTargets = {}
        /\ UNCHANGED deals
  /\ Proceed("calling")
  /\ UNCHANGED <<rows, engines, running, up>>

\* The broker fills or refuses an order, executes or refuses a close.
BrokerActs ==
  /\ \E d \in Intents :
       \/ /\ deals[d] = "pending"
          /\ \E to \in {"open", "void"} : deals' = [deals EXCEPT ![d] = to]
       \/ /\ deals[d] = "closing"
          /\ \E to \in {"open", "closed"} : deals' = [deals EXCEPT ![d] = to]
  /\ UNCHANGED <<rows, engines, running, loop, up>>

\* What each answer of place_order says about the deal.  A call that raises
\* has left no order, unless lost answers raise too (ig_broker._raw_request
\* turns every OSError into IGBrokerError).
EntryAnswerFits(answer, deal) ==
  CASE answer \in {"FILLED", "PARTIALLY_FILLED"} -> deal = "open"
    [] answer \in {"REJECTED", "CANCELLED"} -> deal = "void"
    [] answer = "raised" -> deal = "void" \/ LostAnswersRaise
    [] answer \in {"AMBIGUOUS", "TimeoutError"} -> TRUE

\* A close answered FILLED has closed the deal it was sent for; a partial
\* or refused one leaves it open; otherwise nothing is known.
CloseAnswerFits(answer, d) ==
  CASE answer = "FILLED" -> d # None /\ deals[d] = "closed"
    [] answer = "PARTIALLY_FILLED" -> d # None /\ deals[d] = "open"
    [] answer \in {"AMBIGUOUS", "raised"} -> TRUE

AnswerEntry ==
  /\ loop.at = "calling"
  /\ Current.kind = "entry"
  /\ \E answer \in DOMAIN EntryOutcome :
       /\ EntryAnswerFits(answer, deals[Current.intent])
       /\ Perform(EntryOutcome[answer])
  /\ UNCHANGED <<rows, deals, engines, running, up>>

AnswerExit ==
  /\ loop.at = "calling"
  /\ Current.kind = "exit"
  /\ \E answer \in DOMAIN CloseOutcome :
       /\ CloseAnswerFits(answer, Engine.position)
       /\ Perform(CloseOutcome[answer])
  /\ UNCHANGED <<rows, deals, engines, running, up>>

\* StrategyService.start_strategy, stop_strategy and set_runtime_mode, from a
\* thread of the API or the deployment manager.  A new engine knows of no
\* position, and set_runtime_mode never leads back to NORMAL.
StartEngine(s) ==
  /\ up
  /\ running[s] = 0
  /\ Len(engines[s]) < MaxStarts
  /\ \E mode \in {"NORMAL", "EXITS_ONLY"} :
       engines' = [engines EXCEPT ![s] =
                     Append(@, [position |-> None, mode |-> mode])]
  /\ running' = [running EXCEPT ![s] = Len(engines[s]) + 1]
  /\ UNCHANGED <<rows, deals, loop, up>>

StopEngine(s) ==
  /\ up
  /\ running[s] # 0
  /\ running' = [running EXCEPT ![s] = 0]
  /\ UNCHANGED <<rows, deals, engines, loop, up>>

RestrictToExits(s) ==
  /\ up
  /\ running[s] # 0
  /\ engines[s][running[s]].mode # "EXITS_ONLY"
  /\ engines' = [engines EXCEPT ![s][running[s]].mode = "EXITS_ONLY"]
  /\ UNCHANGED <<rows, deals, running, loop, up>>

\* The engines and the call in progress are gone; rows and deals stay.
Crash ==
  /\ MayCrash /\ up
  /\ up' = FALSE
  /\ loop' = IdleLoop
  /\ engines' = [s \in Strategies |-> <<>>]
  /\ running' = [s \in Strategies |-> 0]
  /\ UNCHANGED <<rows, deals>>

-----------------------------------------------------------------------------
Decide == \/ \E g \in loop.signals :
               RefuseEntry(g) \/ ProposeEntry(g) \/ LinkExit(g)
          \/ \E g \in loop.signals, i \in Intents : ReviewEntry(g, i)
Orchestrate == SkipDecision \/ BlockEntry \/ PrepareEntry \/ PrepareExit
Execute == ExecuteEntry \/ ExecuteExit
WriteRow == \/ WriteExecution \/ WriteIntent \/ WriteEngine \/ WritePosition
            \/ WriteTrade \/ RaiseException
Handle == HandleEntry \/ HandleExit
Answer == AnswerEntry \/ AnswerExit

Pipeline == Decide \/ Orchestrate \/ Execute \/ WriteRow \/ Handle
            \/ StartCall \/ Answer

Next ==
  \/ EvaluatePrice
  \/ Pipeline
  \/ BrokerActs
  \/ \E s \in Strategies : StartEngine(s) \/ StopEngine(s) \/ RestrictToExits(s)
  \/ Crash

Spec == Init /\ [][Next]_vars

-----------------------------------------------------------------------------
(* Properties                                                              *)

\* One owner of the instrument at a time (uq_trade_intent_active_instrument,
\* and no way back from a terminal state to an owning one).
OneActiveOwner == \A i, j \in Active : i = j

\* Ownership is given up only when the broker holds nothing of it, and an
\* intent sends one order at most (InstrumentOwnership).
Ownership == INSTANCE InstrumentOwnership WITH
  owner <- Active,
  claimed <- Intents \ Unused,
  ordered <- {i \in Intents : deals[i] # "none"},
  exposed <- {i \in Intents : deals[i] \in Exposed}
OwnershipSpec == Ownership!Spec

\* What the broker holds, or may hold, belongs to an active intent whose
\* submission is on record, at every instant and so after any crash.
ExposureIsOwned ==
  \A i \in Intents : deals[i] \in Exposed =>
    i \in Active /\ intents[i].state \notin {"PROPOSED", "APPROVED"}

\* A Trade is recorded once, for a deal the broker has closed, after its
\* position row; a CLOSED intent has exactly that behind it.
ClosedIsFlat ==
  \A i \in Intents :
    /\ trades[i] <= 1
    /\ trades[i] = 1 => deals[i] = "closed" /\ positions[i] = "closed"
    /\ intents[i].state = "CLOSED" => trades[i] = 1

\* Between two calls, whatever the broker holds is visible as an open row
\* that an exit signal can find an intent for, or on record for manual review
\* under an intent that still owns the instrument.
OpenRiskIsVisible ==
  up /\ loop.at = "idle" =>
    \A i \in Intents : deals[i] \in Exposed =>
      LET s == intents[i].strategy IN
      \/ positions[i] = "open" /\ i \in CloseAdmissible(s, i)
      \/ /\ entries[s] = [status |-> "NEEDS_MANUAL_REVIEW", intent |-> i]
         /\ intents[i].state = "ACKNOWLEDGED"

\* Between two calls, the position an engine holds is open in the database
\* and its own; orchestrate_trade_decisions would insert any other one again
\* under its old primary key.
EngineTracksOpenRow ==
  loop.at = "idle" =>
    \A s \in Strategies : running[s] # 0 =>
      LET d == engines[s][running[s]].position IN
      d # None => positions[d] = "open" /\ intents[d].strategy = s

\* Between two calls no order is without a recorded outcome, whatever the
\* broker answered, and whichever call sent it, unless the process ended.
OutcomeIsRecorded ==
  up /\ loop.at = "idle" => \A i \in Intents : intents[i].state # "SUBMITTED"
=============================================================================
