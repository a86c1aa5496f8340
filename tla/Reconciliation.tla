--------------------------- MODULE Reconciliation ---------------------------
(***************************************************************************)
(* The reconciliation thread beside the trading pipeline of TradeLifecycle: *)
(*   services/reconciliation_service.py     one pass over broker and rows  *)
(*   services/broker_reconciliation_supervisor.py   the thread of the pass *)
(* (paths under backend/app).                                              *)
(*                                                                         *)
(* A pass asks the broker for its positions, then lists the open rows, and *)
(* works on these two snapshots: it brings every remote position into a    *)
(* row, an intent and an engine, and then closes by force every row the    *)
(* broker did not report.  Each commit of it is a step, and the pipeline,  *)
(* the broker and the operator act between any two.  An exception ends the *)
(* pass; the supervisor logs it and starts another one later.              *)
(*                                                                         *)
(* A deal has at most two rows: its strategy's own, and one under the name *)
(* broker_sync.  The broker closes deals on its own (stops, margin calls). *)
(***************************************************************************)
EXTENDS TradeLifecycle

CONSTANT Overlapping  \* may a pass run beside process_price_update?

ASSUME OverlappingAssumption == Overlapping \in BOOLEAN

VARIABLES
  synced,     \* broker_sync's Position row of each deal
  linked,     \* trade_intent_id of each Position row
  forced,     \* number of forced Trade rows of each Position row
  pass,       \* the reconciliation pass in progress, or the end of the last
  overlapped  \* history: has a pass ever run beside process_price_update?

supervision == <<synced, linked, forced, pass, overlapped>>
allVars == <<vars, supervision>>

\* The strategy name of adopted intents: none of the running ones.
BrokerSync == "NOBODY"

RowIds == Intents \X {"own", "sync"}
RowOf(d, strategy) == <<d, IF strategy = BrokerSync THEN "sync" ELSE "own">>
RowState(r) == IF r[2] = "own" THEN positions[r[1]] ELSE synced[r[1]]
RowStrategy(r) == IF r[2] = "own" THEN intents[r[1]].strategy ELSE BrokerSync
OpenRows == {r \in RowIds : RowState(r) = "open"}
SetRow(r, state) ==
  IF r[2] = "own"
    THEN positions' = [positions EXCEPT ![r[1]] = state] /\ UNCHANGED synced
    ELSE synced' = [synced EXCEPT ![r[1]] = state] /\ UNCHANGED positions

AtBroker == {d \in Intents : deals[d] \in {"open", "closing"}}

NoEngine == [strategy |-> BrokerSync, number |-> 0]
NoRow == <<None, "own">>
IdlePass == [at |-> "off", remote |-> {}, todo |-> {}, local |-> {},
             row |-> NoRow, how |-> "known",
             intent |-> None, engine |-> NoEngine, quiet |-> FALSE]
Ended == {"off", "done", "raised"}
\* Of a pass that ended only how an undisturbed one ended is remembered.
EndPass(how) ==
  pass' = IF pass.quiet THEN [IdlePass EXCEPT !.at = how, !.quiet = TRUE]
                        ELSE IdlePass
RaisePass == EndPass("raised")

ReconInit ==
  /\ Init
  /\ synced = [d \in Intents |-> Absent]
  /\ linked = [r \in RowIds |-> None]
  /\ forced = [r \in RowIds |-> 0]
  /\ pass = IdlePass
  /\ overlapped = FALSE

-----------------------------------------------------------------------------
(* The two snapshots.                                                      *)

\* broker.get_positions(); an order in doubt is no position yet.  (Bound: a
\* pass that overlaps a price is the last of the behaviour.)
FetchRemote ==
  /\ up
  /\ pass.at \in Ended
  /\ ~overlapped
  /\ loop.at # "idle" => Overlapping
  /\ pass' = [IdlePass EXCEPT !.at = "listing", !.remote = AtBroker,
                              !.todo = AtBroker, !.quiet = loop.at = "idle"]
  /\ overlapped' = (overlapped \/ loop.at # "idle")
  /\ UNCHANGED <<vars, synced, linked, forced>>

ListLocal ==
  /\ pass.at = "listing"
  /\ pass' = [pass EXCEPT !.at = "syncing", !.local = OpenRows]
  /\ UNCHANGED <<vars, synced, linked, forced, overlapped>>

-----------------------------------------------------------------------------
(* A remote position d: its row.                                           *)

RunningEngines == {s \in Strategies : running[s] # 0}
EngineOf(s) == IF s \in RunningEngines
                 THEN [strategy |-> s, number |-> running[s]] ELSE NoEngine
Holders(d) == {s \in RunningEngines : engines[s][running[s]].position = d}
Known(d) == {r \in pass.local : r[1] = d}
Correlated(d) == {i \in Active : intents[i].reference = d}

\* Whose row stands for d: one listed under its reference; failing that, and
\* with one engine running that does not hold d, any row of the instrument.
Matches(d) ==
  IF Known(d) # {} THEN Known(d)
  ELSE IF Holders(d) = {} /\ Cardinality(RunningEngines) = 1 THEN pass.local
  ELSE {}

\* matching_engine: the one of the row's strategy, or one that holds d.
MatchingStrategies(d, strategy) ==
  IF strategy \in RunningEngines \/ Holders(d) = {} THEN {strategy}
                                                    ELSE Holders(d)

Synced(d, how, row, link, intent, strategy) ==
  /\ SetRow(row, "open")
  /\ linked' = [linked EXCEPT ![row] = link]
  /\ pass' = [pass EXCEPT !.at = "linking", !.todo = @ \ {d}, !.row = row,
                !.how = how, !.intent = intent, !.engine = EngineOf(strategy)]
  /\ UNCHANGED <<intents, entries, closes, trades, deals, engines, running,
                 loop, up, forced, overlapped>>

\* record_broker_position writes over the open row of the same strategy and
\* reference.  Without one it inserts, under the primary key of the row that
\* was matched, and that raises.
SyncMatched(d) ==
  /\ pass.at = "syncing" /\ d \in pass.todo
  /\ \E r \in Matches(d) :
       LET row == RowOf(d, RowStrategy(r))
           found == IF Known(d) = {} THEN Correlated(d) ELSE {}
       IN  IF RowState(row) = "open" /\ RowStrategy(row) = RowStrategy(r)
             THEN \E s \in MatchingStrategies(d, RowStrategy(r)) :
                    IF found = {}
                      THEN Synced(d, "known", row, linked[r], linked[r], s)
                      ELSE \E i \in found :
                             Synced(d, "correlated", row, linked[r], i, s)
             ELSE /\ RaisePass
                  /\ UNCHANGED <<vars, synced, linked, forced, overlapped>>

\* The active intent that carries the reference tells whose position it is.
SyncCorrelated(d) ==
  /\ pass.at = "syncing" /\ d \in pass.todo
  /\ Matches(d) = {}
  /\ \E i \in Correlated(d), s \in MatchingStrategies(d, BrokerSync) :
       Synced(d, "correlated", RowOf(d, intents[i].strategy), i, i, s)

\* Nobody knows of it: a row of the engine that holds it, or of broker_sync.
SyncAdopted(d) ==
  /\ pass.at = "syncing" /\ d \in pass.todo
  /\ Matches(d) = {} /\ Correlated(d) = {}
  /\ \E s \in MatchingStrategies(d, BrokerSync) :
       Synced(d, "adopted", RowOf(d, s), None, None, s)

-----------------------------------------------------------------------------
(* Its intent, its execution and its engine.                               *)

\* _resolve_reconciled_trade_intent: provenance is kept, everything else is
\* to become POSITION_OPENED.
ReconciledState(i) ==
  IF pass.how = "known" /\ intents[i].state \in ProvenanceStates
    THEN intents[i].state ELSE "POSITION_OPENED"

LinkIntent ==
  /\ pass.at = "linking"
  /\ pass.intent # None
  /\ LET i == pass.intent
     IN  IF MayBecome(i, ReconciledState(i))
           THEN /\ intents' = [intents EXCEPT ![i].state = ReconciledState(i),
                                              ![i].reference = pass.row[1]]
                /\ linked' = [linked EXCEPT ![pass.row] = i]
                /\ pass' = [pass EXCEPT !.at = IF pass.how = "correlated"
                                           THEN "confirming" ELSE "attaching"]
           ELSE RaisePass /\ UNCHANGED <<intents, linked>>
  /\ UNCHANGED <<entries, closes, positions, trades, deals, engines, running,
                 loop, up, synced, forced, overlapped>>

\* A row without an intent gets one, unless the instrument is owned: the
\* unique index refuses it then (the mutant has no index).
Adoptable_NoIndex == TRUE
Adoptable == Active = {}

\* Under the strategy of its row.
AdoptedIntent(row) ==
  [state |-> IF pass.how = "adopted" THEN "EXTERNAL_POSITION_ADOPTED"
                                     ELSE "POSITION_OPENED",
   strategy |-> RowStrategy(row), reference |-> row[1]]

CreateIntent ==
  /\ pass.at = "linking"
  /\ pass.intent = None
  /\ IF Adoptable
       THEN \E i \in Unused :
              /\ \A j \in Unused : i <= j
              /\ intents' = [intents EXCEPT ![i] = AdoptedIntent(pass.row)]
              /\ linked' = [linked EXCEPT ![pass.row] = i]
              /\ pass' = [pass EXCEPT !.at = "attaching", !.intent = i]
       ELSE RaisePass /\ UNCHANGED <<intents, linked>>
  /\ UNCHANGED <<entries, closes, positions, trades, deals, engines, running,
                 loop, up, synced, forced, overlapped>>

\* _resolve_reconciled_execution: the entry attempt of the intent, if any.
ConfirmExecution ==
  /\ pass.at = "confirming"
  /\ LET s == intents[pass.intent].strategy
         attempts == {t \in Strategies :
                        t = s /\ entries[t].intent = pass.intent}
     IN  IF \A t \in attempts :
              "POSITION_OPENED" \in ExecutionTransitions[entries[t].status]
           THEN /\ entries' = [t \in Strategies |->
                     IF t \in attempts
                       THEN [entries[t] EXCEPT !.status = "POSITION_OPENED"]
                       ELSE entries[t]]
                /\ pass' = [pass EXCEPT !.at = "attaching"]
           ELSE RaisePass /\ UNCHANGED entries
  /\ UNCHANGED <<intents, closes, positions, trades, deals, engines, running,
                 loop, up, synced, linked, forced, overlapped>>

\* The engine found at the start gets the position, stopped or not.
AttachEngine ==
  /\ pass.at = "attaching"
  /\ engines' = IF pass.engine = NoEngine THEN engines
       ELSE [engines EXCEPT ![pass.engine.strategy][pass.engine.number].position
               = pass.row[1]]
  /\ pass' = [pass EXCEPT !.at = "syncing", !.row = NoRow, !.how = "known",
                          !.intent = None, !.engine = NoEngine]
  /\ UNCHANGED <<rows, deals, running, loop, up, synced, linked, forced, overlapped>>

-----------------------------------------------------------------------------
(* The rows that the broker did not report.                                *)

\* (The mutant takes every listed row for missing.)
Missing_Listed == pass.local
Missing == {r \in pass.local : r[1] \notin pass.remote}

CloseMissing ==
  /\ pass.at = "syncing" /\ pass.todo = {}
  /\ \E r \in Missing :
       /\ SetRow(r, "closed")
       /\ pass' = [pass EXCEPT !.at = "trading", !.row = r, !.local = @ \ {r}]
  /\ UNCHANGED <<intents, entries, closes, trades, deals, engines, running,
                 loop, up, linked, forced, overlapped>>

\* _resolve_forced_close_trade_intent: the row's own, an open one of the same
\* reference, or a new one that is FORCED_RECONCILIATION_CLOSE from the start
\* and owns nothing (no number is spent on it).
ForcedIntents(r) ==
  IF linked[r] # None THEN {linked[r]}
  ELSE LET open == {i \in Intents :
             /\ intents[i].state \in {"PARTIALLY_FILLED", "POSITION_OPENED",
                  "CLOSE_REQUESTED"} \cup ProvenanceStates
             /\ intents[i].strategy = RowStrategy(r)
             /\ intents[i].reference = r[1]}
       IN  IF open = {} THEN {None} ELSE open

RecordForcedTrade ==
  /\ pass.at = "trading"
  /\ forced' = [forced EXCEPT ![pass.row] = @ + 1]
  /\ \E i \in ForcedIntents(pass.row) :
       pass' = [pass EXCEPT !.at = "forcing", !.intent = i]
  /\ UNCHANGED <<vars, synced, linked, overlapped>>

ForceIntent ==
  /\ pass.at = "forcing"
  /\ IF pass.intent = None
       THEN pass' = [pass EXCEPT !.at = "detaching"] /\ UNCHANGED intents
     ELSE IF MayBecome(pass.intent, "FORCED_RECONCILIATION_CLOSE")
       THEN /\ SetIntent(pass.intent, "FORCED_RECONCILIATION_CLOSE")
            /\ pass' = [pass EXCEPT !.at = "detaching"]
     ELSE RaisePass /\ UNCHANGED intents
  /\ UNCHANGED <<entries, closes, positions, trades, deals, engines, running,
                 loop, up, synced, linked, forced, overlapped>>

\* The engine that runs now lets go of it (the mutant keeps it).
Released_Kept(d, s) == engines
Released(d, s) ==
  IF s \in RunningEngines /\ engines[s][running[s]].position = d
    THEN [engines EXCEPT ![s][running[s]].position = None] ELSE engines

DetachEngine ==
  /\ pass.at = "detaching"
  /\ engines' = Released(pass.row[1], RowStrategy(pass.row))
  /\ pass' = [pass EXCEPT !.at = "syncing", !.row = NoRow, !.intent = None]
  /\ UNCHANGED <<rows, deals, running, loop, up, synced, linked, forced, overlapped>>

FinishPass ==
  /\ pass.at = "syncing" /\ pass.todo = {} /\ Missing = {}
  /\ EndPass("done")
  /\ UNCHANGED <<vars, synced, linked, forced, overlapped>>

-----------------------------------------------------------------------------
(* The pipeline, the operator and the broker go on meanwhile.              *)

Disturbed ==
  pass' = IF pass.at \in Ended \/ ~up' THEN IdlePass
                                       ELSE [pass EXCEPT !.quiet = FALSE]

\* record_position writes the trade_intent_id with the row.
Trade ==
  /\ Next
  /\ pass.at \notin Ended /\ loop' # loop => Overlapping
  /\ linked' =
       IF Writing("record_position") /\ loop'.todo = Tail(loop.todo)
         THEN [linked EXCEPT ![<<CurrentPosition, "own">>] = Current.intent]
         ELSE linked
  /\ overlapped' = (overlapped \/ (pass.at \notin Ended /\ loop' # loop))
  /\ Disturbed
  /\ UNCHANGED <<synced, forced>>

\* A stop, a margin call or a hand at the broker's own platform.
BrokerCloses ==
  /\ \E d \in Intents : /\ deals[d] = "open"
                        /\ deals' = [deals EXCEPT ![d] = "closed"]
  /\ UNCHANGED <<rows, engines, running, loop, up, synced, linked, forced,
                 overlapped>>
  /\ Disturbed

Reconcile ==
  \/ FetchRemote \/ ListLocal
  \/ \E d \in Intents : SyncMatched(d) \/ SyncCorrelated(d) \/ SyncAdopted(d)
  \/ LinkIntent \/ CreateIntent \/ ConfirmExecution \/ AttachEngine
  \/ CloseMissing \/ RecordForcedTrade \/ ForceIntent \/ DetachEngine
  \/ FinishPass

ReconNext == Reconcile \/ Trade \/ BrokerCloses

ReconSpec == ReconInit /\ [][ReconNext]_allVars

-----------------------------------------------------------------------------
(* Properties                                                              *)

\* A pass that completed while nothing else moved leaves rows and broker in
\* agreement: every deal has an open row whose intent owns the instrument,
\* and no row is open without its deal, nor held by an engine.
PassAgrees ==
  pass.at = "done" /\ pass.quiet /\ ~overlapped =>
    /\ \A d \in AtBroker : \E r \in OpenRows :
         /\ r[1] = d
         /\ linked[r] \in Active
         /\ intents[linked[r]].reference = d
    /\ \A r \in OpenRows : r[1] \in AtBroker
    /\ \A s \in RunningEngines :
         engines[s][running[s]].position \in {None} \cup {r[1] : r \in OpenRows}

\* A row is closed by force only when the broker does not hold its deal.
ForcedCloseIsTrue ==
  [][\A r \in RowIds : forced'[r] > forced[r] => r[1] \notin AtBroker]_allVars

\* Without an overlap, a deal is accounted for once: by the pipeline that
\* closed it or by the pass that missed it.
OneTradePerDeal ==
  ~overlapped => \A d \in Intents :
    trades[d] + forced[<<d, "own">>] + forced[<<d, "sync">>] <= 1
=============================================================================
