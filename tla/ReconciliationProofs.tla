------------------------ MODULE ReconciliationProofs ------------------------
(***************************************************************************)
(* Reconciliation beside the trading pipeline, for every number of         *)
(* strategies, intents and engine starts: types, and one owner for the     *)
(* instrument whatever the passes adopt, force and confirm; and, while no  *)
(* pass overlaps process_price_update, one Trade for each deal and rows    *)
(* that agree with the broker after an undisturbed pass.                   *)
(***************************************************************************)
EXTENDS Reconciliation, TradeLifecycleProofs

-----------------------------------------------------------------------------
(* Types, and intents that exist.                                          *)

WithRow == {"linking", "confirming", "attaching", "trading", "forcing",
            "detaching"}
PassLabels == Ended \cup {"listing", "syncing"} \cup WithRow

RecordTypes ==
  /\ synced \in [Intents -> {Absent, "open", "closed"}]
  /\ linked \in [RowIds -> Intents \cup {None}]
  /\ forced \in [RowIds -> Nat]
  /\ overlapped \in BOOLEAN

PassEngines == [strategy : Strategies, number : Nat] \cup {NoEngine}
PassRecords ==
  [at : PassLabels, remote : SUBSET Intents, todo : SUBSET Intents,
   local : SUBSET RowIds, row : RowIds \cup {NoRow},
   how : {"known", "correlated", "adopted"}, intent : Intents \cup {None},
   engine : PassEngines, quiet : BOOLEAN]

PassTypes ==
  /\ pass \in PassRecords
  /\ pass.at \in WithRow => pass.row \in RowIds

\* The intents that rows and the pass point at exist.
LinksExist ==
  /\ \A r \in RowIds : linked[r] # None => intents[linked[r]].state # Absent
  /\ pass.intent # None => intents[pass.intent].state # Absent

PassInv == RecordTypes /\ PassTypes /\ LinksExist

LEMMA RowTypesOf ==
  /\ \A d \in Intents : \A s : RowOf(d, s) \in RowIds /\ RowOf(d, s)[1] = d
  /\ \A r \in RowIds : r[1] \in Intents /\ r[2] \in {"own", "sync"}
                       /\ r = <<r[1], r[2]>>
  /\ NoRow \notin RowIds
BY DEF RowIds, RowOf, NoRow, Intents, None

LEMMA IdlePassTypes ==
  /\ IdlePass \in PassRecords /\ IdlePass.at = "off"
  /\ IdlePass.intent = None /\ IdlePass.quiet = FALSE
  /\ pass' = IdlePass => PassTypes'
<1>1. NoEngine \in PassEngines /\ NoRow \in RowIds \cup {NoRow}
  BY DEF PassEngines
<1>2. IdlePass.at = "off" /\ "off" \in PassLabels /\ "off" \notin WithRow
  BY DEF IdlePass, PassLabels, Ended, WithRow
<1>3. IdlePass \in PassRecords
  BY <1>1, <1>2 DEF IdlePass, PassRecords
<1>4. IdlePass.intent = None /\ IdlePass.quiet = FALSE
  BY DEF IdlePass
<1> QED
  BY <1>2, <1>3, <1>4 DEF PassTypes

LEMMA SyncedTypes ==
  ASSUME RecordTypes, RowTypes, NEW r \in RowIds,
         NEW state \in {"open", "closed"}, SetRow(r, state)
  PROVE  /\ synced' \in [Intents -> {Absent, "open", "closed"}]
         /\ positions' \in [Intents -> {Absent, "open", "closed"}]
<1>1. r[1] \in Intents
  BY RowTypesOf
<1> QED
  BY <1>1 DEF SetRow, RecordTypes, RowTypes

LEMMA RowTypesKept ==
  ASSUME RowTypes, positions' \in [Intents -> {Absent, "open", "closed"}],
         UNCHANGED <<entries, closes, trades, deals>>
  PROVE  RowTypes'
BY DEF RowTypes

-----------------------------------------------------------------------------
(* Intents that exist go on to exist.                                      *)

LEMMA IntentWritten ==
  ASSUME IntentTypes, NEW i \in Intents, NEW state \in IntentStates,
         NEW reference \in Intents \cup {None},
         intents' = [intents EXCEPT ![i].state = state,
                                    ![i].reference = reference]
  PROVE  /\ IntentTypes'
         /\ intents'[i] = [state |-> state, strategy |-> intents[i].strategy,
                           reference |-> reference]
         /\ \A j \in Intents \ {i} : intents'[j] = intents[j]
<1> DEFINE moved == [intents EXCEPT ![i].state = state]
           row == [state |-> state, strategy |-> intents[i].strategy,
                   reference |-> reference]
<1>1. intents[i] \in [state : IntentStates \cup {Absent},
                      strategy : Strategies \cup {"NOBODY"},
                      reference : Intents \cup {None}]
  BY DEF IntentTypes
<1>2. /\ moved[i] = [state |-> state, strategy |-> intents[i].strategy,
                     reference |-> intents[i].reference]
      /\ \A j \in Intents \ {i} : moved[j] = intents[j]
      /\ DOMAIN moved = Intents /\ DOMAIN intents = Intents
  BY <1>1 DEF IntentTypes
<1>3. intents' = [moved EXCEPT ![i].reference = reference]
  OBVIOUS
<1> HIDE DEF moved
<1>4. [moved[i] EXCEPT !.reference = reference] = row
  BY <1>2
<1>5. intents' = [moved EXCEPT ![i] = row]
  BY <1>3, <1>4
<1>6. row \in [state : IntentStates \cup {Absent},
               strategy : Strategies \cup {"NOBODY"},
               reference : Intents \cup {None}]
  BY <1>1
<1> HIDE DEF row
<1>7. /\ intents'[i] = row /\ \A j \in Intents \ {i} : intents'[j] = intents[j]
      /\ DOMAIN intents' = Intents
  BY <1>2, <1>5
<1>8. intents' = [j \in Intents |-> intents'[j]]
  BY <1>2, <1>5
<1>9. IntentTypes'
  BY <1>6, <1>7, <1>8 DEF IntentTypes
<1> QED
  BY <1>7, <1>9 DEF row

LEMMA NextKeepsIntents == IInv /\ [Next]_vars => KeepsIntents
<1> SUFFICES ASSUME IInv, [Next]_vars PROVE KeepsIntents
  OBVIOUS
<1>1. /\ IntentInv /\ LoopInv
      /\ Absent \notin {"PROPOSED", "APPROVED", "REJECTED", "FAILED"}
  BY PartsOfIInv DEF Absent
<1>2. ASSUME NEW i \in Intents, NEW state,
             state \in {"PROPOSED", "APPROVED", "REJECTED", "FAILED"},
             SetIntent(i, state)
      PROVE  KeepsIntents
  BY <1>1, <1>2 DEF SetIntent, KeepsIntents, IntentInv, IntentTypes
<1>3. CASE intents' = intents
  BY <1>3 DEF KeepsIntents
<1>4. CASE \E g \in loop.signals : ProposeEntry(g)
  <2>1. PICK g \in loop.signals, i \in Unused :
          intents' = [intents EXCEPT ![i].state = "PROPOSED",
                                     ![i].strategy = g.strategy]
    BY <1>4 DEF ProposeEntry
  <2>2. \A j \in Intents \ {i} : intents'[j] = intents[j]
    BY <1>1, <2>1 DEF IntentInv, IntentTypes
  <2>3. intents[i].state = Absent
    BY <2>1 DEF Unused
  <2> QED
    BY <2>2, <2>3 DEF KeepsIntents
<1>5. CASE \E g \in loop.signals, i \in Intents : ReviewEntry(g, i)
  BY <1>2, <1>5 DEF ReviewEntry
<1>6. CASE BlockEntry
  <2>1. Current.intent \in Intents
    BY <1>1, <1>6, CurrentTypes DEF BlockEntry, Deciding
  <2> QED
    BY <1>2, <1>6, <2>1 DEF BlockEntry
<1>7. CASE WriteIntent /\ intents' # intents
  <2> DEFINE i == Current.intent
             reference == IF Writing("referenced") THEN i
                                                   ELSE intents[i].reference
  <2>1. i \in Intents /\ Arg \in IntentStates
    BY <1>1, <1>7, CurrentTypes, ArgTypes
       DEF WriteIntent, Writing, Deciding, Working
  <2>2. intents' = [intents EXCEPT
                      ![i].state = Arg,
                      ![i].reference = IF Writing("referenced") THEN i ELSE @]
    BY <1>7 DEF WriteIntent
  <2> HIDE DEF i
  <2>3. \A j \in Intents \ {i} : intents'[j] = intents[j]
    BY <1>1, <2>1, <2>2 DEF IntentInv, IntentTypes
  <2>4. intents'[i].state = Arg
    BY <1>1, <2>1, <2>2 DEF IntentInv, IntentTypes
  <2> QED
    BY <2>1, <2>3, <2>4, StatesAreKnown DEF KeepsIntents
<1>8. CASE (HandleEntry \/ HandleExit) /\ intents' # intents
  <2>1. Current.intent \in Intents /\ SetIntent(Current.intent, "FAILED")
    BY <1>1, <1>8, CurrentTypes
       DEF HandleEntry, HandleExit, FailOrEscape, Deciding, Working
  <2> QED
    BY <1>2, <2>1
<1>9. \/ intents' = intents \/ BlockEntry \/ WriteIntent
      \/ HandleEntry \/ HandleExit
      \/ \E g \in loop.signals : ProposeEntry(g)
      \/ \E g \in loop.signals, i \in Intents : ReviewEntry(g, i)
  BY DEF Next, vars, rows, EvaluatePrice, Pipeline, BrokerActs, StartEngine,
         StopEngine, RestrictToExits, Crash, Decide, RefuseEntry, LinkExit,
         Orchestrate, SkipDecision, PrepareEntry, PrepareExit, Execute,
         ExecuteEntry, ExecuteExit, WriteRow, WriteExecution, WriteEngine,
         WritePosition, WriteTrade, RaiseException, Handle, StartCall, Answer,
         AnswerEntry, AnswerExit
<1> QED
  BY <1>3, <1>4, <1>5, <1>6, <1>7, <1>8, <1>9

-----------------------------------------------------------------------------
(* The steps of a pass keep the types and the owner.                       *)

LEMMA PassEnds ==
  ASSUME PassTypes, NEW how \in {"done", "raised"}, EndPass(how)
  PROVE  PassTypes' /\ pass'.intent = None /\ pass'.at \in Ended
<1>1. CASE pass' = IdlePass
  BY <1>1, IdlePassTypes DEF Ended
<1>2. CASE pass' = [IdlePass EXCEPT !.at = how, !.quiet = TRUE]
  <2>1. how \in Ended /\ how \in PassLabels /\ how \notin WithRow
    BY DEF Ended, PassLabels, WithRow
  <2>2. pass'.at = how /\ pass'.intent = IdlePass.intent
    BY <1>2, IdlePassTypes DEF PassRecords
  <2> QED
    BY <1>2, <2>1, <2>2, IdlePassTypes DEF PassTypes, PassRecords
<1> QED
  BY <1>1, <1>2 DEF EndPass

LEMMA PassDisturbed ==
  ASSUME PassTypes, Disturbed
  PROVE  PassTypes' /\ pass'.intent \in {None, pass.intent}
<1>1. CASE pass' = IdlePass
  BY <1>1, IdlePassTypes
<1>2. CASE pass' = [pass EXCEPT !.quiet = FALSE]
  BY <1>2 DEF PassTypes, PassRecords
<1> QED
  BY <1>1, <1>2 DEF Disturbed

\* A step that leaves the pipeline's state alone, the links and what they
\* point at.
LEMMA LinksKept ==
  ASSUME LinksExist, KeepsIntents, RecordTypes, PassTypes,
         linked' = linked, pass'.intent \in {None, pass.intent}
  PROVE  LinksExist'
<1>1. \A r \in RowIds : linked[r] \in Intents \cup {None}
  BY DEF RecordTypes
<1>2. pass.intent \in Intents \cup {None}
  BY DEF PassTypes, PassRecords
<1> QED
  BY <1>1, <1>2 DEF LinksExist, KeepsIntents

LEMMA SameKeeps == IInv /\ UNCHANGED vars => IInv' /\ KeepsIntents
BY NextIInv DEF vars, KeepsIntents

LEMMA FetchTypes == IInv /\ PassInv /\ FetchRemote => IInv' /\ PassInv'
<1> SUFFICES ASSUME IInv, PassInv, FetchRemote PROVE IInv' /\ PassInv'
  OBVIOUS
<1>1. IInv' /\ KeepsIntents
  BY SameKeeps DEF FetchRemote
<1>2. /\ pass'.intent = None /\ pass'.at = "listing"
      /\ PassTypes'
  <2>1. /\ "listing" \in PassLabels /\ "listing" \notin WithRow
        /\ AtBroker \in SUBSET Intents
    BY DEF PassLabels, WithRow, AtBroker
  <2>2. pass' = [IdlePass EXCEPT !.at = "listing", !.remote = AtBroker,
                   !.todo = AtBroker, !.quiet = loop.at = "idle"]
    BY DEF FetchRemote
  <2>3. pass'.at = "listing" /\ pass'.intent = None
    BY <2>2, IdlePassTypes DEF PassRecords
  <2> HIDE DEF AtBroker
  <2> QED
    BY <2>1, <2>2, <2>3, IdlePassTypes DEF PassTypes, PassRecords
<1>3. RecordTypes'
  BY DEF FetchRemote, PassInv, RecordTypes
<1> QED
  BY <1>1, <1>2, <1>3, LinksKept DEF PassInv, FetchRemote

LEMMA ListTypes == IInv /\ PassInv /\ ListLocal => IInv' /\ PassInv'
<1> SUFFICES ASSUME IInv, PassInv, ListLocal PROVE IInv' /\ PassInv'
  OBVIOUS
<1>1. IInv' /\ KeepsIntents
  BY SameKeeps DEF ListLocal
<1>2. PassTypes' /\ pass'.intent = pass.intent
  <2>1. "syncing" \in PassLabels /\ "syncing" \notin WithRow
    BY DEF PassLabels, WithRow
  <2>2. OpenRows \in SUBSET RowIds
    BY DEF OpenRows
  <2> QED
    BY <2>1, <2>2 DEF ListLocal, PassInv, PassTypes, PassRecords
<1>3. RecordTypes'
  BY DEF ListLocal, PassInv, RecordTypes
<1> QED
  BY <1>1, <1>2, <1>3, LinksKept DEF PassInv, ListLocal

\* A link to an intent that exists.
LEMMA LinkedTo ==
  ASSUME RecordTypes, LinksExist, intents' = intents \/ KeepsIntents,
         NEW row \in RowIds, NEW link \in Intents \cup {None},
         link # None => intents'[link].state # Absent,
         linked' = [linked EXCEPT ![row] = link]
  PROVE  /\ linked' \in [RowIds -> Intents \cup {None}]
         /\ \A r \in RowIds :
              linked'[r] # None => intents'[linked'[r]].state # Absent
<1>1. linked' \in [RowIds -> Intents \cup {None}]
  BY DEF RecordTypes
<1>2. ASSUME NEW r \in RowIds, linked'[r] # None
      PROVE  intents'[linked'[r]].state # Absent
  <2>1. CASE r = row
    BY <1>2, <2>1 DEF RecordTypes
  <2>2. CASE r # row
    <3>1. linked'[r] = linked[r] /\ linked[r] \in Intents \cup {None}
      BY <2>2 DEF RecordTypes
    <3> QED
      BY <1>2, <3>1 DEF LinksExist, KeepsIntents
  <2> QED
    BY <2>1, <2>2
<1> QED
  BY <1>1, <1>2

LEMMA EngineOfTypes == EngineInv => \A s : EngineOf(s) \in PassEngines
BY DEF EngineInv, EngineTypes, EngineOf, PassEngines, RunningEngines

LEMMA SyncedStep ==
  ASSUME IInv, PassInv, NEW d \in Intents,
         NEW how \in {"known", "correlated", "adopted"}, NEW row \in RowIds,
         NEW link \in Intents \cup {None}, NEW i \in Intents \cup {None},
         NEW s, Synced(d, how, row, link, i, s),
         link # None => intents[link].state # Absent,
         i # None => intents[i].state # Absent
  PROVE  IInv' /\ PassInv'
<1> USE PartsOfIInv
<1>1. /\ UNCHANGED <<intents, entries, closes, trades, deals, engines, running,
                     loop, up, forced, overlapped>>
      /\ SetRow(row, "open") /\ linked' = [linked EXCEPT ![row] = link]
      /\ RecordTypes /\ PassTypes /\ LinksExist
  BY DEF Synced, PassInv
<1>2. IntentInv' /\ KeepsIntents /\ EngineInv' /\ LoopInv'
  BY <1>1, SameIntents, SameEngines, SameLoopKeeps
<1>3. RowTypes' /\ RecordTypes'
  BY <1>1, SyncedTypes, RowTypesKept, LinkedTo DEF RecordTypes
<1>4. pass' = [pass EXCEPT !.at = "linking", !.todo = @ \ {d}, !.row = row,
                !.how = how, !.intent = i, !.engine = EngineOf(s)]
  BY DEF Synced
<1>5. "linking" \in PassLabels /\ EngineOf(s) \in PassEngines
  BY EngineOfTypes DEF PassLabels, WithRow
<1>6. PassTypes' /\ pass'.intent = i
  BY <1>1, <1>4, <1>5 DEF PassTypes, PassRecords
<1>7. LinksExist'
  BY <1>1, <1>2, <1>6, LinkedTo DEF LinksExist
<1> QED
  BY <1>2, <1>3, <1>6, <1>7 DEF PassInv

\* The rows a remote position is matched to.
LEMMA MatchTypes ==
  ASSUME PassTypes, NEW d \in Intents
  PROVE  /\ Matches(d) \subseteq pass.local /\ pass.local \subseteq RowIds
         /\ Known(d) = {r \in pass.local : r[1] = d}
         /\ Correlated(d) \subseteq Active /\ Active \subseteq Intents
BY DEF PassTypes, PassRecords, Matches, Known, Correlated, Active

LEMMA ActiveExist == \A i \in Active : intents[i].state # Absent
BY StatesAreKnown DEF Active

LEMMA SyncTypes ==
  ASSUME IInv, PassInv, NEW d \in Intents,
         SyncMatched(d) \/ SyncCorrelated(d) \/ SyncAdopted(d)
  PROVE  IInv' /\ PassInv'
<1> USE PartsOfIInv, MatchTypes, ActiveExist
<1>1. RecordTypes /\ PassTypes /\ LinksExist
  BY DEF PassInv
<1>2. CASE SyncMatched(d)
  <2>1. PICK r \in Matches(d) :
          LET row == RowOf(d, RowStrategy(r))
              found == IF Known(d) = {} THEN Correlated(d) ELSE {}
          IN  IF RowState(row) = "open" /\ RowStrategy(row) = RowStrategy(r)
                THEN \E s \in MatchingStrategies(d, RowStrategy(r)) :
                       IF found = {}
                         THEN Synced(d, "known", row, linked[r], linked[r], s)
                         ELSE \E i \in found :
                                Synced(d, "correlated", row, linked[r], i, s)
                ELSE /\ RaisePass
                     /\ UNCHANGED <<vars, synced, linked, forced, overlapped>>
    BY <1>2 DEF SyncMatched
  <2>2. CASE RaisePass /\ UNCHANGED <<vars, synced, linked, forced, overlapped>>
    <3>1. PassTypes' /\ pass'.intent = None
      BY <1>1, <2>2, PassEnds DEF RaisePass
    <3>2. IInv' /\ KeepsIntents
      BY <2>2, SameKeeps
    <3>3. RecordTypes'
      BY <1>1, <2>2 DEF RecordTypes
    <3> QED
      BY <1>1, <2>2, <3>1, <3>2, <3>3, LinksKept DEF PassInv
  <2> DEFINE row == RowOf(d, RowStrategy(r))
  <2>3. /\ row \in RowIds /\ r \in RowIds
        /\ linked[r] \in Intents \cup {None}
        /\ linked[r] # None => intents[linked[r]].state # Absent
    BY <1>1, RowTypesOf DEF RecordTypes, LinksExist
  <2>4. CASE \E s : Synced(d, "known", row, linked[r], linked[r], s)
    <3> HIDE DEF row
    <3> QED
      BY <2>3, <2>4, SyncedStep
  <2>5. CASE \E s : \E i \in Correlated(d) :
               Synced(d, "correlated", row, linked[r], i, s)
    <3> HIDE DEF row
    <3>1. PICK i \in Correlated(d) : \E s :
            Synced(d, "correlated", row, linked[r], i, s)
      BY <2>5
    <3>2. i \in Intents /\ intents[i].state # Absent
      BY <1>1
    <3> QED
      BY <2>3, <3>1, <3>2, SyncedStep
  <2> QED
    BY <2>1, <2>2, <2>4, <2>5
<1>3. CASE SyncCorrelated(d)
  <2>1. PICK i \in Correlated(d), s \in MatchingStrategies(d, BrokerSync) :
          Synced(d, "correlated", RowOf(d, intents[i].strategy), i, i, s)
    BY <1>3 DEF SyncCorrelated
  <2>2. i \in Intents /\ intents[i].state # Absent
    BY <1>1
  <2> QED
    BY <2>1, <2>2, RowTypesOf, SyncedStep
<1>4. CASE SyncAdopted(d)
  <2>1. PICK s \in MatchingStrategies(d, BrokerSync) :
          Synced(d, "adopted", RowOf(d, s), None, None, s)
    BY <1>4 DEF SyncAdopted
  <2> QED
    BY <2>1, RowTypesOf, SyncedStep
<1> QED
  BY <1>2, <1>3, <1>4

\* A step of the pass on the intents alone.
LEMMA IntentsOnly ==
  ASSUME IInv, IntentInv', KeepsIntents,
         UNCHANGED <<entries, closes, positions, trades, deals, engines,
                     running, loop, up>>
  PROVE  IInv'
<1> USE PartsOfIInv
<1>1. RowTypes' /\ EngineInv' /\ LoopInv'
  BY SameRows, SameEngines, SameLoopKeeps
<1> QED
  BY <1>1

LEMMA ReconciledTypes ==
  ASSUME NEW i, intents[i].state \in IntentStates \cup {Absent}
  PROVE  ReconciledState(i) \in IntentStates
BY DEF ReconciledState, IntentStates, ActiveOwnershipStates, ProvenanceStates

LEMMA LinkTypes == IInv /\ PassInv /\ LinkIntent => IInv' /\ PassInv'
<1> SUFFICES ASSUME IInv, PassInv, LinkIntent PROVE IInv' /\ PassInv'
  OBVIOUS
<1> USE PartsOfIInv
<1> DEFINE i == pass.intent
           row == pass.row
           state == ReconciledState(i)
<1>1. /\ RecordTypes /\ PassTypes /\ LinksExist /\ IntentInv /\ IntentTypes
      /\ pass \in PassRecords /\ pass.at = "linking" /\ row \in RowIds
      /\ i \in Intents /\ i # None /\ row[1] \in Intents
      /\ intents[i].state \in IntentStates
  <2>1. pass.at = "linking" /\ pass.intent # None
    BY DEF LinkIntent
  <2>2. pass.row \in RowIds /\ pass.intent \in Intents
    BY <2>1 DEF PassInv, PassTypes, PassRecords, WithRow
  <2>3. intents[i].state \in IntentStates
    BY <2>1, <2>2 DEF PassInv, LinksExist, IntentInv, IntentTypes
  <2> QED
    BY <2>1, <2>2, <2>3, RowTypesOf DEF PassInv, PassTypes, IntentInv
<1>2. state \in IntentStates
  BY <1>1, ReconciledTypes
<1>3. UNCHANGED <<entries, closes, positions, trades, deals, engines, running,
                  loop, up, synced, forced, overlapped>>
  BY DEF LinkIntent
<1>4. CASE MayBecome(i, state)
  <2>1. /\ intents' = [intents EXCEPT ![i].state = state,
                                      ![i].reference = row[1]]
        /\ linked' = [linked EXCEPT ![row] = i]
        /\ pass' = [pass EXCEPT !.at = IF pass.how = "correlated"
                                         THEN "confirming" ELSE "attaching"]
    BY <1>4 DEF LinkIntent
  <2>2. state \in ActiveOwnershipStates =>
          intents[i].state \in ActiveOwnershipStates
    BY <1>1, <1>4, EndedStaysEnded DEF MayBecome
  <2> HIDE DEF i, row, state
  <2>3. /\ IntentTypes' /\ intents'[i].state = state
        /\ \A j \in Intents \ {i} : intents'[j] = intents[j]
    <3>1. row[1] \in Intents \cup {None} /\ i \in Intents
      BY <1>1
    <3>2. /\ IntentTypes'
          /\ intents'[i] = [state |-> state, strategy |-> intents[i].strategy,
                            reference |-> row[1]]
          /\ \A j \in Intents \ {i} : intents'[j] = intents[j]
      BY <1>1, <1>2, <2>1, <3>1, IntentWritten
    <3> QED
      BY <3>2
  <2>4. IntentInv' /\ KeepsIntents
    BY <1>1, <1>2, <2>2, <2>3, ChangedIntent, StatesAreKnown
  <2>5. IInv'
    BY <1>3, <2>4, IntentsOnly
  <2>6. /\ linked' \in [RowIds -> Intents \cup {None}]
        /\ \A r \in RowIds :
             linked'[r] # None => intents'[linked'[r]].state # Absent
    <3>1. intents'[i].state # Absent
      BY <1>2, <2>3, StatesAreKnown
    <3> QED
      BY <1>1, <2>1, <2>4, <3>1, LinkedTo
  <2>7. PassTypes' /\ pass'.intent = pass.intent
    <3>1. {"confirming", "attaching"} \subseteq PassLabels
      BY DEF PassLabels, WithRow
    <3> QED
      BY <1>1, <2>1, <3>1 DEF PassTypes, PassRecords, row
  <2>8. pass.intent \in Intents \cup {None}
    BY <1>1 DEF PassRecords
  <2> QED
    BY <1>1, <1>3, <2>4, <2>5, <2>6, <2>7, <2>8
       DEF PassInv, RecordTypes, LinksExist, KeepsIntents
<1>5. CASE ~MayBecome(i, state)
  <2>1. RaisePass /\ UNCHANGED <<intents, linked>>
    BY <1>5 DEF LinkIntent
  <2>2. IInv' /\ KeepsIntents
    BY <1>3, <2>1, SameKeeps DEF vars
  <2>3. PassTypes' /\ pass'.intent = None
    BY <1>1, <2>1, PassEnds DEF RaisePass
  <2> QED
    BY <1>1, <1>3, <2>1, <2>2, <2>3, LinksKept DEF PassInv, RecordTypes
<1> QED
  BY <1>4, <1>5

\* An adopted intent is the only owner: the index refused it otherwise.
LEMMA CreateTypes == IInv /\ PassInv /\ CreateIntent => IInv' /\ PassInv'
<1> SUFFICES ASSUME IInv, PassInv, CreateIntent PROVE IInv' /\ PassInv'
  OBVIOUS
<1> USE PartsOfIInv
<1> DEFINE row == pass.row
<1>1. /\ RecordTypes /\ PassTypes /\ LinksExist /\ IntentInv /\ IntentTypes
      /\ pass \in PassRecords /\ row \in RowIds /\ row[1] \in Intents
  BY RowTypesOf
     DEF CreateIntent, PassInv, PassTypes, WithRow, IntentInv
<1>2. UNCHANGED <<entries, closes, positions, trades, deals, engines, running,
                  loop, up, synced, forced, overlapped>>
  BY DEF CreateIntent
<1>3. CASE Adoptable
  <2>1. PICK i \in Unused :
          /\ intents' = [intents EXCEPT ![i] = AdoptedIntent(row)]
          /\ linked' = [linked EXCEPT ![row] = i]
          /\ pass' = [pass EXCEPT !.at = "attaching", !.intent = i]
    BY <1>3 DEF CreateIntent
  <2>2. i \in Intents
    BY <2>1 DEF Unused
  <2>3. AdoptedIntent(row) \in [state : IntentStates,
                                strategy : Strategies \cup {"NOBODY"},
                                reference : Intents \cup {None}]
    <3>1. {"EXTERNAL_POSITION_ADOPTED", "POSITION_OPENED"} \subseteq IntentStates
      BY DEF IntentStates, ActiveOwnershipStates
    <3>2. RowStrategy(row) \in Strategies \cup {"NOBODY"}
      BY <1>1 DEF RowStrategy, IntentTypes, BrokerSync
    <3> QED
      BY <1>1, <3>1, <3>2 DEF AdoptedIntent
  <2> HIDE DEF row
  <2>4. /\ intents'[i] = AdoptedIntent(row)
        /\ \A j \in Intents \ {i} : intents'[j] = intents[j]
        /\ IntentTypes'
    BY <1>1, <2>1, <2>2, <2>3 DEF IntentTypes
  <2>5. KeepsIntents /\ intents'[i].state # Absent
    BY <2>3, <2>4, StatesAreKnown DEF KeepsIntents
  <2>6. OneActiveOwner'
    BY <1>3, <2>4 DEF Adoptable, OneActiveOwner, Active
  <2>7. IInv'
    BY <1>2, <2>4, <2>5, <2>6, IntentsOnly DEF IntentInv
  <2>8. /\ linked' \in [RowIds -> Intents \cup {None}]
        /\ \A r \in RowIds :
             linked'[r] # None => intents'[linked'[r]].state # Absent
    BY <1>1, <2>1, <2>2, <2>5, LinkedTo
  <2>9. PassTypes' /\ pass'.intent = i
    <3>1. "attaching" \in PassLabels
      BY DEF PassLabels, WithRow
    <3> QED
      BY <1>1, <2>1, <2>2, <3>1 DEF PassTypes, PassRecords, row
  <2> QED
    BY <1>1, <1>2, <2>5, <2>7, <2>8, <2>9 DEF PassInv, RecordTypes, LinksExist
<1>4. CASE ~Adoptable
  <2>1. RaisePass /\ UNCHANGED <<intents, linked>>
    BY <1>4 DEF CreateIntent
  <2>2. IInv' /\ KeepsIntents
    BY <1>2, <2>1, SameKeeps DEF vars
  <2>3. PassTypes' /\ pass'.intent = None
    BY <1>1, <2>1, PassEnds DEF RaisePass
  <2> QED
    BY <1>1, <1>2, <2>1, <2>2, <2>3, LinksKept DEF PassInv, RecordTypes
<1> QED
  BY <1>3, <1>4

\* A step of the pass that leaves intents and links alone.
LEMMA PassStep ==
  ASSUME PassInv, intents' = intents, linked' = linked,
         synced' \in [Intents -> {Absent, "open", "closed"}],
         forced' \in [RowIds -> Nat], overlapped' = overlapped,
         PassTypes', pass'.intent \in {None, pass.intent}
  PROVE  PassInv'
<1>1. RecordTypes' /\ KeepsIntents
  BY DEF PassInv, RecordTypes, KeepsIntents
<1> QED
  BY <1>1, LinksKept DEF PassInv

LEMMA ConfirmTypes == IInv /\ PassInv /\ ConfirmExecution => IInv' /\ PassInv'
<1> SUFFICES ASSUME IInv, PassInv, ConfirmExecution PROVE IInv' /\ PassInv'
  OBVIOUS
<1> USE PartsOfIInv
<1>1. UNCHANGED <<intents, closes, positions, trades, deals, engines, running,
                  loop, up, synced, linked, forced, overlapped>>
  BY DEF ConfirmExecution
<1>2. IntentInv' /\ EngineInv' /\ LoopInv'
  BY <1>1, SameIntents, SameEngines, SameLoopKeeps
<1>3. entries' \in [Strategies -> [status : ExecutionStatuses \cup {Absent},
                                   intent : Intents \cup {None}]]
  <2>1. CASE entries' = entries
    BY <2>1 DEF RowTypes
  <2>2. CASE entries' # entries
    <3>1. PICK attempts \in SUBSET Strategies :
            entries' = [t \in Strategies |->
                     IF t \in attempts
                       THEN [entries[t] EXCEPT !.status = "POSITION_OPENED"]
                       ELSE entries[t]]
      BY <2>2 DEF ConfirmExecution
    <3>2. "POSITION_OPENED" \in ExecutionStatuses
      BY DEF ExecutionStatuses, ExecutionTerminalStatuses
    <3> QED
      BY <3>1, <3>2 DEF RowTypes
  <2> QED
    BY <2>1, <2>2
<1>4. RowTypes'
  BY <1>1, <1>3 DEF RowTypes
<1>5. PassTypes' /\ pass'.intent \in {None, pass.intent}
  <2>1. PassTypes /\ pass.at \in WithRow
    BY DEF PassInv, ConfirmExecution, WithRow
  <2>2. CASE pass' = [pass EXCEPT !.at = "attaching"]
    BY <2>1, <2>2 DEF PassTypes, PassRecords, PassLabels, WithRow
  <2> QED
    BY <2>1, <2>2, PassEnds DEF ConfirmExecution, RaisePass
<1> QED
  BY <1>1, <1>2, <1>4, <1>5, PassStep DEF PassInv, RecordTypes

LEMMA AttachTypes == IInv /\ PassInv /\ AttachEngine => IInv' /\ PassInv'
<1> SUFFICES ASSUME IInv, PassInv, AttachEngine PROVE IInv' /\ PassInv'
  OBVIOUS
<1> USE PartsOfIInv
<1>1. UNCHANGED <<rows, deals, running, loop, up, synced, linked, forced,
                  overlapped>>
  BY DEF AttachEngine
<1>2. /\ pass \in PassRecords /\ pass.row[1] \in Intents
  BY RowTypesOf DEF AttachEngine, PassInv, PassTypes, WithRow
<1>3. EngineInv'
  <2>1. CASE engines' = engines
    BY <1>1, <2>1, SameEngines
  <2>2. CASE pass.engine # NoEngine
    <3>1. pass.engine.strategy \in Strategies
      BY <1>2, <2>2 DEF PassRecords, PassEngines
    <3>2. engines' = [engines EXCEPT
                        ![pass.engine.strategy][pass.engine.number].position
                          = pass.row[1]]
      BY <2>2 DEF AttachEngine
    <3> QED
      BY <1>1, <1>2, <3>1, <3>2, ChangedField
  <2> QED
    BY <2>1, <2>2 DEF AttachEngine
<1>4. IntentInv' /\ RowTypes' /\ LoopInv'
  BY <1>1, SameIntents, SameRows, SameLoopKeeps DEF rows
<1>5. PassTypes' /\ pass'.intent = None
  <2>1. pass' = [pass EXCEPT !.at = "syncing", !.row = NoRow, !.how = "known",
                             !.intent = None, !.engine = NoEngine]
    BY DEF AttachEngine
  <2> QED
    BY <1>2, <2>1 DEF PassTypes, PassRecords, PassLabels, WithRow, PassEngines
<1> QED
  BY <1>1, <1>3, <1>4, <1>5, PassStep DEF PassInv, RecordTypes, rows

LEMMA MissingTypes == IInv /\ PassInv /\ CloseMissing => IInv' /\ PassInv'
<1> SUFFICES ASSUME IInv, PassInv, CloseMissing PROVE IInv' /\ PassInv'
  OBVIOUS
<1> USE PartsOfIInv
<1>1. UNCHANGED <<intents, entries, closes, trades, deals, engines, running,
                  loop, up, linked, forced, overlapped>>
  BY DEF CloseMissing
<1>2. PICK r \in Missing :
        /\ SetRow(r, "closed")
        /\ pass' = [pass EXCEPT !.at = "trading", !.row = r, !.local = @ \ {r}]
  BY DEF CloseMissing
<1>3. r \in RowIds /\ pass \in PassRecords
  BY DEF Missing, PassInv, PassTypes, PassRecords
<1>4. PassTypes' /\ pass'.intent = pass.intent
  BY <1>2, <1>3 DEF PassTypes, PassRecords, PassLabels, WithRow
<1>5. /\ synced' \in [Intents -> {Absent, "open", "closed"}]
      /\ positions' \in [Intents -> {Absent, "open", "closed"}]
  BY <1>2, <1>3, SyncedTypes DEF PassInv
<1>6. IntentInv' /\ RowTypes' /\ EngineInv' /\ LoopInv'
  BY <1>1, <1>5, SameIntents, SameEngines, SameLoopKeeps, RowTypesKept
<1> QED
  BY <1>1, <1>4, <1>5, <1>6, PassStep DEF PassInv, RecordTypes

LEMMA ForcedTradeTypes ==
  IInv /\ PassInv /\ RecordForcedTrade => IInv' /\ PassInv'
<1> SUFFICES ASSUME IInv, PassInv, RecordForcedTrade PROVE IInv' /\ PassInv'
  OBVIOUS
<1>1. IInv' /\ KeepsIntents
  BY SameKeeps DEF RecordForcedTrade
<1>2. /\ RecordTypes /\ PassTypes /\ LinksExist /\ pass \in PassRecords
      /\ pass.row \in RowIds
  BY DEF RecordForcedTrade, PassInv, PassTypes, WithRow
<1>3. PICK i \in ForcedIntents(pass.row) :
        pass' = [pass EXCEPT !.at = "forcing", !.intent = i]
  BY DEF RecordForcedTrade
<1>4. /\ i \in Intents \cup {None}
      /\ i # None => intents[i].state # Absent
  <2>1. CASE linked[pass.row] # None
    BY <1>2, <1>3, <2>1 DEF ForcedIntents, RecordTypes, LinksExist
  <2>2. CASE linked[pass.row] = None
    BY <1>3, <2>2 DEF ForcedIntents, ProvenanceStates, Absent
  <2> QED
    BY <2>1, <2>2
<1>5. PassTypes' /\ pass'.intent = i
  BY <1>2, <1>3, <1>4 DEF PassTypes, PassRecords, PassLabels, WithRow
<1>6. /\ forced' = [forced EXCEPT ![pass.row] = @ + 1]
      /\ UNCHANGED <<intents, synced, linked, overlapped>>
  BY DEF RecordForcedTrade, vars
<1>7. RecordTypes'
  BY <1>2, <1>6 DEF RecordTypes
<1>8. LinksExist'
  BY <1>2, <1>4, <1>5, <1>6 DEF LinksExist
<1> QED
  BY <1>1, <1>5, <1>7, <1>8 DEF PassInv

LEMMA ForceTypes == IInv /\ PassInv /\ ForceIntent => IInv' /\ PassInv'
<1> SUFFICES ASSUME IInv, PassInv, ForceIntent PROVE IInv' /\ PassInv'
  OBVIOUS
<1> USE PartsOfIInv
<1>1. UNCHANGED <<entries, closes, positions, trades, deals, engines, running,
                  loop, up, synced, linked, forced, overlapped>>
  BY DEF ForceIntent
<1>2. RecordTypes /\ PassTypes /\ LinksExist /\ pass.at \in WithRow
  BY DEF PassInv, ForceIntent, WithRow
<1>3. pass.intent \in Intents \cup {None}
  BY <1>2 DEF PassTypes, PassRecords
<1>4. IntentInv' /\ KeepsIntents
  <2>1. CASE intents' = intents
    BY <2>1, SameIntents
  <2>2. CASE /\ pass.intent # None
             /\ SetIntent(pass.intent, "FORCED_RECONCILIATION_CLOSE")
    <3>1. /\ "FORCED_RECONCILIATION_CLOSE" \in IntentStates
          /\ "FORCED_RECONCILIATION_CLOSE" \notin ActiveOwnershipStates
      BY DEF IntentStates, IntentTerminalStates, ActiveOwnershipStates
    <3> QED
      BY <1>3, <2>2, <3>1, SetIntentKeeps
  <2> QED
    BY <2>1, <2>2 DEF ForceIntent
<1>5. IInv'
  BY <1>1, <1>4, IntentsOnly
<1>6. PassTypes' /\ pass'.intent \in {None, pass.intent}
  <2>1. CASE pass' = [pass EXCEPT !.at = "detaching"]
    BY <1>2, <2>1 DEF PassTypes, PassRecords, PassLabels, WithRow
  <2> QED
    BY <1>2, <2>1, PassEnds DEF ForceIntent, RaisePass
<1> QED
  BY <1>1, <1>2, <1>4, <1>5, <1>6, LinksKept DEF PassInv, RecordTypes

LEMMA ReleasedTypes ==
  ASSUME EngineInv, NEW d, NEW s, engines' = Released(d, s),
         running' = running, up' = up
  PROVE  EngineInv'
<1>1. CASE engines' = engines
  BY <1>1, SameEngines
<1>2. CASE /\ s \in RunningEngines
           /\ engines' = [engines EXCEPT ![s][running[s]].position = None]
  <2>1. s \in Strategies /\ None \in Intents \cup {None}
    BY <1>2 DEF RunningEngines
  <2> QED
    BY ONLY EngineInv, running' = running, up' = up, <1>2, <2>1, ChangedField
<1> QED
  BY <1>1, <1>2 DEF Released

LEMMA DetachTypes == IInv /\ PassInv /\ DetachEngine => IInv' /\ PassInv'
<1> SUFFICES ASSUME IInv, PassInv, DetachEngine PROVE IInv' /\ PassInv'
  OBVIOUS
<1> USE PartsOfIInv
<1>1. UNCHANGED <<rows, deals, running, loop, up, synced, linked, forced,
                  overlapped>>
  BY DEF DetachEngine
<1>2. EngineInv'
  BY <1>1, ReleasedTypes DEF DetachEngine
<1>3. IntentInv' /\ RowTypes' /\ LoopInv'
  BY <1>1, SameIntents, SameRows, SameLoopKeeps DEF rows
<1>4. PassTypes' /\ pass'.intent = None
  <2>1. pass \in PassRecords
    BY DEF PassInv, PassTypes
  <2>2. pass' = [pass EXCEPT !.at = "syncing", !.row = NoRow, !.intent = None]
    BY DEF DetachEngine
  <2> QED
    BY <2>1, <2>2 DEF PassTypes, PassRecords, PassLabels, WithRow
<1> QED
  BY <1>1, <1>2, <1>3, <1>4, PassStep DEF PassInv, RecordTypes, rows

LEMMA FinishTypes == IInv /\ PassInv /\ FinishPass => IInv' /\ PassInv'
<1> SUFFICES ASSUME IInv, PassInv, FinishPass PROVE IInv' /\ PassInv'
  OBVIOUS
<1>1. IInv' /\ UNCHANGED <<intents, linked, synced, forced, overlapped>>
  BY SameKeeps DEF FinishPass, vars
<1>2. PassTypes' /\ pass'.intent = None
  BY PassEnds DEF FinishPass, PassInv
<1> QED
  BY <1>1, <1>2, PassStep DEF PassInv, RecordTypes

LEMMA ReconcileTypes == IInv /\ PassInv /\ Reconcile => IInv' /\ PassInv'
BY FetchTypes, ListTypes, SyncTypes, LinkTypes, CreateTypes, ConfirmTypes,
   AttachTypes, MissingTypes, ForcedTradeTypes, ForceTypes, DetachTypes,
   FinishTypes DEF Reconcile

\* record_position links the row of an intent that exists.
LEMMA TradeTypes == IInv /\ PassInv /\ Trade => IInv' /\ PassInv'
<1> SUFFICES ASSUME IInv, PassInv, Trade PROVE IInv' /\ PassInv'
  OBVIOUS
<1> USE PartsOfIInv
<1>1. IInv' /\ KeepsIntents
  BY NextIInv, NextKeepsIntents DEF Trade
<1>2. RecordTypes /\ PassTypes /\ LinksExist
  BY DEF PassInv
<1>3. PassTypes' /\ pass'.intent \in {None, pass.intent}
  BY <1>2, PassDisturbed DEF Trade
<1>4. synced' = synced /\ forced' = forced /\ overlapped' \in BOOLEAN
  BY <1>2 DEF Trade, RecordTypes
<1>5. CASE linked' = linked
  <2>1. RecordTypes'
    BY <1>2, <1>4, <1>5 DEF RecordTypes
  <2> QED
    BY <1>1, <1>2, <1>3, <1>5, <2>1, LinksKept DEF PassInv
<1>6. CASE /\ Writing("record_position")
           /\ linked' = [linked EXCEPT
                           ![<<CurrentPosition, "own">>] = Current.intent]
  <2>1. /\ Current \in Decisions /\ Current.intent \in Intents
        /\ intents[Current.intent].state # Absent
    BY <1>6, DecisionTypes, CurrentTypes DEF Writing, Deciding, Working
  <2>2. intents'[Current.intent].state # Absent
    BY <1>1, <2>1 DEF KeepsIntents
  <2>3. /\ linked' \in [RowIds -> Intents \cup {None}]
        /\ \A r \in RowIds :
             linked'[r] # None => intents'[linked'[r]].state # Absent
    <3>1. CASE <<CurrentPosition, "own">> \in RowIds
      BY <1>1, <1>2, <1>6, <2>1, <2>2, <3>1, LinkedTo
    <3>2. CASE <<CurrentPosition, "own">> \notin RowIds
      <4>1. linked' = linked
        BY <1>2, <1>6, <3>2 DEF RecordTypes
      <4> QED
        BY <1>1, <1>2, <4>1 DEF RecordTypes, LinksExist, KeepsIntents
    <3> QED
      BY <3>1, <3>2
  <2>4. pass.intent \in Intents \cup {None}
    BY <1>2 DEF PassTypes, PassRecords
  <2>5. LinksExist' /\ RecordTypes'
    BY <1>1, <1>2, <1>3, <1>4, <2>3, <2>4
       DEF LinksExist, RecordTypes, KeepsIntents
  <2> QED
    BY <1>1, <1>3, <2>5 DEF PassInv
<1> QED
  BY <1>5, <1>6 DEF Trade

LEMMA BrokerClosesTypes == IInv /\ PassInv /\ BrokerCloses => IInv' /\ PassInv'
<1> SUFFICES ASSUME IInv, PassInv, BrokerCloses PROVE IInv' /\ PassInv'
  OBVIOUS
<1> USE PartsOfIInv
<1>1. UNCHANGED <<rows, engines, running, loop, up, synced, linked, forced,
                  overlapped>>
  BY DEF BrokerCloses
<1>2. deals' \in [Intents -> DealStates]
  <2>1. "closed" \in DealStates
    BY DEF DealStates
  <2> QED
    BY <2>1 DEF BrokerCloses, RowTypes
<1>3. IntentInv' /\ RowTypes' /\ EngineInv' /\ LoopInv'
  <2>1. RowTypes'
    BY <1>1, <1>2 DEF RowTypes, rows
  <2> QED
    BY <1>1, <2>1, SameIntents, SameEngines, SameLoopKeeps DEF rows
<1>4. PassTypes' /\ pass'.intent \in {None, pass.intent}
  BY PassDisturbed DEF BrokerCloses, PassInv
<1> QED
  BY <1>1, <1>3, <1>4, PassStep DEF PassInv, RecordTypes, rows

LEMMA InitTypes == ReconInit => IInv /\ PassInv
<1> SUFFICES ASSUME ReconInit PROVE IInv /\ PassInv
  OBVIOUS
<1>1. IInv
  BY InitIInv DEF ReconInit
<1>2. RecordTypes
  BY DEF ReconInit, RecordTypes
<1>3. PassTypes /\ pass.intent = None
  <2>1. pass = IdlePass
    BY DEF ReconInit
  <2> QED
    BY <2>1, IdlePassTypes DEF PassTypes, WithRow
<1>4. LinksExist
  BY <1>3 DEF ReconInit, LinksExist
<1> QED
  BY <1>1, <1>2, <1>3, <1>4 DEF PassInv

LEMMA ReconTypes == IInv /\ PassInv /\ [ReconNext]_allVars => IInv' /\ PassInv'
<1> SUFFICES ASSUME IInv, PassInv, [ReconNext]_allVars PROVE IInv' /\ PassInv'
  OBVIOUS
<1>1. CASE UNCHANGED allVars
  <2>1. IInv'
    BY <1>1, SameKeeps DEF allVars
  <2>2. PassTypes' /\ pass' = pass
    BY <1>1 DEF PassInv, PassTypes, PassRecords, allVars, supervision
  <2> QED
    BY <1>1, <2>1, <2>2, PassStep
       DEF PassInv, RecordTypes, allVars, supervision, vars
<1> QED
  BY <1>1, ReconcileTypes, TradeTypes, BrokerClosesTypes DEF ReconNext

\* Types, and links to intents that exist, in every state of the pipeline and
\* the passes beside it.
THEOREM ReconInvariant == ReconSpec => [](IInv /\ PassInv)
BY InitTypes, ReconTypes, PTL DEF ReconSpec

\* Adoption never makes a second owner (OneActiveOwner), whenever a pass runs
\* beside the pipeline and whatever it found in its two snapshots.
THEOREM ReconSingleOwner == ReconSpec => []OneActiveOwner
<1>1. IInv => OneActiveOwner
  BY DEF IInv
<1> QED
  BY <1>1, ReconInvariant, PTL

-----------------------------------------------------------------------------
(* Without an overlap: rows, intents, deals and engines at every step of a *)
(* pass.  Between passes the invariant of the pipeline (RiskInv) holds.  A *)
(* pass that is under way finds the pipeline idle, and only the row it is  *)
(* closing by force is out of line with its intent, its deal and its       *)
(* engine.                                                                 *)

Own(d) == <<d, "own">>
Sync(d) == <<d, "sync">>
Closing == {"trading", "forcing", "detaching"}

\* The deal whose own row a pass has closed by force, until it is done with it.
Gone == IF pass.at \in Closing /\ pass.row[2] = "own" THEN {pass.row[1]} ELSE {}
GoneRow(d) ==
  /\ positions[d] = "closed" /\ deals[d] = "closed" /\ trades[d] = 0
  /\ intents[d].reference = d /\ intents[d].strategy \in Strategies
  /\ intents[d].state \in IF pass.at = "detaching"
       THEN {"FORCED_RECONCILIATION_CLOSE"} ELSE Closeable

\* RiskInv with an idle loop: RowInv and RestInv of every intent but that one,
\* and HoldInv of the engines that run.
Settled(i) == IF i \in Gone THEN GoneRow(i) ELSE RowsAgree(i) /\ AtRest(i)
Holding(s) ==
  LET d == engines[s][running[s]].position IN
  running[s] # 0 /\ d # None =>
    intents[d].strategy = s /\ (positions[d] = "open" \/ d \in Gone)
Quiescent == loop.at = "idle" /\ loop.signals = {} /\ loop.decisions = <<>>
PassRisk ==
  /\ Quiescent
  /\ \A i \in Intents : Settled(i)
  /\ \A s \in Strategies : Holding(s)

\* The two rows of a deal exclude each other, each is linked to its own intent,
\* and each has a forced Trade when a pass has closed it.
Recorded(d) ==
  /\ synced[d] # Absent =>
       /\ positions[d] = Absent /\ deals[d] \in {"open", "closing", "closed"}
  /\ synced[d] = "closed" => deals[d] = "closed"
  /\ positions[d] # Absent => linked[Own(d)] = d /\ intents[d].reference = d
  /\ linked[Sync(d)] # None =>
       /\ Foreign(linked[Sync(d)]) /\ intents[linked[Sync(d)]].reference = d
       /\ synced[d] # Absent
  /\ forced[Own(d)] = IF d \in Gone
       THEN IF pass.at = "trading" THEN 0 ELSE 1
       ELSE IF intents[d].state = "FORCED_RECONCILIATION_CLOSE"
               /\ intents[d].strategy \in Strategies THEN 1 ELSE 0
  /\ forced[Sync(d)] =
       IF synced[d] = "closed" /\ ~(pass.at = "trading" /\ pass.row = Sync(d))
         THEN 1 ELSE 0

\* An adopted intent owns the instrument as long as its row is open.
Adopted(i) ==
  LET d == intents[i].reference IN
  Foreign(i) /\ i \in Active =>
    /\ d \in Intents /\ linked[Sync(d)] = i
    /\ \/ synced[d] = "open"
       \/ pass.at \in {"trading", "forcing"} /\ pass.row = Sync(d)

\* broker_sync has no row of the deal that an entry in flight opens.
Unrecorded ==
  InFlight /\ Current.kind = "entry" => synced[Current.intent] = Absent

\* The remote positions that the pass has brought into a row, and what its two
\* snapshots still say of the tables and of the broker.
Brought == pass.remote \ pass.todo
Snapshots ==
  /\ pass.todo \subseteq pass.remote
  /\ pass.at = "listing" => pass.todo = pass.remote
  /\ \A d \in pass.remote :
       /\ deals[d] \in {"open", "closing", "closed"}
       /\ positions[d] # "closed" /\ synced[d] # "closed"
  /\ \A r \in OpenRows : r[1] \in pass.remote \/ deals[r[1]] = "closed"
  /\ pass.at # "listing" =>
       /\ pass.local \subseteq OpenRows
       /\ \A r \in OpenRows : r \in pass.local \/ r[1] \in Brought

\* The row that the pass is working on.
AtRow ==
  /\ pass.at # "confirming"
  /\ pass.at \in {"linking", "attaching", "forcing", "detaching"} =>
       pass.intent = linked[pass.row]
  /\ pass.at \in {"linking", "attaching"} =>
       /\ pass.row \in OpenRows /\ pass.row[1] \in Brought
       /\ pass.how # "correlated"
       /\ pass.engine # NoEngine =>
            /\ pass.row[2] = "own"
            /\ pass.engine.strategy = intents[pass.row[1]].strategy
            /\ pass.engine.number \in 1 .. Len(engines[pass.engine.strategy])
  /\ pass.at \in Closing =>
       /\ pass.todo = {}
       /\ RowState(pass.row) = "closed" /\ pass.row[1] \notin pass.remote

\* While nothing disturbs the pass, what it has brought in is what PassAgrees
\* asks for in the end.
Agreed(d) == \E r \in OpenRows : r[1] = d /\ linked[r] \in Active
               /\ intents[linked[r]].reference = d
Agreeing ==
  pass.quiet =>
    /\ pass.remote = AtBroker
    /\ \A d \in Brought :
         Agreed(d) \/ (pass.at = "linking" /\ pass.row[1] = d)

AtWork ==
  /\ IF pass.at \in Ended THEN RiskInv
                          ELSE PassRisk /\ Snapshots /\ AtRow /\ Agreeing
  /\ \A d \in Intents : Recorded(d)
  /\ \A i \in Intents : Adopted(i)
  /\ Unrecorded
AgreeInv ==
  ~overlapped =>
    /\ OneTradePerDeal
    /\ PassAgrees
    /\ ~up => pass.at \in Ended /\ loop.at = "idle"
    /\ up => AtWork

-----------------------------------------------------------------------------
(* What a step of the pipeline leaves of intents, deals and rows.          *)

Forced == "FORCED_RECONCILIATION_CLOSE"

LEMMA ForcedIsFinal ==
  /\ \A to \in IntentTransitions[Forced] : to = Forced
  /\ \A state \in Closeable \cup ProvenanceStates \cup {Forced} :
       Forced \in IntentTransitions[state]
  /\ Forced \notin ActiveOwnershipStates \cup OpenStates \cup Lost
       \cup {"CLOSED", "PROPOSED", "APPROVED", "REJECTED"} \cup Closeable
  /\ ProvenanceStates \cup Closeable \subseteq ActiveOwnershipStates
  /\ Forced \in IntentStates
BY DEF Forced, IntentTransitions, IntentStates, IntentTerminalStates,
       ActiveOwnershipStates, Reclosable, ProvenanceStates, Closeable,
       OpenStates, Lost

KeepsRecord(i) ==
  \/ intents'[i] = intents[i]
  \/ /\ intents[i].state = Absent /\ intents'[i].state = "PROPOSED"
     /\ intents'[i].reference = intents[i].reference
  \/ /\ intents[i].strategy \in Strategies
     /\ intents'[i].strategy = intents[i].strategy
     /\ intents'[i].reference \in {intents[i].reference, i}
     /\ Absent \notin {intents[i].state, intents'[i].state}
     /\ Forced \notin {intents[i].state, intents'[i].state}

LEMMA OneWritten ==
  ASSUME IntentTypes, NEW i \in Intents, NEW state, SetIntent(i, state),
         intents[i].strategy \in Strategies,
         Absent \notin {intents[i].state, state},
         Forced \notin {intents[i].state, state}
  PROVE  \A j \in Intents : KeepsRecord(j)
<1>1. /\ intents'[i].state = state
      /\ intents'[i].strategy = intents[i].strategy
      /\ intents'[i].reference = intents[i].reference
      /\ \A j \in Intents \ {i} : intents'[j] = intents[j]
  BY DEF SetIntent, IntentTypes
<1> QED
  BY <1>1 DEF KeepsRecord

LEMMA DecideKeepsRecords ==
  IInv /\ RiskInv /\ Decide => \A i \in Intents : KeepsRecord(i)
<1> SUFFICES ASSUME IInv, RiskInv, Decide
             PROVE  \A i \in Intents : KeepsRecord(i)
  OBVIOUS
<1> USE PartsOfIInv
<1>0. IntentTypes
  BY DEF IntentInv
<1>1. ASSUME NEW g \in loop.signals, ProposeEntry(g)
      PROVE  \A i \in Intents : KeepsRecord(i)
  <2>1. PICK i \in Unused :
          intents' = [intents EXCEPT ![i].state = "PROPOSED",
                                     ![i].strategy = g.strategy]
    BY <1>1 DEF ProposeEntry
  <2>2. /\ i \in Intents /\ intents[i].state = Absent
        /\ intents'[i].state = "PROPOSED"
        /\ intents'[i].reference = intents[i].reference
        /\ \A j \in Intents \ {i} : intents'[j] = intents[j]
    BY <1>0, <2>1 DEF Unused, IntentTypes
  <2> QED
    BY <2>2 DEF KeepsRecord
<1>2. ASSUME NEW g \in loop.signals, RefuseEntry(g) \/ LinkExit(g)
      PROVE  \A i \in Intents : KeepsRecord(i)
  BY <1>2 DEF RefuseEntry, LinkExit, rows, KeepsRecord
<1>3. ASSUME NEW g \in loop.signals, NEW i \in Intents, ReviewEntry(g, i)
      PROVE  \A j \in Intents : KeepsRecord(j)
  <2>1. PICK state \in {"APPROVED", "REJECTED"} : SetIntent(i, state)
    BY <1>3 DEF ReviewEntry
  <2>2. g.strategy \in Strategies
    BY QueueTypes DEF Signals
  <2>3. intents[i].state = "PROPOSED" /\ intents[i].strategy \in Strategies
    BY <1>3, <2>2 DEF ReviewEntry
  <2>4. Absent \notin {"PROPOSED", "APPROVED", "REJECTED"}
    BY DEF Absent
  <2> QED
    BY <1>0, <2>1, <2>3, <2>4, ForcedIsFinal, OneWritten
<1> QED
  BY <1>1, <1>2, <1>3 DEF Decide

LEMMA WritesKeepRecords ==
  ASSUME IInv, RiskInv, NoneRevived, BlockEntry \/ WriteIntent \/ Handle
  PROVE  \A i \in Intents : KeepsRecord(i)
<1> USE PartsOfIInv DEF RiskInv
<1>0. IntentTypes
  BY DEF IntentInv
<1>1. loop.at \in Deciding /\ Current.intent # None
  BY CurrentTypes DEF BlockEntry, WriteIntent, Writing, Handle, HandleEntry,
     HandleExit, Deciding, Working
<1>2. PICK i \in Intents : Current.intent = i /\ intents[i].state # Absent
  BY <1>1, CurrentTypes
<1>3. CASE intents' = intents
  BY <1>3 DEF KeepsRecord
<1>4. "FAILED" # Absent /\ "FAILED" # Forced
  BY DEF Absent, Forced
<1>5. CASE BlockEntry
  <2>1. Promised(Current) /\ Current.kind = "entry" /\ Current \in Decisions
    BY <1>5, Orchestrating DEF BlockEntry
  <2>2. intents[i].state = "APPROVED" /\ intents[i].strategy \in Strategies
    BY <1>2, <2>1, <1>1 DEF Promised, Decisions
  <2>3. SetIntent(i, "FAILED") /\ "APPROVED" # Forced
    BY <1>2, <1>5 DEF BlockEntry, Forced
  <2> QED
    BY <1>0, <1>2, <1>4, <2>2, <2>3, OneWritten
<1>6. CASE Handle /\ intents' # intents
  <2>1. loop.at = "handling" /\ SetIntent(i, "FAILED") /\ MayBecome(i, "FAILED")
    BY <1>2, <1>6 DEF Handle, HandleEntry, HandleExit, FailOrEscape
  <2>2. intents[i].strategy \in Strategies
    BY <1>1, <1>2, <2>1, CurrentTypes DEF WorkInv
  <2>3. intents[i].state # Forced
    BY <1>4, <2>1, ForcedIsFinal DEF MayBecome
  <2> QED
    BY <1>0, <1>2, <1>4, <2>1, <2>2, <2>3, OneWritten
<1>7. CASE WriteIntent /\ intents' # intents
  <2>1. /\ MayBecome(i, Arg) /\ loop.at = "writing"
        /\ Head(loop.todo).op \in {"intent", "referenced"}
        /\ intents' = [intents EXCEPT
              ![i].state = Arg,
              ![i].reference = IF Writing("referenced") THEN i ELSE @]
    BY <1>2, <1>7 DEF WriteIntent, Writing
  <2>2. /\ intents'[i].state = Arg
        /\ intents'[i].strategy = intents[i].strategy
        /\ intents'[i].reference \in {intents[i].reference, i}
        /\ \A j \in Intents \ {i} : intents'[j] = intents[j]
    BY <1>0, <2>1 DEF IntentTypes
  <2>3. Arg \in OpenStates \cup Lost \cup {"CLOSED"}
        /\ intents[i].strategy \in Strategies
    <3>1. CASE Current.kind = "entry"
      <4>1. PICK j \in Intents, s \in Strategies : \E n \in 1 .. Len(engines[s]) :
              \E plan \in EntryPlans : \E k \in 1 .. Len(plan.script) :
                EntryPlace(j, s, n, plan, k)
        BY <2>1, <3>1, EntryHasPlace
      <4>2. j = i /\ intents[i].strategy \in Strategies
        BY <1>2, <4>1 DEF EntryPlace, EntryStage
      <4>3. Arg \in OpenStates \cup Lost
        BY <2>1, <4>1, StatesWithRow DEF EntryPlace, EntryWrite, Arg
      <4> QED
        BY <4>2, <4>3
    <3>2. CASE Current.kind = "exit"
      <4>1. PICK j \in Intents, s \in Strategies : \E n \in 1 .. Len(engines[s]) :
              \E plan \in ExitPlans : \E k \in 1 .. Len(plan.script) :
                ExitPlace(j, s, n, plan, k)
        BY <2>1, <3>2, ExitHasPlace
      <4>2. j = i /\ positions[i] # Absent
        BY <1>2, <4>1 DEF ExitPlace, ExitStage, Absent
      <4>3. RowsAgreeOwn(i)
        BY <4>2, OwnRow
      <4>4. Arg \in OpenStates \cup {"CLOSED"}
        BY <2>1, <4>1 DEF ExitPlace, ExitWrite, ExitOps, Arg
      <4> QED
        BY <1>2, <4>3, <4>4 DEF RowsAgreeOwn
    <3> QED
      BY <1>1, <3>1, <3>2, CurrentTypes
  <2>4. Arg # Forced /\ Arg # Absent
    BY <2>3, ForcedIsFinal DEF OpenStates, Lost, Absent
  <2>5. intents[i].state # Forced
    BY <2>1, <2>4, ForcedIsFinal DEF MayBecome
  <2> HIDE DEF Arg
  <2> QED
    BY <1>2, <2>2, <2>3, <2>4, <2>5 DEF KeepsRecord
<1> QED
  BY <1>3, <1>5, <1>6, <1>7

LEMMA RecordsKept ==
  ASSUME IInv, RiskInv, [Next]_vars
  PROVE  \A i \in Intents : KeepsRecord(i)
<1>0. NoneRevived
  BY NextRevivesNone
<1>1. CASE intents' = intents
  BY <1>1 DEF KeepsRecord
<1>2. CASE Decide
  BY <1>2, DecideKeepsRecords
<1>3. CASE BlockEntry \/ WriteIntent \/ Handle
  BY <1>0, <1>3, WritesKeepRecords
<1>4. ASSUME Next, ~Decide, ~(BlockEntry \/ WriteIntent \/ Handle)
      PROVE  intents' = intents
  BY <1>4 DEF Next, Pipeline, Orchestrate, SkipDecision, PrepareEntry,
     PrepareExit, Execute, ExecuteEntry, ExecuteExit, WriteRow, WriteExecution,
     WriteEngine, WritePosition, WriteTrade, RaiseException, StartCall, Answer,
     AnswerEntry, AnswerExit, EvaluatePrice, BrokerActs, StartEngine,
     StopEngine, RestrictToExits, Crash, rows
<1> QED
  BY <1>1, <1>2, <1>3, <1>4 DEF vars

\* A deal that was filled stays with the broker until it is closed, and
\* closed it stays.
Filled == {"open", "closing", "closed"}
KeepsDeal(d) == /\ deals[d] \in Filled => deals'[d] \in Filled
                /\ deals[d] = "closed" => deals'[d] = "closed"

LEMMA DealMoved ==
  ASSUME RowTypes, NEW d \in Intents, NEW to,
         deals' = [deals EXCEPT ![d] = to],
         \/ DealMove(deals[d], to)
         \/ deals[d] = "none"
         \/ deals[d] \in {"open", "closing"} /\ to = "closing"
  PROVE  \A e \in Intents : KeepsDeal(e)
<1>1. deals'[d] = to /\ \A e \in Intents \ {d} : deals'[e] = deals[e]
  BY DEF RowTypes
<1>2. KeepsDeal(d)
  BY <1>1 DEF KeepsDeal, Filled, DealMove
<1>3. \A e \in Intents \ {d} : KeepsDeal(e)
  BY <1>1 DEF KeepsDeal
<1> QED
  BY <1>2, <1>3

LEMMA DealsKept ==
  ASSUME IInv, RiskInv, [Next]_vars
  PROVE  \A d \in Intents : KeepsDeal(d)
<1> USE PartsOfIInv
<1>1. CASE deals' = deals
  BY <1>1 DEF KeepsDeal
<1>2. CASE StartCall
  <2>1. CASE /\ Current.kind = "entry"
             /\ deals' = [deals EXCEPT ![Current.intent] = "pending"]
    <3>1. loop.at = "writing" /\ Head(loop.todo).op = "call_broker"
      BY <1>2 DEF StartCall, Writing
    <3>2. PICK i \in Intents, s \in Strategies : \E n \in 1 .. Len(engines[s]) :
            \E plan \in EntryPlans : \E k \in 1 .. Len(plan.script) :
              EntryPlace(i, s, n, plan, k)
      BY <2>1, <3>1, EntryHasPlace
    <3>3. Current.intent = i /\ deals[i] = "none"
      BY <3>1, <3>2 DEF EntryPlace, EntryWrite
    <3> QED
      BY <2>1, <3>3, DealMoved
  <2>2. ASSUME NEW d \in CloseTargets, deals' = [deals EXCEPT ![d] = "closing"]
        PROVE  \A e \in Intents : KeepsDeal(e)
    <3>1. d \in Intents /\ deals[d] \in {"open", "closing"}
      BY DEF CloseTargets
    <3> QED
      BY <2>2, <3>1, DealMoved
  <2> QED
    BY <1>1, <1>2, <2>1, <2>2 DEF StartCall
<1>3. CASE BrokerActs
  <2>1. PICK d \in Intents, to \in {"open", "void", "closed"} :
          /\ deals' = [deals EXCEPT ![d] = to]
          /\ \/ deals[d] = "pending" /\ to \in {"open", "void"}
             \/ deals[d] = "closing" /\ to \in {"open", "closed"}
    BY <1>3 DEF BrokerActs
  <2>2. DealMove(deals[d], to)
    BY <2>1 DEF DealMove
  <2> QED
    BY <2>1, <2>2, DealMoved
<1>4. ASSUME Next, ~StartCall, ~BrokerActs
      PROVE  deals' = deals
  <2>1. CASE Decide
    BY <2>1 DEF Decide, RefuseEntry, ProposeEntry, LinkExit, ReviewEntry
  <2>2. CASE Orchestrate \/ Execute \/ Handle \/ Answer
    BY <2>2 DEF Orchestrate, SkipDecision, BlockEntry, PrepareEntry,
       PrepareExit, Execute, ExecuteEntry, ExecuteExit, Handle, HandleEntry,
       HandleExit, Answer, AnswerEntry, AnswerExit
  <2>3. CASE WriteRow
    BY <2>3 DEF WriteRow, WriteExecution, WriteIntent, WriteEngine,
       WritePosition, WriteTrade, RaiseException
  <2> QED
    BY <1>4, <2>1, <2>2, <2>3 DEF Next, Pipeline, EvaluatePrice, StartEngine,
       StopEngine, RestrictToExits, Crash
<1> QED
  BY <1>1, <1>2, <1>3, <1>4 DEF vars

\* A position row that is there stays, and one that is new is recorded for
\* the entry in flight, which has its reference already.
Recording(d) ==
  /\ Writing("record_position") /\ loop'.todo = Tail(loop.todo)
  /\ Current.kind = "entry" /\ Current.intent = d
  /\ intents[d].reference = d /\ intents' = intents

LEMMA TailsOfTodo ==
  ASSUME LoopInv, loop.at = "writing", Written
  PROVE  loop'.todo = Tail(loop.todo)
<1>1. loop.todo \in Seq(Writes) /\ loop.todo # <<>>
  BY DEF LoopInv, LoopType, TodoAtHand
<1>2. CASE Len(loop.todo) = 1
  <2>1. Tail(loop.todo) = <<>>
    <3>1. Tail(loop.todo) \in Seq(Writes) /\ Len(Tail(loop.todo)) = 0
      BY <1>1, <1>2, HeadTailProperties
    <3> QED
      BY <3>1, EmptySeq
  <2>2. loop'.todo = <<>>
    BY <1>2 DEF Written, NextDecision, LoopInv, LoopType
  <2> QED
    BY <2>1, <2>2
<1>3. CASE Len(loop.todo) # 1
  BY <1>3 DEF Written, LoopInv, LoopType
<1> QED
  BY <1>2, <1>3

LEMMA PositionsKept ==
  ASSUME IInv, RiskInv, [Next]_vars, NEW d \in Intents
  PROVE  \/ positions'[d] = positions[d]
         \/ Absent \notin {positions[d], positions'[d]}
         \/ Recording(d)
<1> USE PartsOfIInv DEF RiskInv
<1>1. CASE positions' = positions
  BY <1>1
<1>2. CASE WritePosition
  <2>1. loop.at = "writing" /\ intents' = intents
    BY <1>2 DEF WritePosition, Writing
  <2>2. CASE /\ Writing("record_position") /\ Written
             /\ positions' = [positions EXCEPT ![CurrentPosition] = "open"]
    <3>1. Head(loop.todo).op = "record_position" /\ NoneRevived
      BY <2>2, NextRevivesNone DEF Writing
    <3>2. Current.kind # "exit"
      BY <2>1, <3>1, ExitHasPlace DEF ExitPlace, ExitOps
    <3>3. Current.kind = "entry"
      BY <2>1, <3>2, CurrentTypes DEF Deciding
    <3>4. PICK i \in Intents, s \in Strategies : \E n \in 1 .. Len(engines[s]) :
            \E plan \in EntryPlans : \E k \in 1 .. Len(plan.script) :
              EntryPlace(i, s, n, plan, k)
      BY <2>1, <3>3, EntryHasPlace
    <3>5. Current.intent = i /\ intents[i].reference = i
      BY <3>1, <3>4 DEF EntryPlace, EntryWrite, EntryStage
    <3>6. CurrentPosition = i
      BY <3>3, <3>5 DEF CurrentPosition
    <3>7. d # i => positions'[d] = positions[d]
      BY <2>2, <3>6 DEF RowTypes
    <3>8. Recording(i)
      BY <2>1, <2>2, <3>3, <3>5, TailsOfTodo DEF Recording
    <3> QED
      BY <3>7, <3>8
  <2>3. CASE /\ positions[CurrentPosition] = "open"
             /\ positions' = [positions EXCEPT ![CurrentPosition] = "closed"]
    BY <2>3 DEF RowTypes, Absent
  <2> QED
    BY <1>1, <1>2, <2>2, <2>3 DEF WritePosition
<1>3. ASSUME Next, ~WritePosition
      PROVE  positions' = positions
  <2>1. CASE Decide
    BY <2>1 DEF Decide, RefuseEntry, ProposeEntry, LinkExit, ReviewEntry, rows
  <2>2. CASE Orchestrate \/ Execute \/ Handle \/ Answer \/ StartCall
    BY <2>2 DEF Orchestrate, SkipDecision, BlockEntry, PrepareEntry,
       PrepareExit, Execute, ExecuteEntry, ExecuteExit, Handle, HandleEntry,
       HandleExit, Answer, AnswerEntry, AnswerExit, StartCall, rows
  <2>3. CASE WriteRow
    BY <1>3, <2>3 DEF WriteRow, WriteExecution, WriteIntent, WriteEngine,
       WriteTrade, RaiseException, rows
  <2> QED
    BY <1>3, <2>1, <2>2, <2>3 DEF Next, Pipeline, EvaluatePrice, StartEngine,
       StopEngine, RestrictToExits, Crash, BrokerActs, rows
<1> QED
  BY <1>1, <1>2, <1>3 DEF vars

LEMMA LabelsAfter ==
  ASSUME LoopType
  PROVE  /\ NextDecision \/ RaiseFrom \/ Escape =>
              loop'.at \in {"idle", "orchestrating", "handling"}
         /\ \A label : Proceed(label) => loop'.at = label
         /\ \A signal, i : Decided(signal, i) =>
              loop'.at \in {"orchestrating", "deciding"}
<1>1. NextDecision => loop'.at \in {"idle", "orchestrating"}
  BY DEF NextDecision, LoopType
<1>2. \A label : Proceed(label) => loop'.at = label
  BY DEF Proceed, LoopType
<1>3. Escape => loop'.at = "idle"
  BY DEF Escape, IdleLoop
<1>4. ASSUME NEW signal, NEW i, Decided(signal, i)
      PROVE  loop'.at \in {"orchestrating", "deciding"}
  BY <1>4 DEF Decided, LoopType
<1> QED
  BY <1>1, <1>2, <1>3, <1>4 DEF RaiseFrom

\* An entry that takes off has sent no order.
LEMMA TakesOff ==
  ASSUME IInv, RiskInv, [Next]_vars, InFlight', Current'.kind = "entry"
  PROVE  \/ InFlight /\ Current' = Current
         \/ Current'.intent \in Intents /\ deals[Current'.intent] = "none"
<1> USE PartsOfIInv DEF RiskInv
<1>0. loop'.at \in {"writing", "calling"} /\ LoopInv /\ LoopType
  BY DEF InFlight, LoopInv
<1>1. CASE loop' = loop
  BY <1>1 DEF InFlight, Current
<1>2. CASE WriteRow \/ StartCall \/ Answer
  <2>1. InFlight
    BY <1>2 DEF WriteRow, WriteExecution, WriteIntent, WriteEngine,
       WritePosition, WriteTrade, RaiseException, StartCall, Answer,
       AnswerEntry, AnswerExit, Writing, InFlight
  <2>3. ~NextDecision /\ ~RaiseFrom
    BY <1>0, LabelsAfter
  <2>4. loop'.decisions = loop.decisions
    BY <1>0, <1>2, <2>3 DEF WriteRow, WriteExecution, WriteIntent, WriteEngine,
       WritePosition, WriteTrade, RaiseException, StartCall, Answer,
       AnswerEntry, AnswerExit, Written, Proceed, Perform, LoopType
  <2> QED
    BY <2>1, <2>4 DEF Current
<1>3. CASE Execute
  <2>1. loop.at = "executing" /\ loop'.decisions = loop.decisions
    BY <1>0, <1>3 DEF Execute, ExecuteEntry, ExecuteExit, Guarded, LoopType
  <2>2. Current' = Current /\ Current.kind = "entry" /\ Current.intent # None
    BY <1>0, <2>1, CurrentTypes DEF Current, Working, Deciding
  <2>3. Promised(Current) /\ Current.intent \in Intents
    BY <2>1, <2>2, Orchestrating
  <2>4. intents[Current.intent].state = "APPROVED"
    BY <2>2, <2>3 DEF Promised
  <2>5. RowsAgreeOwn(Current.intent)
    BY <2>3, <2>4, OwnRow DEF Unsent
  <2> QED
    BY <2>2, <2>3, <2>4, <2>5 DEF RowsAgreeOwn, Unsent
<1>4. ASSUME Next, ~(WriteRow \/ StartCall \/ Answer), ~Execute, loop' # loop
      PROVE  loop'.at \notin {"writing", "calling"}
  <2>1. CASE Decide
    BY <1>0, <2>1, LabelsAfter DEF Decide, RefuseEntry, ProposeEntry, LinkExit,
       ReviewEntry
  <2>2. CASE Orchestrate \/ Handle
    BY <1>0, <2>2, LabelsAfter DEF Orchestrate, SkipDecision, BlockEntry,
       PrepareEntry, PrepareExit, ExecuteOrSuppress, Handle, HandleEntry,
       HandleExit, FailOrEscape
  <2>3. CASE EvaluatePrice
    BY <1>0, <2>3 DEF EvaluatePrice, LoopType
  <2>4. CASE Crash
    BY <2>4 DEF Crash, IdleLoop
  <2>5. BrokerActs \/ (\E s \in Strategies : \/ StartEngine(s) \/ StopEngine(s)
                                              \/ RestrictToExits(s))
          => loop' = loop
    BY DEF BrokerActs, StartEngine, StopEngine, RestrictToExits
  <2> QED
    BY <1>4, <2>1, <2>2, <2>3, <2>4, <2>5 DEF Next, Pipeline
<1> QED
  BY <1>0, <1>1, <1>2, <1>3, <1>4 DEF vars

-----------------------------------------------------------------------------
(* The pipeline between two passes.                                        *)

\* The pass is where it was, as far as the records can tell.
SamePlace ==
  \/ {pass.at, pass'.at} \cap Closing = {}
  \/ pass'.at = pass.at /\ pass'.row = pass.row

LEMMA PlaceKept ==
  ASSUME SamePlace
  PROVE  /\ Gone' = Gone
         /\ \A r : \A label \in Closing :
              (pass'.at = label /\ pass'.row = r)
                <=> (pass.at = label /\ pass.row = r)
         /\ \A label \in Closing : pass'.at = label <=> pass.at = label
         /\ \A label \in Closing : label \notin Ended
BY DEF SamePlace, Gone, Closing, Ended

LEMMA RowIdsOf ==
  /\ \A d \in Intents : Own(d) \in RowIds /\ Sync(d) \in RowIds
  /\ \A d, e : Own(d) # Sync(e) /\ (Own(d) = Own(e) => d = e)
               /\ (Sync(d) = Sync(e) => d = e)
               /\ Own(d)[1] = d /\ Sync(d)[1] = d
               /\ Own(d)[2] = "own" /\ Sync(d)[2] = "sync"
  /\ \A r \in RowIds : r[1] \in Intents /\ (r = Own(r[1]) \/ r = Sync(r[1]))
  /\ \A r \in RowIds : r[2] = "own" <=> r = Own(r[1])
BY DEF Own, Sync, RowIds

LEMMA ForeignKept ==
  ASSUME NEW i \in Intents, Foreign(i), KeepsRecord(i), RowsAgree(i)'
  PROVE  intents'[i] = intents[i] /\ Foreign(i)'
<1>1. intents[i].state # Absent /\ intents[i].strategy \notin Strategies
  BY DEF Foreign, ProvenanceStates, Absent
<1>2. intents'[i] = intents[i]
  BY <1>1 DEF KeepsRecord
<1> QED
  BY <1>1, <1>2 DEF RowsAgree, RowsAgreeOwn

LEMMA RecordKept ==
  ASSUME NEW d \in Intents, Recorded(d), KeepsRecord(d), KeepsDeal(d), SamePlace,
         UNCHANGED <<synced, forced>>,
         synced[d] # Absent => positions'[d] = Absent,
         positions'[d] # Absent =>
           linked'[Own(d)] = d /\ intents'[d].reference = d,
         linked'[Sync(d)] = linked[Sync(d)],
         \A i : i = linked[Sync(d)] /\ i # None =>
           intents'[i] = intents[i] /\ Foreign(i)'
  PROVE  Recorded(d)'
<1>1. synced'[d] # Absent =>
        /\ positions'[d] = Absent /\ deals'[d] \in {"open", "closing", "closed"}
  BY DEF Recorded, KeepsDeal, Filled
<1>2. synced'[d] = "closed" => deals'[d] = "closed"
  BY DEF Recorded, KeepsDeal
<1>3. linked'[Sync(d)] # None =>
       /\ Foreign(linked[Sync(d)])'
       /\ intents'[linked'[Sync(d)]].reference = d
       /\ synced'[d] # Absent
  BY DEF Recorded
<1>5. /\ intents'[d].state = Forced /\ intents'[d].strategy \in Strategies
      <=> intents[d].state = Forced /\ intents[d].strategy \in Strategies
  BY DEF KeepsRecord, Forced, Absent
<1>6. /\ d \in Gone' <=> d \in Gone
      /\ pass'.at = "trading" <=> pass.at = "trading"
      /\ pass'.at = "trading" /\ pass'.row = Sync(d)
           <=> pass.at = "trading" /\ pass.row = Sync(d)
  BY PlaceKept DEF Closing
<1>7. forced'[Own(d)] = IF d \in Gone'
       THEN IF pass'.at = "trading" THEN 0 ELSE 1
       ELSE IF intents'[d].state = Forced
               /\ intents'[d].strategy \in Strategies THEN 1 ELSE 0
  BY <1>5, <1>6 DEF Recorded, Forced
<1>8. forced'[Sync(d)] =
       IF synced'[d] = "closed" /\ ~(pass'.at = "trading" /\ pass'.row = Sync(d))
         THEN 1 ELSE 0
  BY <1>6 DEF Recorded
<1> QED
  BY <1>1, <1>2, <1>3, <1>7, <1>8 DEF Recorded, Forced

LEMMA AdoptedKept ==
  ASSUME NEW i \in Intents, Adopted(i), KeepsRecord(i), RowsAgree(i), SamePlace,
         synced' = synced, \A d \in Intents : linked'[Sync(d)] = linked[Sync(d)]
  PROVE  Adopted(i)'
<1> SUFFICES ASSUME Foreign(i)', i \in Active' PROVE Adopted(i)'
  BY DEF Adopted
<1>1. /\ intents'[i].strategy \notin Strategies
      /\ intents'[i].state \notin {Absent, "PROPOSED"}
  BY DEF Foreign, ProvenanceStates, Absent
<1>2. intents'[i] = intents[i]
  BY <1>1 DEF KeepsRecord
<1>3. Foreign(i) /\ i \in Active
  BY <1>1, <1>2 DEF RowsAgree, RowsAgreeOwn, Active
<1>4. LET d == intents[i].reference IN
        /\ d \in Intents /\ linked[Sync(d)] = i
        /\ \/ synced[d] = "open"
           \/ pass.at \in {"trading", "forcing"} /\ pass.row = Sync(d)
  BY <1>3 DEF Adopted
<1>5. LET d == intents'[i].reference IN
        /\ d \in Intents /\ linked'[Sync(d)] = i
        /\ \/ synced'[d] = "open"
           \/ pass'.at \in {"trading", "forcing"} /\ pass'.row = Sync(d)
  BY <1>2, <1>4, PlaceKept DEF Closing
<1> QED
  BY <1>5 DEF Adopted

\* What record_position links is the row of the entry in flight.
LinksCurrent ==
  /\ Current.intent \in Intents
  /\ linked' = [linked EXCEPT ![Own(Current.intent)] = Current.intent]

LEMMA RowLinked ==
  ASSUME IInv, RiskInv, Trade
  PROVE  linked' = linked \/ LinksCurrent
<1> USE PartsOfIInv DEF RiskInv
<1>1. CASE /\ Writing("record_position")
           /\ linked' = [linked EXCEPT ![<<CurrentPosition, "own">>] = Current.intent]
  <2>1. /\ Head(loop.todo).op = "record_position" /\ NoneRevived
        /\ loop.at = "writing" /\ loop.at \in Working /\ loop.at \in Deciding
    BY <1>1, NextRevivesNone DEF Writing, Trade, Working, Deciding
  <2>2. Current.kind # "exit"
    BY <2>1, ExitHasPlace DEF ExitPlace, ExitOps
  <2>3. Current.kind = "entry" /\ Current.intent \in Intents
    BY <2>1, <2>2, CurrentTypes
  <2> QED
    <3>1. CurrentPosition = Current.intent
      BY <2>3 DEF CurrentPosition
    <3> QED
      BY <1>1, <2>3, <3>1 DEF Own, LinksCurrent
<1>2. \/ linked' = linked
      \/ /\ Writing("record_position")
         /\ linked' = [linked EXCEPT ![<<CurrentPosition, "own">>] = Current.intent]
  BY DEF Trade
<1> QED
  BY <1>1, <1>2

LEMMA TradeBetween ==
  ASSUME IInv, PassInv, AtWork, pass.at \in Ended, Trade
  PROVE  AtWork'
<1> USE PartsOfIInv
<1>1. RiskInv /\ RiskInv' /\ [Next]_vars
  BY NextRisk DEF AtWork, Trade
<1>2. /\ \A i \in Intents : KeepsRecord(i) /\ KeepsDeal(i)
      /\ \A i \in Intents : RowsAgree(i) /\ RowsAgree(i)'
      /\ \A d \in Intents : Recorded(d)
      /\ \A i \in Intents : Adopted(i)
      /\ Unrecorded
  BY <1>1, RecordsKept, DealsKept DEF AtWork, RiskInv, RowInv
<1>3. /\ pass' = IdlePass /\ pass'.at \in Ended /\ SamePlace
      /\ synced' = synced /\ forced' = forced
  BY IdlePassTypes DEF Trade, Disturbed, Ended, SamePlace, Closing
<1>4. /\ linked \in [RowIds -> Intents \cup {None}]
      /\ \A d \in Intents : linked'[Sync(d)] = linked[Sync(d)]
      /\ \A d \in Intents : linked[Own(d)] = d => linked'[Own(d)] = d
  <2>1. linked \in [RowIds -> Intents \cup {None}]
    BY DEF PassInv, RecordTypes
  <2>2. CASE linked' = linked
    BY <2>1, <2>2
  <2>3. CASE LinksCurrent
    BY <2>1, <2>3, RowIdsOf DEF LinksCurrent
  <2>4. linked' = linked \/ LinksCurrent
    BY <1>1, RowLinked
  <2> QED
    BY <2>2, <2>3, <2>4
<1>5. ASSUME NEW d \in Intents PROVE Recorded(d)'
  <2>1. \/ positions'[d] = positions[d]
        \/ Absent \notin {positions[d], positions'[d]}
        \/ Recording(d)
    BY <1>1, PositionsKept
  <2>2. Recording(d) => /\ synced[d] = Absent
                        /\ linked'[Own(d)] = d /\ intents'[d].reference = d
    <3> SUFFICES ASSUME Recording(d)
                 PROVE  /\ synced[d] = Absent
                        /\ linked'[Own(d)] = d /\ intents'[d].reference = d
      OBVIOUS
    <3>1. CurrentPosition = d /\ Current.intent = d /\ Current.kind = "entry"
      BY DEF Recording, CurrentPosition
    <3>2. InFlight
      BY DEF Recording, Writing, InFlight
    <3>3. linked' = [linked EXCEPT ![Own(d)] = d]
      BY <3>1 DEF Trade, Recording, Own
    <3> QED
      BY <1>2, <1>4, <3>1, <3>2, <3>3, RowIdsOf DEF Unrecorded, Recording
  <2>3. synced[d] # Absent => positions'[d] = Absent
    BY <1>2, <2>1, <2>2 DEF Recorded
  <2>4. intents[d].reference = d => intents'[d].reference = d
    BY <1>2 DEF KeepsRecord
  <2>5. positions'[d] # Absent => linked'[Own(d)] = d /\ intents'[d].reference = d
    BY <1>2, <1>4, <2>1, <2>2, <2>4 DEF Recorded
  <2>6. ASSUME NEW i, i = linked[Sync(d)], i # None
        PROVE  intents'[i] = intents[i] /\ Foreign(i)'
    <3>1. i \in Intents /\ Foreign(i)
      BY <1>2, <1>4, <2>6, RowIdsOf DEF Recorded
    <3> QED
      BY <1>2, <3>1, ForeignKept
  <2> QED
    BY <1>2, <1>3, <1>4, <2>3, <2>5, <2>6, RecordKept
<1>6. \A i \in Intents : Adopted(i)'
  BY <1>2, <1>3, <1>4, AdoptedKept
<1>7. Unrecorded'
  <2> SUFFICES ASSUME InFlight', Current'.kind = "entry"
               PROVE  synced'[Current'.intent] = Absent
    BY DEF Unrecorded
  <2>1. CASE InFlight /\ Current' = Current
    BY <1>2, <1>3, <2>1 DEF Unrecorded
  <2>2. CASE Current'.intent \in Intents /\ deals[Current'.intent] = "none"
    BY <1>2, <1>3, <2>2 DEF Recorded
  <2> QED
    BY <1>1, <2>1, <2>2, TakesOff
<1> QED
  BY <1>1, <1>3, <1>5, <1>6, <1>7 DEF AtWork

-----------------------------------------------------------------------------
(* A pass alone: with the loop idle its invariant is that of the pipeline. *)

LEMMA QuiescentTypes ==
  ASSUME IInv, Quiescent, NEW s \in Strategies, NEW n
  PROVE  InUse(s, n) <=> running[s] = n
<1>1. Len(loop.decisions) = 0
  BY LenProperties, EmptySeq DEF Quiescent
<1> QED
  BY <1>1 DEF Quiescent, InUse, InQueue

LEMMA RunningTypes ==
  ASSUME IInv, NEW s \in Strategies
  PROVE  /\ running[s] \in Nat /\ Len(engines[s]) \in Nat
         /\ running[s] # 0 => running[s] \in 1 .. Len(engines[s])
<1> USE PartsOfIInv
<1>1. Len(engines[s]) \in Nat /\ running[s] \in Nat
  BY LenProperties DEF EngineInv, EngineTypes
<1> QED
  BY <1>1 DEF EngineInv, RunningEngineExists

LEMMA IdleIsQuiescent ==
  ASSUME RiskInv, loop.at = "idle"
  PROVE  Quiescent
BY DEF RiskInv, SignalInv, QueueInv, Quiescent

LEMMA AloneFromRisk ==
  ASSUME IInv, RiskInv, up, loop.at = "idle", Gone = {}
  PROVE  PassRisk
<1>1. Quiescent
  BY IdleIsQuiescent
<1>2. \A i \in Intents : Settled(i)
  BY DEF RiskInv, RowInv, RestInv, InFlight, Settled
<1>3. ASSUME NEW s \in Strategies PROVE Holding(s)
  <2>1. running[s] # 0 =>
          running[s] \in 1 .. Len(engines[s]) /\ InUse(s, running[s])
    BY RunningTypes DEF InUse
  <2> QED
    BY <2>1 DEF RiskInv, HoldInv, Holding
<1> QED
  BY <1>1, <1>2, <1>3 DEF PassRisk

LEMMA RiskFromAlone ==
  ASSUME IInv, PassRisk, up, Gone = {}
  PROVE  RiskInv
<1>1. Quiescent /\ Len(loop.decisions) = 0
  BY LenProperties, EmptySeq DEF PassRisk, Quiescent
<1>2. RowInv /\ RestInv
  BY DEF PassRisk, Settled, RowInv, RestInv
<1>3. HoldInv
  <2>1. ASSUME NEW s \in Strategies, NEW n \in 1 .. Len(engines[s])
        PROVE  InUse(s, n) => running[s] = n /\ running[s] # 0
    BY <1>1, QuiescentTypes, RunningTypes
  <2>2. ASSUME NEW s \in Strategies, NEW n \in 1 .. Len(engines[s]), InUse(s, n),
               engines[s][n].position # None
        PROVE  /\ intents[engines[s][n].position].strategy = s
               /\ positions[engines[s][n].position] = "open"
    BY <2>1, <2>2 DEF PassRisk, Holding
  <2>3. \A s \in Strategies : \A m, n \in 1 .. Len(engines[s]) :
          InUse(s, m) /\ InUse(s, n) => m = n
    BY <2>1
  <2> QED
    BY <2>2, <2>3 DEF HoldInv
<1>4. SignalInv
  BY <1>1 DEF Quiescent, SignalInv
<1>5. QueueInv
  BY <1>1 DEF Quiescent, QueueInv
<1>6. WorkInv
  BY <1>1 DEF Quiescent, WorkInv
<1> QED
  BY <1>2, <1>3, <1>4, <1>5, <1>6 DEF RiskInv

-----------------------------------------------------------------------------
(* What the invariant says of one deal.                                    *)

LEMMA NobodyGone == pass.at \notin Closing => Gone = {}
BY DEF Gone

LEMMA EndedOpen == Ended \cap Closing = {}
BY DEF Ended, Closing

LEMMA RowOfRest ==
  ASSUME AtWork, NEW d \in Intents, d \notin Gone
  PROVE  RowsAgree(d)
<1>1. CASE pass.at \in Ended
  BY <1>1 DEF AtWork, RiskInv, RowInv
<1>2. CASE pass.at \notin Ended
  BY <1>2 DEF AtWork, PassRisk, Settled
<1> QED
  BY <1>1, <1>2

\* The row of a strategy of its own and that of broker_sync exclude each
\* other, and so do the Trade of the pipeline and the forced one.
LEMMA AccountedOnce ==
  ASSUME PassInv, AtWork, NEW d \in Intents
  PROVE  trades[d] + forced[Own(d)] + forced[Sync(d)] <= 1
<1>1. Recorded(d) /\ forced[Own(d)] \in {0, 1} /\ forced[Sync(d)] \in {0, 1}
  BY DEF AtWork, Recorded
<1>2. synced[d] # Absent => positions[d] = Absent
  BY <1>1 DEF Recorded
<1>3. synced[d] = Absent => forced[Sync(d)] = 0
  BY <1>1 DEF Recorded, Absent
<1>4. CASE d \in Gone
  <2>1. trades[d] = 0 /\ positions[d] = "closed"
    <3>1. pass.at \notin Ended
      BY <1>4, NobodyGone, EndedOpen
    <3> QED
      BY <1>4, <3>1 DEF AtWork, PassRisk, Settled, GoneRow
  <2> QED
    BY <1>1, <1>2, <1>3, <2>1 DEF Absent
<1>5. CASE d \notin Gone /\ Foreign(d)
  <2>1. trades[d] = 0 /\ forced[Own(d)] = 0
    BY <1>1, <1>5 DEF Foreign, Recorded
  <2> QED
    BY <1>1, <2>1
<1>6. CASE d \notin Gone /\ RowsAgreeOwn(d)
  <2>1. /\ trades[d] \in {0, 1}
        /\ trades[d] = 1 => positions[d] = "closed"
        /\ intents[d].state = Forced => trades[d] = 0 /\ positions[d] = "closed"
        /\ forced[Own(d)] = 1 => intents[d].state = Forced
    BY <1>1, <1>6 DEF RowsAgreeOwn, Recorded, Forced
  <2>2. positions[d] = "closed" => forced[Sync(d)] = 0
    BY <1>2, <1>3 DEF Absent
  <2> QED
    BY <1>1, <2>1, <2>2
<1> QED
  BY <1>4, <1>5, <1>6, RowOfRest DEF RowsAgree

-----------------------------------------------------------------------------
(* Between two steps of a pass: the broker, the operator, a crash.         *)

LEMMA QuietLost ==
  ASSUME PassTypes, pass' = [pass EXCEPT !.quiet = FALSE]
  PROVE  /\ pass'.at = pass.at /\ pass'.remote = pass.remote
         /\ pass'.todo = pass.todo /\ pass'.local = pass.local
         /\ pass'.row = pass.row /\ pass'.how = pass.how
         /\ pass'.intent = pass.intent /\ pass'.engine = pass.engine
         /\ pass'.quiet = FALSE
BY DEF PassTypes, PassRecords

\* An engine starts without a position and keeps the one it has.
HoldsNoMore(s) ==
  running'[s] # 0 =>
    \/ engines'[s][running'[s]].position = None
    \/ /\ running[s] # 0
       /\ engines'[s][running'[s]].position = engines[s][running[s]].position

LEMMA Disturbance ==
  ASSUME IInv, PassInv, AtWork, pass.at \notin Ended,
         pass' = [pass EXCEPT !.quiet = FALSE],
         UNCHANGED <<rows, synced, linked, forced, loop, up>>,
         \A i \in Intents : KeepsDeal(i),
         \A i \in Intents : RowsAgree(i) => RowsAgree(i)',
         \A s \in Strategies : /\ Len(engines[s]) \in Nat
                               /\ Len(engines'[s]) \in Nat
                               /\ Len(engines[s]) <= Len(engines'[s]),
         \A s \in Strategies : HoldsNoMore(s)
  PROVE  AtWork'
<1>1. PassTypes /\ linked \in [RowIds -> Intents \cup {None}]
  BY DEF PassInv, RecordTypes
<1>2. /\ pass'.at = pass.at /\ pass'.remote = pass.remote
      /\ pass'.todo = pass.todo /\ pass'.local = pass.local
      /\ pass'.row = pass.row /\ pass'.how = pass.how
      /\ pass'.intent = pass.intent /\ pass'.engine = pass.engine
      /\ pass'.quiet = FALSE
  BY <1>1, QuietLost
<1>3. SamePlace /\ Gone' = Gone
  BY <1>2, PlaceKept DEF SamePlace
<1>4. /\ UNCHANGED <<intents, entries, closes, positions, trades>>
      /\ \A i \in Intents : KeepsRecord(i)
      /\ Active' = Active /\ OpenRows' = OpenRows
  BY DEF rows, KeepsRecord, Active, OpenRows, RowState
<1>5. /\ PassRisk /\ Snapshots /\ AtRow
      /\ \A i \in Intents : Recorded(i) /\ Adopted(i)
      /\ Unrecorded
  BY DEF AtWork
<1>6. PassRisk'
  <2>1. ASSUME NEW i \in Intents PROVE Settled(i)'
    <3>1. CASE i \in Gone
      <4>1. GoneRow(i) /\ deals'[i] = "closed"
        BY <1>5, <3>1 DEF PassRisk, Settled, GoneRow, KeepsDeal
      <4> QED
        BY <1>2, <1>3, <1>4, <3>1, <4>1 DEF Settled, GoneRow
    <3>2. CASE i \notin Gone
      <4>1. RowsAgree(i)' /\ AtRest(i)
        BY <1>5, <3>2 DEF PassRisk, Settled
      <4> QED
        BY <1>3, <1>4, <3>2, <4>1, SameRest DEF Settled
    <3> QED
      BY <3>1, <3>2
  <2>2. ASSUME NEW s \in Strategies PROVE Holding(s)'
    BY <1>3, <1>4, <1>5 DEF HoldsNoMore, PassRisk, Holding
  <2>3. Quiescent'
    BY <1>5 DEF PassRisk, Quiescent
  <2> QED
    BY <2>1, <2>2, <2>3 DEF PassRisk
<1>7. Snapshots'
  <2>1. \A d \in pass.remote : deals'[d] \in {"open", "closing", "closed"}
    BY <1>1, <1>5 DEF Snapshots, KeepsDeal, Filled, PassTypes, PassRecords
  <2>2. \A r \in OpenRows : r[1] \in pass.remote \/ deals'[r[1]] = "closed"
    BY <1>5, RowIdsOf DEF Snapshots, KeepsDeal, OpenRows
  <2> QED
    BY <1>2, <1>4, <1>5, <2>1, <2>2 DEF Snapshots, Brought
<1>8. AtRow'
  <2>1. pass.row \in RowIds \/ pass.at \notin WithRow
    BY <1>1 DEF PassTypes
  <2>2. /\ pass.at \in {"linking", "attaching"} =>
             /\ pass.row[1] \in Brought'
             /\ pass.engine # NoEngine =>
                  pass.engine.number \in 1 .. Len(engines'[pass.engine.strategy])
    <3> SUFFICES ASSUME pass.at \in {"linking", "attaching"}
                 PROVE  /\ pass.row[1] \in Brought'
                        /\ pass.engine # NoEngine => pass.engine.number \in
                             1 .. Len(engines'[pass.engine.strategy])
      OBVIOUS
    <3>1. pass.row[1] \in Brought'
      BY <1>2, <1>5 DEF AtRow, Brought
    <3>2. pass.engine # NoEngine =>
            /\ pass.engine.strategy \in Strategies /\ pass.engine.number \in Nat
            /\ pass.engine.number \in 1 .. Len(engines[pass.engine.strategy])
      BY <1>1, <1>5 DEF AtRow, PassTypes, PassRecords, PassEngines
    <3> QED
      BY <3>1, <3>2
  <2> QED
    BY <1>2, <1>4, <1>5, <2>2 DEF AtRow, RowState
<1>9. Agreeing'
  BY <1>2 DEF Agreeing
<1>10. ASSUME NEW d \in Intents PROVE Recorded(d)' /\ Adopted(d)'
  <2>1. ASSUME NEW i, i = linked[Sync(d)], i # None
        PROVE  intents'[i] = intents[i] /\ Foreign(i)'
    <3>1. i \in Intents /\ Foreign(i)
      BY <1>1, <1>5, <2>1, RowIdsOf DEF Recorded
    <3>2. RowsAgree(i)'
      BY <3>1 DEF RowsAgree
    <3> QED
      BY <1>4, <3>1, <3>2, ForeignKept
  <2>2. Recorded(d)'
    BY <1>3, <1>4, <1>5, <2>1, RecordKept DEF Recorded
  <2>3. Adopted(d)'
    <3>1. CASE RowsAgree(d)
      BY <1>3, <1>4, <1>5, <3>1, AdoptedKept
    <3>2. CASE ~RowsAgree(d)
      <4>1. d \in Gone /\ intents[d].strategy \in Strategies
        BY <1>5, <3>2 DEF PassRisk, Settled, GoneRow
      <4> QED
        BY <1>4, <4>1 DEF Adopted, Foreign
    <3> QED
      BY <3>1, <3>2
  <2> QED
    BY <2>2, <2>3
<1>11. Unrecorded'
  BY <1>5 DEF PassRisk, Quiescent, Unrecorded, InFlight
<1> QED
  BY <1>2, <1>6, <1>7, <1>8, <1>9, <1>10, <1>11 DEF AtWork

LEMMA IdleNext ==
  ASSUME IInv, Next, loop.at = "idle"
  PROVE  \/ EvaluatePrice \/ BrokerActs \/ Crash
         \/ \E s \in Strategies :
              StartEngine(s) \/ StopEngine(s) \/ RestrictToExits(s)
<1> USE PartsOfIInv
<1>2. ~Decide
  BY DEF Decide, RefuseEntry, ProposeEntry, LinkExit, ReviewEntry
<1>3. ~Orchestrate /\ ~Execute /\ ~Handle
  BY DEF Orchestrate, SkipDecision, BlockEntry, PrepareEntry, PrepareExit,
     Execute, ExecuteEntry, ExecuteExit, Handle, HandleEntry, HandleExit
<1>4. ~WriteRow /\ ~StartCall /\ ~Answer
  BY DEF WriteRow, WriteExecution, WriteIntent, WriteEngine, WritePosition,
     WriteTrade, RaiseException, Writing, StartCall, Answer, AnswerEntry,
     AnswerExit
<1> QED
  BY <1>2, <1>3, <1>4 DEF Next, Pipeline

\* The broker moves one deal, in the name of a call or of its own.
LEMMA DealDuring ==
  ASSUME IInv, PassInv, AtWork, pass.at \notin Ended,
         NEW d \in Intents, NEW to, DealMove(deals[d], to),
         deals' = [deals EXCEPT ![d] = to],
         UNCHANGED <<rows, engines, running, synced, linked, forced, loop, up>>,
         pass' = [pass EXCEPT !.quiet = FALSE]
  PROVE  AtWork'
<1> USE PartsOfIInv
<1>1. \A i \in Intents : KeepsDeal(i)
  BY DealMoved
<1>2. \A i \in Intents : RowsAgree(i) => RowsAgree(i)'
  <2>1. \/ deals[d] = "pending" /\ to \in {"open", "void"}
        \/ deals[d] \in {"open", "closing"} /\ to \in {"open", "closing", "closed"}
    BY DEF DealMove
  <2>2. /\ deals'[d] = to
        /\ \A i \in Intents : i # d => deals'[i] = deals[i]
    BY DEF RowTypes
  <2>3. UNCHANGED <<intents, positions, trades>>
    BY DEF rows
  <2>4. deals[d] \notin {"none", "void"}
    BY DEF DealMove
  <2> QED
    BY <2>1, <2>2, <2>3, <2>4 DEF RowsAgree, RowsAgreeOwn, Foreign
<1>3. \A s \in Strategies : /\ Len(engines[s]) \in Nat
                            /\ Len(engines'[s]) \in Nat
                            /\ Len(engines[s]) <= Len(engines'[s])
  BY RunningTypes
<1>4. \A s \in Strategies : HoldsNoMore(s)
  BY DEF HoldsNoMore
<1> QED
  BY <1>1, <1>2, <1>3, <1>4, Disturbance

LEMMA OperatorDuring ==
  ASSUME IInv, PassInv, AtWork, pass.at \notin Ended, NEW s \in Strategies,
         StartEngine(s) \/ StopEngine(s) \/ RestrictToExits(s),
         UNCHANGED <<synced, linked, forced>>,
         pass' = [pass EXCEPT !.quiet = FALSE]
  PROVE  AtWork'
<1> USE PartsOfIInv
<1>1. UNCHANGED <<rows, deals, loop, up>>
  BY DEF StartEngine, StopEngine, RestrictToExits
<1>2. Grown
  BY OperatorGrows
<1>3. \A i \in Intents : KeepsDeal(i) /\ (RowsAgree(i) => RowsAgree(i)')
  BY <1>1 DEF KeepsDeal, RowsAgree, RowsAgreeOwn, Foreign, rows
<1>4. ASSUME NEW t \in Strategies PROVE HoldsNoMore(t)
  <2>1. running[t] \in Nat /\ running'[t] \in Nat /\ Len(engines[t]) \in Nat
        /\ running[t] <= Len(engines[t])
        /\ (running'[t] = running[t] \/ running'[t] = 0
              \/ (running'[t] = Len(engines[t]) + 1
                  /\ running'[t] \in 1 .. Len(engines'[t])))
    <3>1. running[t] \in Nat /\ Len(engines[t]) \in Nat
          /\ running[t] <= Len(engines[t])
      BY RunningTypes DEF RunningEngineExists
    <3>2. CASE StartEngine(s)
      <4>1. running'[t] = IF t = s THEN Len(engines[s]) + 1 ELSE running[t]
        BY <3>2 DEF StartEngine, EngineInv, EngineTypes
      <4>2. PICK mode \in {"NORMAL", "EXITS_ONLY"} : engines'[s] =
              Append(engines[s], [position |-> None, mode |-> mode])
        BY <3>2 DEF StartEngine, EngineInv, EngineTypes
      <4>3. Len(engines'[s]) = Len(engines[s]) + 1
        BY <4>2, AppendProperties DEF EngineInv, EngineTypes, EngineObjects
      <4> QED
        BY <3>1, <4>1, <4>3
    <3>3. CASE StopEngine(s)
      BY <3>1, <3>3 DEF StopEngine, EngineInv, EngineTypes
    <3>4. CASE RestrictToExits(s)
      BY <3>1, <3>4 DEF RestrictToExits
    <3> QED
      BY <3>2, <3>3, <3>4
  <2>2. CASE running'[t] = running[t] /\ running[t] # 0
    <3>1. running[t] \in 1 .. Len(engines[t]) /\ running[t] \in 1 .. Len(engines'[t])
      BY <1>2, <2>1, <2>2 DEF Grown
    <3> QED
      BY <1>2, <2>2, <3>1 DEF Grown, HoldsNoMore
  <2>3. CASE /\ running'[t] = Len(engines[t]) + 1
             /\ running'[t] \in 1 .. Len(engines'[t])
    BY <1>2, <2>1, <2>3 DEF Grown, HoldsNoMore
  <2> QED
    BY <2>1, <2>2, <2>3 DEF HoldsNoMore
<1>5. \A t \in Strategies : /\ Len(engines[t]) \in Nat
                            /\ Len(engines'[t]) \in Nat
                            /\ Len(engines[t]) <= Len(engines'[t])
  BY <1>2 DEF Grown
<1> QED
  BY <1>1, <1>3, <1>4, <1>5, Disturbance

LEMMA TradeDuring ==
  ASSUME IInv, PassInv, AtWork, pass.at \notin Ended, Trade, ~overlapped', up'
  PROVE  AtWork'
<1>1. loop' = loop /\ loop.at = "idle"
  BY DEF Trade, AtWork, PassRisk, Quiescent
<1>2. /\ UNCHANGED <<synced, linked, forced>>
      /\ pass' = [pass EXCEPT !.quiet = FALSE]
  BY <1>1 DEF Trade, Disturbed, Writing
<1>3. CASE BrokerActs
  <2>1. PICK d \in Intents, to \in {"open", "void", "closed"} :
          /\ deals' = [deals EXCEPT ![d] = to]
          /\ \/ deals[d] = "pending" /\ to \in {"open", "void"}
             \/ deals[d] = "closing" /\ to \in {"open", "closed"}
    BY <1>3 DEF BrokerActs
  <2>2. UNCHANGED <<rows, engines, running, loop, up>> /\ DealMove(deals[d], to)
    BY <1>3, <2>1 DEF BrokerActs, DealMove
  <2> QED
    BY <1>2, <2>1, <2>2, DealDuring
<1>4. ~Crash /\ ~EvaluatePrice
  BY <1>1, PartsOfIInv DEF Crash, EvaluatePrice, LoopInv, LoopType
<1>5. CASE \E s \in Strategies :
             StartEngine(s) \/ StopEngine(s) \/ RestrictToExits(s)
  BY <1>2, <1>5, OperatorDuring
<1> QED
  BY <1>1, <1>3, <1>4, <1>5, IdleNext DEF Trade

LEMMA BrokerClosesWork ==
  ASSUME IInv, PassInv, AtWork, BrokerCloses, up
  PROVE  AtWork'
<1> USE PartsOfIInv
<1>1. PICK d \in Intents : /\ deals[d] = "open"
                           /\ deals' = [deals EXCEPT ![d] = "closed"]
  BY DEF BrokerCloses
<1>2. /\ UNCHANGED <<rows, engines, running, loop, up, synced, linked, forced>>
      /\ DealMove(deals[d], "closed") /\ "closed" \in DealStates
  BY <1>1 DEF BrokerCloses, DealMove, DealStates
<1>3. CASE pass.at \notin Ended
  <2>1. pass' = [pass EXCEPT !.quiet = FALSE]
    BY <1>2, <1>3 DEF BrokerCloses, Disturbed
  <2> QED
    BY <1>1, <1>2, <1>3, <2>1, DealDuring
<1>4. CASE pass.at \in Ended
  <2>1. RiskInv /\ RiskInv'
    BY <1>1, <1>2, <1>4, DealRisk DEF AtWork
  <2>2. /\ pass' = IdlePass /\ pass'.at \in Ended /\ SamePlace
    BY <1>4, IdlePassTypes DEF BrokerCloses, Disturbed, Ended, Closing, SamePlace
  <2>3. /\ UNCHANGED <<intents, positions, trades>>
        /\ \A i \in Intents : KeepsRecord(i) /\ KeepsDeal(i)
        /\ \A i \in Intents : RowsAgree(i) /\ RowsAgree(i)'
    BY <1>1, <1>2, <2>1, DealMoved DEF rows, KeepsRecord, RiskInv, RowInv
  <2>4. /\ linked \in [RowIds -> Intents \cup {None}]
        /\ \A i \in Intents : Recorded(i) /\ Adopted(i)
        /\ Unrecorded
    BY DEF PassInv, RecordTypes, AtWork
  <2>5. ASSUME NEW e \in Intents PROVE Recorded(e)'
    <3>1. ASSUME NEW i, i = linked[Sync(e)], i # None
          PROVE  intents'[i] = intents[i] /\ Foreign(i)'
      <4>1. i \in Intents /\ Foreign(i)
        BY <2>4, <3>1, RowIdsOf DEF Recorded
      <4> QED
        BY <2>3, <4>1, ForeignKept
    <3> QED
      BY <1>2, <2>2, <2>3, <2>4, <3>1, RecordKept DEF Recorded
  <2>6. \A i \in Intents : Adopted(i)'
    BY <1>2, <2>2, <2>3, <2>4, AdoptedKept
  <2>7. Unrecorded'
    BY <1>2, <2>4 DEF Unrecorded, InFlight, Current
  <2> QED
    BY <2>1, <2>2, <2>5, <2>6, <2>7 DEF AtWork
<1> QED
  BY <1>3, <1>4

-----------------------------------------------------------------------------
(* The steps of a pass.                                                    *)

LEMMA GoesOn ==
  ASSUME AtWork, pass.at \notin Ended, pass'.at \notin Ended, loop' = loop,
         \A i \in Intents : Settled(i)', \A s \in Strategies : Holding(s)',
         Snapshots', AtRow', Agreeing',
         \A d \in Intents : Recorded(d)', \A i \in Intents : Adopted(i)'
  PROVE  AtWork'
<1>1. Quiescent /\ Quiescent'
  BY DEF AtWork, PassRisk, Quiescent
<1>2. Unrecorded'
  BY <1>1 DEF Quiescent, Unrecorded, InFlight
<1> QED
  BY <1>1, <1>2 DEF AtWork, PassRisk

LEMMA RecordsStay ==
  ASSUME AtWork, UNCHANGED <<vars, synced, linked, forced>>, SamePlace
  PROVE  /\ \A d \in Intents : Recorded(d)' /\ Adopted(d)'
         /\ Gone' = Gone
<1>1. /\ Gone' = Gone
      /\ pass'.at = "trading" <=> pass.at = "trading"
      /\ \A r : \A label \in Closing :
           (pass'.at = label /\ pass'.row = r)
             <=> (pass.at = label /\ pass.row = r)
      /\ "trading" \in Closing /\ "forcing" \in Closing
  BY PlaceKept DEF Closing
<1>2. UNCHANGED <<intents, positions, trades, deals, synced, linked, forced>>
  BY DEF vars
<1>3. \A i : Foreign(i)' <=> Foreign(i)
  BY <1>2 DEF Foreign
<1>4. ASSUME NEW d \in Intents PROVE Recorded(d)'
  <2>1. Recorded(d)
    BY DEF AtWork
  <2>2. pass'.at = "trading" /\ pass'.row = Sync(d)
          <=> pass.at = "trading" /\ pass.row = Sync(d)
    BY <1>1
  <2> QED
    BY <1>1, <1>2, <1>3, <2>1, <2>2 DEF Recorded
<1>5. ASSUME NEW i \in Intents PROVE Adopted(i)'
  <2>1. Adopted(i)
    BY DEF AtWork
  <2>2. \A r : (pass'.at \in {"trading", "forcing"} /\ pass'.row = r)
          <=> (pass.at \in {"trading", "forcing"} /\ pass.row = r)
    BY <1>1
  <2> QED
    BY <1>2, <1>3, <2>1, <2>2 DEF Adopted, Active
<1> QED
  BY <1>1, <1>4, <1>5

\* A pass that ends, whether it is over or an exception cuts it short.
LEMMA EndsAtRest ==
  ASSUME IInv, AtWork, up, UNCHANGED <<vars, synced, linked, forced>>,
         pass.at \notin Ended \cup Closing, pass'.at \in Ended
  PROVE  AtWork'
<1>1. Gone = {} /\ SamePlace
  BY NobodyGone, EndedOpen DEF SamePlace
<1>2. RiskInv
  BY <1>1, RiskFromAlone DEF AtWork
<1>3. RiskInv'
  BY <1>2, NextRisk
<1>4. Unrecorded'
  BY DEF AtWork, Unrecorded, InFlight, Current, vars
<1> QED
  BY <1>1, <1>3, <1>4, RecordsStay DEF AtWork

LEMMA SettledStay ==
  ASSUME UNCHANGED vars, NEW i \in Intents, Settled(i), i \notin Gone, i \notin Gone'
  PROVE  Settled(i)'
<1>1. RowsAgree(i)' /\ AtRest(i)'
  BY DEF Settled, RowsAgree, RowsAgreeOwn, Foreign, AtRest, Reviewed, OpenRow, vars
<1> QED
  BY <1>1 DEF Settled

LEMMA OpenRowsAre ==
  ASSUME NEW d \in Intents
  PROVE  /\ Own(d) \in OpenRows <=> positions[d] = "open"
         /\ Sync(d) \in OpenRows <=> synced[d] = "open"
BY RowIdsOf DEF OpenRows, RowState

LEMMA FetchWork ==
  ASSUME IInv, PassInv, AtWork, FetchRemote, ~overlapped'
  PROVE  AtWork' /\ pass'.at # "done"
<1>1. /\ up /\ pass.at \in Ended /\ loop.at = "idle"
      /\ UNCHANGED <<vars, synced, linked, forced>>
  BY DEF FetchRemote
<1>2. /\ pass'.at = "listing" /\ pass'.remote = AtBroker /\ pass'.todo = AtBroker
  BY DEF FetchRemote, IdlePass
<1>3. /\ SamePlace /\ Gone = {} /\ Gone' = {}
      /\ "listing" \notin Ended \cup Closing \cup {"confirming"}
      /\ "listing" \notin {"linking", "attaching", "forcing", "detaching"}
  <2>1. "listing" \notin Ended \cup Closing \cup {"confirming"}
        /\ "listing" \notin {"linking", "attaching", "forcing", "detaching"}
    BY DEF Ended, Closing
  <2> QED
    BY <1>1, <1>2, <2>1, EndedOpen DEF SamePlace, Gone
<1>4. RiskInv /\ PassRisk
  BY <1>1, <1>3, AloneFromRisk DEF AtWork
<1>5. \A d \in Intents : RowsAgree(d) /\ Recorded(d)
  BY <1>4 DEF RiskInv, RowInv, AtWork
<1>6. PassRisk'
  <2>1. \A i \in Intents : Settled(i)'
    BY <1>1, <1>3, <1>4, SettledStay DEF PassRisk
  <2>2. \A s \in Strategies : Holding(s)'
    BY <1>1, <1>3, <1>4 DEF PassRisk, Holding, vars
  <2>3. Quiescent'
    BY <1>1, <1>4 DEF PassRisk, Quiescent, vars
  <2> QED
    BY <2>1, <2>2, <2>3 DEF PassRisk
<1>7. Snapshots'
  <2>1. \A d \in AtBroker :
          /\ d \in Intents /\ deals[d] \in {"open", "closing", "closed"}
          /\ positions[d] # "closed" /\ synced[d] # "closed"
    BY <1>5 DEF AtBroker, RowsAgree, RowsAgreeOwn, Foreign, Recorded, Absent
  <2>2. \A r \in OpenRows : r[1] \in AtBroker \/ deals[r[1]] = "closed"
    <3> SUFFICES ASSUME NEW r \in OpenRows
                 PROVE  r[1] \in AtBroker \/ deals[r[1]] = "closed"
      OBVIOUS
    <3>1. r[1] \in Intents /\ RowState(r) = "open"
      BY RowIdsOf DEF OpenRows
    <3>2. positions[r[1]] = "open" \/ synced[r[1]] = "open"
      BY <3>1 DEF RowState
    <3>3. deals[r[1]] \in {"open", "closing", "closed"}
      BY <1>5, <3>1, <3>2 DEF RowsAgree, RowsAgreeOwn, Foreign, Recorded, Absent
    <3> QED
      BY <3>1, <3>3 DEF AtBroker
  <2>3. AtBroker' = AtBroker /\ OpenRows' = OpenRows
    BY <1>1 DEF AtBroker, OpenRows, RowState, vars
  <2> QED
    BY <1>1, <1>2, <2>1, <2>2, <2>3 DEF Snapshots, vars
<1>8. AtRow'
  BY <1>2, <1>3 DEF AtRow
<1>9. Agreeing'
  BY <1>1, <1>2 DEF Agreeing, Brought, AtBroker, vars
<1>10. Unrecorded'
  BY <1>1 DEF Unrecorded, InFlight, vars
<1>11. \A d \in Intents : Recorded(d)' /\ Adopted(d)'
  BY <1>1, <1>3, RecordsStay
<1> QED
  BY <1>2, <1>3, <1>6, <1>7, <1>8, <1>9, <1>10, <1>11 DEF AtWork

LEMMA ListWork ==
  ASSUME IInv, PassInv, AtWork, ListLocal
  PROVE  AtWork' /\ pass'.at # "done"
<1>1. /\ pass.at = "listing" /\ UNCHANGED <<vars, synced, linked, forced>>
      /\ "listing" \notin Ended \cup Closing /\ "syncing" \notin Ended \cup Closing
  BY DEF ListLocal, Ended, Closing
<1>2. /\ pass'.at = "syncing" /\ pass'.local = OpenRows
      /\ pass'.remote = pass.remote /\ pass'.todo = pass.todo
      /\ pass'.quiet = pass.quiet
  BY DEF ListLocal, PassInv, PassTypes, PassRecords
<1>3. SamePlace /\ Gone = {} /\ Gone' = {}
  BY <1>1, <1>2 DEF SamePlace, Gone
<1>4. PassRisk /\ Snapshots /\ AtRow /\ Agreeing
  BY <1>1 DEF AtWork
<1>5. OpenRows' = OpenRows /\ loop' = loop
  BY <1>1 DEF OpenRows, RowState, vars
<1>6. \A i \in Intents : Settled(i)'
  BY <1>1, <1>3, <1>4, SettledStay DEF PassRisk
<1>7. \A s \in Strategies : Holding(s)'
  BY <1>1, <1>3, <1>4 DEF PassRisk, Holding, vars
<1>8. Snapshots'
  BY <1>1, <1>2, <1>4, <1>5 DEF Snapshots, Brought, vars
<1>9. AtRow'
  BY <1>1, <1>2 DEF AtRow
<1>10. Agreeing'
  BY <1>1, <1>2, <1>4 DEF Agreeing, Brought, Snapshots, AtBroker, vars
<1> QED
  BY <1>1, <1>2, <1>3, <1>5, <1>6, <1>7, <1>8, <1>9, <1>10, RecordsStay, GoesOn

-----------------------------------------------------------------------------
(* The row of a remote position.                                           *)

\* A deal with an open row of its own: its intent, link and engine.
LEMMA OwnRowOpen ==
  ASSUME AtWork, pass.at \notin Ended, NEW d \in Intents, positions[d] = "open"
  PROVE  /\ d \notin Gone /\ OpenRow(d) /\ intents[d].strategy \in Strategies
         /\ RowsAgreeOwn(d) /\ AtRest(d)
         /\ linked[Own(d)] = d /\ synced[d] = Absent
<1>1. PassRisk /\ Recorded(d)
  BY DEF AtWork
<1>2. d \notin Gone
  BY <1>1 DEF PassRisk, Settled, GoneRow
<1>3. RowsAgreeOwn(d) /\ AtRest(d)
  BY <1>1, <1>2 DEF PassRisk, Settled, RowsAgree, Foreign, Absent
<1>4. linked[Own(d)] = d /\ synced[d] = Absent /\ intents[d].reference = d
  BY <1>1 DEF Recorded, Absent
<1>5. intents[d].state \in OpenStates /\ intents[d].strategy \in Strategies
  BY <1>3 DEF RowsAgreeOwn, OpenStates, Absent
<1>6. OpenRow(d)
  <2>1. ~Reviewed(d)
    BY <1>4, NoneIsNoIntent DEF Reviewed
  <2>2. intents[d].state \notin Unsent \cup {"FAILED", "CANCELLED", "CLOSED",
                                            "FORCED_RECONCILIATION_CLOSE"}
    BY <1>5 DEF OpenStates, Unsent, Absent
  <2> QED
    BY <1>3, <1>5, <2>1, <2>2 DEF AtRest
<1> QED
  BY <1>2, <1>3, <1>4, <1>5, <1>6

\* A remote position without a listed row has no open one either.
LEMMA UnknownHasNone ==
  ASSUME IInv, PassInv, AtWork, pass.at = "syncing", NEW d \in pass.todo,
         Known(d) = {}
  PROVE  positions[d] = Absent /\ synced[d] = Absent
<1>1. /\ d \in Intents /\ pass.at \notin Ended /\ pass.at # "listing"
      /\ positions[d] \in {Absent, "open", "closed"}
      /\ synced[d] \in {Absent, "open", "closed"}
  BY PartsOfIInv
     DEF PassInv, PassTypes, PassRecords, RecordTypes, RowTypes, Ended
<1>2. Snapshots
  BY <1>1 DEF AtWork
<1>3. positions[d] # "closed" /\ synced[d] # "closed"
  BY <1>2 DEF Snapshots
<1>4. \A r \in OpenRows : r[1] # d
  BY <1>1, <1>2 DEF Snapshots, Known, Brought
<1>5. positions[d] # "open" /\ synced[d] # "open"
  BY <1>1, <1>4, OpenRowsAre, RowIdsOf
<1> QED
  BY <1>1, <1>3, <1>5

\* An intent that carries the reference of a deal has a row of it.
LEMMA CorrelatedIsKnown ==
  ASSUME IInv, PassInv, AtWork, pass.at = "syncing", NEW d \in pass.todo,
         Known(d) = {}
  PROVE  Correlated(d) = {}
<1>1. positions[d] = Absent /\ synced[d] = Absent
  BY UnknownHasNone
<1>2. SUFFICES ASSUME NEW i \in Correlated(d) PROVE FALSE
  OBVIOUS
<1>3. /\ i \in Intents /\ i \in Active /\ intents[i].reference = d
      /\ d \in Intents /\ pass.at \notin Ended \cup Closing
  BY <1>2 DEF Correlated, Active, PassInv, PassTypes, PassRecords, Ended, Closing
<1>4. RowsAgree(i) /\ AtRest(i) /\ Adopted(i)
  BY <1>3, NobodyGone DEF AtWork, PassRisk, Settled
<1>5. CASE Foreign(i)
  BY <1>1, <1>3, <1>4, <1>5 DEF Adopted, Closing, Absent
<1>6. CASE RowsAgreeOwn(i)
  <2>1. i = d /\ intents[i].reference # None
    BY <1>3, <1>6, NoneIsNoIntent DEF RowsAgreeOwn
  <2>2. /\ intents[i].state \in ActiveOwnershipStates
        /\ intents[i].state # Absent
    BY <1>3, StatesAreKnown DEF Active
  <2>3. /\ intents[i].strategy \in Strategies /\ intents[i].state \notin Unsent
        /\ intents[i].state \notin {"FAILED", "CANCELLED", "CLOSED", Forced}
        /\ ~Reviewed(i)
    <3>1. {"FAILED", "CANCELLED", "CLOSED", Forced} \cap ActiveOwnershipStates = {}
      BY DEF ActiveOwnershipStates, ProvenanceStates, Forced
    <3>2. intents[i].state \notin {"FAILED", "CANCELLED", "CLOSED", Forced}
      BY <2>2, <3>1
    <3> QED
      BY <1>6, <2>1, <2>2, <3>2 DEF RowsAgreeOwn, Reviewed
  <2>4. OpenRow(i)
    BY <1>4, <2>3 DEF AtRest, Forced
  <2> QED
    BY <1>1, <2>1, <2>4 DEF OpenRow, Absent
<1> QED
  BY <1>4, <1>5, <1>6 DEF RowsAgree

\* No engine holds a position that has no row of its strategy.
LEMMA NobodyHolds ==
  ASSUME AtWork, pass.at \notin Ended \cup Closing, NEW d \in Intents,
         positions[d] # "open"
  PROVE  Holders(d) = {}
BY NobodyGone, NoneIsNoIntent
   DEF AtWork, PassRisk, Holding, Holders, RunningEngines

\* The row that is brought in is the open one of the deal, or a new one of
\* broker_sync.
LEMMA SyncedWork ==
  ASSUME IInv, PassInv, AtWork, pass.at = "syncing", NEW d \in pass.todo,
         NEW row \in {Own(d), Sync(d)}, NEW how \in {"known", "adopted"}, NEW s,
         Synced(d, how, row, linked[row], linked[row], s),
         row = Own(d) => /\ positions[d] = "open"
                         /\ s = intents[d].strategy,
         row = Sync(d) => /\ positions[d] = Absent
                          /\ synced[d] \in {Absent, "open"}
                          /\ s \notin Strategies
  PROVE  AtWork' /\ pass'.at # "done"
<1>1. /\ d \in Intents /\ row \in RowIds /\ row[1] = d
      /\ pass \in PassRecords
      /\ {"syncing", "linking"} \cap (Ended \cup Closing) = {}
      /\ synced \in [Intents -> {Absent, "open", "closed"}]
      /\ positions \in [Intents -> {Absent, "open", "closed"}]
      /\ linked \in [RowIds -> Intents \cup {None}]
  BY RowIdsOf, PartsOfIInv
     DEF PassInv, PassTypes, PassRecords, RecordTypes, RowTypes, Ended, Closing
<1>2. /\ UNCHANGED <<intents, entries, closes, trades, deals, engines, running,
                     loop, up, forced>>
      /\ linked' = linked
      /\ pass' = [pass EXCEPT !.at = "linking", !.todo = @ \ {d}, !.row = row,
                   !.how = how, !.intent = linked[row], !.engine = EngineOf(s)]
  BY <1>1 DEF Synced
<1>3. /\ pass'.at = "linking" /\ pass'.todo = pass.todo \ {d} /\ pass'.row = row
      /\ pass'.how = how /\ pass'.intent = linked[row]
      /\ pass'.engine = EngineOf(s) /\ pass'.remote = pass.remote
      /\ pass'.local = pass.local /\ pass'.quiet = pass.quiet
  BY <1>1, <1>2 DEF PassRecords
<1>4. /\ positions' = positions
      /\ \A e \in Intents : e # d => synced'[e] = synced[e]
      /\ synced'[d] = IF row = Own(d) THEN synced[d] ELSE "open"
  <2>1. CASE row = Own(d)
    <3>1. positions' = [positions EXCEPT ![d] = "open"] /\ synced' = synced
      BY <2>1, RowIdsOf DEF Synced, SetRow
    <3> QED
      BY <1>1, <2>1, <3>1
  <2>2. CASE row = Sync(d)
    <3>1. synced' = [synced EXCEPT ![d] = "open"] /\ positions' = positions
      BY <2>2, RowIdsOf DEF Synced, SetRow
    <3> QED
      BY <1>1, <2>2, <3>1, RowIdsOf
  <2> QED
    BY <2>1, <2>2
<1>5. SamePlace /\ Gone = {} /\ Gone' = {}
  BY <1>1, <1>3, NobodyGone DEF SamePlace, Gone
<1>6. /\ PassRisk /\ Snapshots /\ AtRow /\ Agreeing
      /\ \A e \in Intents : Recorded(e) /\ Adopted(e)
  BY <1>1 DEF AtWork
<1>7. synced[d] # "closed" /\ deals[d] \in {"open", "closing", "closed"}
      /\ positions[d] # "closed" /\ d \in pass.remote
  BY <1>6 DEF Snapshots
<1>8. /\ row \in OpenRows'
      /\ \A r \in OpenRows' : r \in OpenRows \/ r = row
      /\ OpenRows \subseteq OpenRows'
  <2>1. ASSUME NEW r \in RowIds
        PROVE  RowState(r)' = IF r = row THEN "open" ELSE RowState(r)
    <3>1. CASE r = Own(r[1])
      BY <1>1, <1>4, <3>1, RowIdsOf DEF RowState
    <3>2. CASE r = Sync(r[1])
      BY <1>1, <1>4, <3>2, RowIdsOf DEF RowState
    <3> QED
      BY <3>1, <3>2, RowIdsOf
  <2> QED
    BY <1>1, <2>1 DEF OpenRows
<1>9. \A i \in Intents : Settled(i)'
  <2>1. ASSUME NEW i \in Intents PROVE RowsAgree(i)' /\ AtRest(i)'
    <3>1. RowsAgree(i) /\ AtRest(i)
      BY <1>5, <1>6 DEF PassRisk, Settled
    <3> QED
      BY <1>2, <1>4, <3>1 DEF RowsAgree, RowsAgreeOwn, Foreign, AtRest, Reviewed,
                              OpenRow
  <2> QED
    BY <1>5, <2>1 DEF Settled
<1>10. \A t \in Strategies : Holding(t)'
  BY <1>2, <1>4, <1>5, <1>6 DEF PassRisk, Holding
<1>11. Brought' = Brought \cup {d} /\ d \notin Brought
  BY <1>3, <1>7 DEF Brought
<1>12. Snapshots'
  <2>1. \A e \in pass.remote : deals'[e] \in {"open", "closing", "closed"}
                               /\ positions'[e] # "closed" /\ synced'[e] # "closed"
    BY <1>1, <1>2, <1>4, <1>6, <1>7 DEF Snapshots, PassRecords
  <2>2. \A r \in OpenRows' : /\ r[1] \in pass.remote \/ deals'[r[1]] = "closed"
                             /\ r \in pass.local \/ r[1] \in Brought'
    BY <1>1, <1>2, <1>6, <1>7, <1>8, <1>11 DEF Snapshots
  <2> QED
    BY <1>1, <1>3, <1>6, <1>8, <2>1, <2>2 DEF Snapshots
<1>13. AtRow'
  <2>1. EngineOf(s) # NoEngine =>
          /\ row = Own(d) /\ EngineOf(s).strategy = intents[d].strategy
          /\ EngineOf(s).number \in 1 .. Len(engines[EngineOf(s).strategy])
    BY RunningTypes DEF EngineOf, RunningEngines
  <2>2. row = Own(d) => row[2] = "own"
    BY RowIdsOf
  <2> QED
    BY <1>1, <1>2, <1>3, <1>8, <1>11, <2>1, <2>2 DEF AtRow, Closing
<1>14. Agreeing'
  <2>1. ASSUME NEW e \in Intents, Agreed(e) PROVE Agreed(e)'
    BY <1>2, <1>8, <2>1 DEF Agreed, Active
  <2>2. Brought \subseteq Intents
    BY <1>1 DEF Brought, PassRecords
  <2>3. AtBroker' = AtBroker
    BY <1>2 DEF AtBroker
  <2> QED
    BY <1>1, <1>3, <1>6, <1>11, <2>1, <2>2, <2>3 DEF Agreeing
<1>15. ASSUME NEW e \in Intents PROVE Recorded(e)'
  <2>1. Recorded(e)
    BY <1>6
  <2>2. \A i : Foreign(i) => Foreign(i)'
    BY <1>2, <1>4 DEF Foreign
  <2>3. pass.at # "trading" /\ pass'.at # "trading"
    BY <1>1, <1>3 DEF Closing
  <2>4. CASE e # d \/ row = Own(d)
    BY <1>2, <1>4, <1>5, <2>1, <2>2, <2>3, <2>4 DEF Recorded
  <2>5. CASE e = d /\ row = Sync(d) /\ row # Own(d)
    BY <1>2, <1>4, <1>5, <1>7, <2>1, <2>2, <2>3, <2>5 DEF Recorded
  <2> QED
    BY <2>4, <2>5, RowIdsOf
<1>16. ASSUME NEW i \in Intents PROVE Adopted(i)'
  <2>1. Adopted(i)
    BY <1>6
  <2>2. pass.at \notin {"trading", "forcing"}
    BY <1>1 DEF Closing
  <2>3. Foreign(i)' /\ i \in Active' <=> Foreign(i) /\ i \in Active
    BY <1>2, <1>4 DEF Foreign, Active
  <2>4. \A e \in Intents : synced[e] = "open" => synced'[e] = "open"
    BY <1>4
  <2> QED
    BY <1>2, <2>1, <2>2, <2>3, <2>4 DEF Adopted
<1> QED
  BY <1>1, <1>2, <1>3, <1>9, <1>10, <1>12, <1>13, <1>14, <1>15, <1>16, GoesOn
     DEF Ended

\* A listed row of the deal is the row of it; any other raises.
LEMMA MatchedWork ==
  ASSUME IInv, PassInv, AtWork, up, NEW d \in Intents, SyncMatched(d)
  PROVE  AtWork' /\ pass'.at # "done"
<1>1. /\ d \in pass.todo /\ pass.at = "syncing"
      /\ pass.at \notin Ended \cup Closing /\ pass.at # "listing"
      /\ pass.local \subseteq OpenRows
  <2>1. d \in pass.todo /\ pass.at = "syncing"
    BY DEF SyncMatched
  <2> QED
    BY <2>1 DEF Ended, Closing, AtWork, Snapshots
<1>2. PICK r \in Matches(d) :
       LET row == RowOf(d, RowStrategy(r))
           found == IF Known(d) = {} THEN Correlated(d) ELSE {}
       IN  IF RowState(row) = "open" /\ RowStrategy(row) = RowStrategy(r)
             THEN \E s \in MatchingStrategies(d, RowStrategy(r)) :
                    IF found = {}
                      THEN Synced(d, "known", row, linked[r], linked[r], s)
                      ELSE \E i \in found :
                             Synced(d, "correlated", row, linked[r], i, s)
             ELSE /\ RaisePass
                  /\ UNCHANGED <<vars, synced, linked, forced, overlapped>>
  BY DEF SyncMatched
<1>3. CASE Known(d) = {}
  <2>1. positions[d] = Absent /\ synced[d] = Absent
    BY <1>1, <1>3, UnknownHasNone
  <2>2. RowState(RowOf(d, RowStrategy(r))) # "open"
    BY <2>1 DEF RowState, RowOf, Absent
  <2>3. RaisePass /\ UNCHANGED <<vars, synced, linked, forced, overlapped>>
    BY <1>2, <2>2
  <2>4. pass'.at \in Ended /\ pass'.at # "done"
    BY <2>3 DEF RaisePass, EndPass, IdlePass, Ended
  <2> QED
    BY <1>1, <2>3, <2>4, EndsAtRest
<1>4. CASE Known(d) # {}
  <2>1. r \in pass.local /\ r[1] = d /\ r \in OpenRows /\ r \in RowIds
    BY <1>1, <1>2, <1>4 DEF Matches, Known, OpenRows
  <2>2. CASE r = Own(d)
    <3>1. positions[d] = "open"
      BY <2>1, <2>2, OpenRowsAre
    <3>2. intents[d].strategy \in Strategies
      BY <1>1, <3>1, OwnRowOpen
    <3>3. RowStrategy(r) = intents[d].strategy /\ intents[d].strategy # BrokerSync
          /\ RowState(r) = "open"
      BY <2>1, <2>2, <3>2, RowIdsOf, StrategiesAssumption
         DEF RowStrategy, BrokerSync, OpenRows
    <3>4. RowOf(d, RowStrategy(r)) = r
      BY <2>2, <3>3 DEF RowOf, Own
    <3>5. PICK s \in MatchingStrategies(d, RowStrategy(r)) :
            Synced(d, "known", r, linked[r], linked[r], s)
      BY <1>2, <1>4, <3>3, <3>4
    <3>6. s = intents[d].strategy
      <4>1. \A t \in Holders(d) : intents[d].strategy = t
        BY NoneIsNoIntent, <1>1 DEF AtWork, PassRisk, Holding, Holders,
           RunningEngines
      <4> QED
        BY <3>3, <4>1 DEF MatchingStrategies
    <3> QED
      BY <1>1, <2>2, <3>1, <3>5, <3>6, SyncedWork, RowIdsOf
  <2>3. CASE r = Sync(d)
    <3>1. synced[d] = "open" /\ positions[d] = Absent
      BY <1>1, <2>1, <2>3, OpenRowsAre DEF AtWork, Recorded, Absent
    <3>2. RowStrategy(r) = BrokerSync /\ RowOf(d, RowStrategy(r)) = r
          /\ RowState(r) = "open" /\ BrokerSync \notin Strategies
      BY <2>1, <2>3, RowIdsOf, StrategiesAssumption
         DEF RowStrategy, RowOf, Sync, BrokerSync, OpenRows
    <3>3. PICK s \in MatchingStrategies(d, RowStrategy(r)) :
            Synced(d, "known", r, linked[r], linked[r], s)
      BY <1>2, <1>4, <3>2
    <3>4. s = BrokerSync
      <4>1. Holders(d) = {}
        BY <1>1, <3>1, NobodyHolds DEF Absent
      <4> QED
        BY <3>2, <4>1 DEF MatchingStrategies
    <3> QED
      BY <1>1, <2>3, <3>1, <3>2, <3>3, <3>4, SyncedWork, RowIdsOf
  <2> QED
    BY <2>1, <2>2, <2>3, RowIdsOf
<1> QED
  BY <1>3, <1>4

\* Nobody knows of the deal: broker_sync gets a row of it.
LEMMA AdoptedWork ==
  ASSUME IInv, PassInv, AtWork, up, NEW d \in Intents,
         SyncCorrelated(d) \/ SyncAdopted(d)
  PROVE  AtWork' /\ pass'.at # "done"
<1>1. /\ d \in pass.todo /\ pass.at = "syncing" /\ Known(d) = {}
      /\ pass.at \notin Ended \cup Closing
  <2>1. d \in pass.todo /\ pass.at = "syncing" /\ Known(d) = {}
    BY DEF SyncCorrelated, SyncAdopted, Matches
  <2> QED
    BY <2>1 DEF Ended, Closing
<1>2. positions[d] = Absent /\ synced[d] = Absent /\ Correlated(d) = {}
  BY <1>1, UnknownHasNone, CorrelatedIsKnown
<1>3. Holders(d) = {} /\ BrokerSync \notin Strategies
  BY <1>1, <1>2, NobodyHolds, StrategiesAssumption DEF Absent, BrokerSync
<1>4. MatchingStrategies(d, BrokerSync) = {BrokerSync}
      /\ RowOf(d, BrokerSync) = Sync(d)
  BY <1>3 DEF MatchingStrategies, RowOf, Sync
<1>5. Synced(d, "adopted", Sync(d), None, None, BrokerSync)
  BY <1>2, <1>4 DEF SyncCorrelated, SyncAdopted
<1>6. linked[Sync(d)] = None
  BY <1>2 DEF AtWork, Recorded
<1> QED
  BY <1>1, <1>2, <1>3, <1>5, <1>6, SyncedWork, RowIdsOf

-----------------------------------------------------------------------------
(* The intent of the row, and its engine.                                  *)

\* The row the pass is at, with its deal.
LEMMA RowAtHand ==
  ASSUME PassInv, AtWork, pass.at \in {"linking", "attaching"}
  PROVE  /\ pass \in PassRecords /\ pass.row \in OpenRows
         /\ pass.row[1] \in Intents /\ pass.row[1] \in Brought
         /\ \/ pass.row = Own(pass.row[1]) /\ positions[pass.row[1]] = "open"
            \/ pass.row = Sync(pass.row[1]) /\ synced[pass.row[1]] = "open"
         /\ pass.intent = linked[pass.row] /\ pass.how # "correlated"
         /\ pass.at \notin Ended \cup Closing /\ pass.at # "listing"
<1>1. pass.at \notin Ended \cup Closing /\ pass.at # "listing"
  BY DEF Ended, Closing
<1>2. /\ pass.row \in OpenRows /\ pass.row[1] \in Brought
      /\ pass.intent = linked[pass.row] /\ pass.how # "correlated"
  BY <1>1 DEF AtWork, AtRow
<1>3. pass \in PassRecords /\ pass.row[1] \in Intents
      /\ (pass.row = Own(pass.row[1]) \/ pass.row = Sync(pass.row[1]))
  BY <1>2, RowIdsOf DEF PassInv, PassTypes, OpenRows
<1> QED
  BY <1>1, <1>2, <1>3, OpenRowsAre

\* The pass writes one intent and links it to the row: the one the row had,
\* or a new one under the name of broker_sync.
LEMMA LinkedWork ==
  ASSUME IInv, PassInv, AtWork, pass.at = "linking",
         NEW i \in Intents, linked' = [linked EXCEPT ![pass.row] = i],
         linked[pass.row] \in {None, i}, intents[i].state # Forced,
         i \in Active => intents[i].reference = pass.row[1],
         \A j \in Intents : j # i => intents'[j] = intents[j],
         i \in Active', intents'[i].reference = pass.row[1],
         \/ /\ pass.row = Own(i) /\ positions[i] = "open"
            /\ RowsAgreeOwn(i)' /\ OpenRow(i)'
            /\ intents'[i].strategy = intents[i].strategy
         \/ pass.row = Sync(pass.row[1]) /\ Foreign(i)',
         UNCHANGED <<entries, closes, positions, trades, deals, engines,
                     running, loop, up, synced, forced>>,
         pass'.at = "attaching", pass'.row = pass.row, pass'.intent = i,
         pass'.how = pass.how, pass'.engine = pass.engine,
         pass'.remote = pass.remote, pass'.todo = pass.todo,
         pass'.local = pass.local, pass'.quiet = pass.quiet
  PROVE  AtWork' /\ pass'.at # "done"
<1>1. /\ pass \in PassRecords /\ pass.row \in OpenRows
      /\ pass.row[1] \in Intents /\ pass.row[1] \in Brought
      /\ \/ pass.row = Own(pass.row[1]) /\ positions[pass.row[1]] = "open"
         \/ pass.row = Sync(pass.row[1]) /\ synced[pass.row[1]] = "open"
      /\ pass.intent = linked[pass.row] /\ pass.how # "correlated"
      /\ pass.at \notin Ended \cup Closing /\ pass.at # "listing"
  BY RowAtHand
<1>2. /\ linked \in [RowIds -> Intents \cup {None}] /\ pass.row \in RowIds
      /\ linked'[pass.row] = i
      /\ \A r \in RowIds : r # pass.row => linked'[r] = linked[r]
  BY <1>1 DEF PassInv, RecordTypes, OpenRows
<1>3. /\ PassRisk /\ Snapshots /\ AtRow /\ Agreeing
      /\ \A e \in Intents : Recorded(e) /\ Adopted(e)
  BY <1>1 DEF AtWork
<1>4. "attaching" \notin Ended \cup Closing /\ "attaching" # "listing"
  BY DEF Ended, Closing
<1>5. SamePlace /\ Gone = {} /\ Gone' = {}
  BY <1>1, <1>4, NobodyGone DEF SamePlace, Gone
<1>6. OpenRows' = OpenRows /\ AtBroker' = AtBroker /\ Brought' = Brought
  BY DEF OpenRows, RowState, AtBroker, Brought
<1>7. /\ positions[i] = "open" => intents'[i].strategy = intents[i].strategy
      /\ positions[i] \in {Absent, "open"}
  BY DEF Foreign, Absent
<1>8. \A j \in Intents : Settled(j)'
  <2>1. RowsAgree(i)' /\ AtRest(i)'
    BY DEF RowsAgree, AtRest, Foreign
  <2>2. ASSUME NEW j \in Intents, j # i PROVE RowsAgree(j)' /\ AtRest(j)'
    <3>1. RowsAgree(j) /\ AtRest(j) /\ intents'[j] = intents[j]
      BY <1>3, <1>5, <2>2 DEF PassRisk, Settled
    <3> QED
      BY <3>1 DEF RowsAgree, RowsAgreeOwn, Foreign, AtRest, Reviewed, OpenRow
  <2> QED
    BY <1>5, <2>1, <2>2 DEF Settled
<1>9. ASSUME NEW s \in Strategies PROVE Holding(s)'
  <2> DEFINE d == engines[s][running[s]].position
  <2>1. running[s] # 0 /\ d # None =>
          intents[d].strategy = s /\ positions[d] = "open"
    BY <1>3, <1>5 DEF PassRisk, Holding
  <2>2. running[s] # 0 => d \in Intents \cup {None}
    BY PartsOfIInv, RunningTypes, PositionTypes
  <2>3. running[s] # 0 /\ d # None => intents'[d].strategy = s
    BY <1>7, <2>1, <2>2
  <2> QED
    BY <2>1, <2>3 DEF Holding
<1>10. Snapshots'
  BY <1>1, <1>3, <1>4, <1>6 DEF Snapshots
<1>11. AtRow'
  <2>1. pass.engine # NoEngine =>
          /\ pass.row[2] = "own"
          /\ pass.engine.strategy = intents'[pass.row[1]].strategy
          /\ pass.engine.number \in 1 .. Len(engines[pass.engine.strategy])
    <3>1. pass.engine # NoEngine =>
            /\ pass.row[2] = "own"
            /\ pass.engine.strategy = intents[pass.row[1]].strategy
            /\ pass.engine.number \in 1 .. Len(engines[pass.engine.strategy])
      BY <1>3 DEF AtRow
    <3>2. pass.row[2] = "own" =>
            intents'[pass.row[1]].strategy = intents[pass.row[1]].strategy
      BY <1>1, <1>7, RowIdsOf
    <3> QED
      BY <3>1, <3>2
  <2> QED
    BY <1>1, <1>2, <1>4, <1>6, <2>1 DEF AtRow
<1>12. Agreeing'
  <2>1. Agreed(pass.row[1])'
    BY <1>1, <1>2, <1>6 DEF Agreed
  <2>2. ASSUME NEW e \in Intents, e # pass.row[1], Agreed(e) PROVE Agreed(e)'
    <3>1. PICK r \in OpenRows : r[1] = e /\ linked[r] \in Active
                                /\ intents[linked[r]].reference = e
      BY <2>2 DEF Agreed
    <3>2. linked'[r] = linked[r] /\ linked[r] # i /\ linked[r] \in Intents
      BY <1>2, <2>2, <3>1 DEF OpenRows, Active
    <3>3. linked[r] \in Active' /\ intents'[linked[r]].reference = e
      BY <3>1, <3>2 DEF Active
    <3> QED
      BY <1>6, <3>1, <3>2, <3>3 DEF Agreed
  <2>3. Brought \subseteq Intents
    BY <1>1 DEF Brought, PassRecords
  <2> QED
    BY <1>3, <1>6, <2>1, <2>2, <2>3 DEF Agreeing
<1>13. intents'[i].state # Forced
  BY ForcedIsFinal DEF Active
<1>14. ASSUME NEW e \in Intents PROVE Recorded(e)'
  <2>0. Recorded(e) /\ pass.at # "trading" /\ pass'.at # "trading"
    BY <1>1, <1>3, <1>4 DEF Closing
  <2>1. positions'[e] # Absent => linked'[Own(e)] = e /\ intents'[e].reference = e
    <3>1. CASE e = i
      BY <1>2, <2>0, <3>1, RowIdsOf DEF Recorded, Foreign
    <3>2. CASE e # i
      <4>1. pass.row # Own(e)
        <5>1. pass.row = Own(e) => positions[e] = "open"
          BY <1>1, RowIdsOf
        <5>2. pass.row = Own(e) => linked[pass.row] = e
          BY <2>0, <5>1 DEF Recorded, Absent
        <5> QED
          BY <3>2, <5>2, NoneIsNoIntent
      <4> QED
        BY <1>2, <2>0, <3>2, <4>1, RowIdsOf DEF Recorded
    <3> QED
      BY <3>1, <3>2
  <2>2. ASSUME NEW j \in Intents, j = linked'[Sync(e)]
        PROVE  Foreign(j)' /\ intents'[j].reference = e /\ synced[e] # Absent
    <3>1. CASE pass.row = Sync(e)
      <4>1. j = i /\ pass.row[1] = e /\ pass.row # Own(i)
        BY <1>2, <2>2, <3>1, RowIdsOf
      <4>2. synced[e] # Absent
        BY <1>1, <3>1, RowIdsOf DEF Absent
      <4> QED
        BY <4>1, <4>2
    <3>2. CASE pass.row # Sync(e)
      <4>1. j = linked[Sync(e)]
        BY <1>2, <2>2, <3>2, RowIdsOf
      <4>2. Foreign(j) /\ intents[j].reference = e /\ synced[e] # Absent
        BY <2>0, <4>1, NoneIsNoIntent DEF Recorded
      <4>3. j # i
        <5>1. SUFFICES ASSUME j = i PROVE FALSE
          OBVIOUS
        <5>2. i \in Active
          BY <4>2, <5>1 DEF Foreign, Forced, Active, ActiveOwnershipStates,
                            ProvenanceStates
        <5>3. pass.row = Own(i) /\ positions[i] = "open"
          BY <1>1, <3>2, <4>2, <5>1, <5>2
        <5> QED
          BY <4>2, <5>1, <5>3 DEF Foreign, Absent
      <4>4. Foreign(j)' /\ intents'[j].reference = e
        BY <4>2, <4>3 DEF Foreign
      <4> QED
        BY <4>2, <4>4
    <3> QED
      BY <3>1, <3>2
  <2>3. forced'[Own(e)] = IF intents'[e].state = Forced
               /\ intents'[e].strategy \in Strategies THEN 1 ELSE 0
    <3>1. forced[Own(e)] = IF intents[e].state = Forced
               /\ intents[e].strategy \in Strategies THEN 1 ELSE 0
      BY <1>5, <2>0 DEF Recorded, Forced
    <3>2. CASE e = i
      BY <1>13, <3>1, <3>2
    <3>3. CASE e # i
      BY <3>1, <3>3
    <3> QED
      BY <3>2, <3>3
  <2>4. linked'[Sync(e)] # None =>
          /\ Foreign(linked[Sync(e)])'
          /\ intents'[linked'[Sync(e)]].reference = e
          /\ synced'[e] # Absent
    <3>1. linked'[Sync(e)] \in Intents \cup {None}
      BY <1>2, RowIdsOf
    <3> QED
      BY <2>2, <3>1
  <2> QED
    BY <1>5, <2>0, <2>1, <2>3, <2>4 DEF Recorded, Forced
<1>15. ASSUME NEW j \in Intents PROVE Adopted(j)'
  <2>1. pass.at \notin {"trading", "forcing"}
    BY <1>1 DEF Closing
  <2>2. CASE j = i /\ Foreign(i)'
    <3>1. pass.row = Sync(pass.row[1])
      BY <2>2 DEF Foreign, Absent
    <3> QED
      BY <1>1, <1>2, <2>2, <3>1, RowIdsOf DEF Adopted
  <2>3. CASE j # i /\ Foreign(j)' /\ j \in Active'
    <3>1. intents'[j] = intents[j] /\ Foreign(j) /\ j \in Active
      BY <2>3 DEF Foreign, Active
    <3>2. LET d == intents[j].reference IN
            d \in Intents /\ linked[Sync(d)] = j /\ synced[d] = "open"
      BY <1>3, <2>1, <3>1 DEF Adopted
    <3>3. pass.row # Sync(intents[j].reference)
      BY <2>3, <3>2, NoneIsNoIntent
    <3> QED
      BY <1>2, <3>1, <3>2, <3>3, RowIdsOf DEF Adopted
  <2> QED
    BY <2>2, <2>3 DEF Adopted
<1> QED
  BY <1>1, <1>4, <1>8, <1>9, <1>10, <1>11, <1>12, <1>14, <1>15, GoesOn

\* A row that has its intent keeps it; if the tables refuse the state it is
\* to have, the pass ends.
LEMMA LinkWork ==
  ASSUME IInv, PassInv, AtWork, up, LinkIntent
  PROVE  AtWork' /\ pass'.at # "done"
<1> USE PartsOfIInv
<1>1. pass.at = "linking" /\ pass.intent # None /\ IntentTypes
  BY DEF LinkIntent, IntentInv
<1>2. /\ pass \in PassRecords /\ pass.row \in OpenRows
      /\ pass.row[1] \in Intents
      /\ \/ pass.row = Own(pass.row[1]) /\ positions[pass.row[1]] = "open"
         \/ pass.row = Sync(pass.row[1]) /\ synced[pass.row[1]] = "open"
      /\ pass.intent = linked[pass.row]
      /\ pass.at \notin Ended \cup Closing
  BY <1>1, RowAtHand
<1>3. /\ pass.intent \in Intents
      /\ UNCHANGED <<entries, closes, positions, trades, deals, engines,
                     running, loop, up, synced, forced>>
  BY <1>1, <1>2 DEF LinkIntent, PassRecords
<1>4. PICK d \in Intents : d = pass.row[1]
  BY <1>2
<1>5. PICK i \in Intents : i = pass.intent
  BY <1>3
<1>6. CASE ~MayBecome(i, ReconciledState(i))
  <2>1. RaisePass /\ UNCHANGED <<intents, linked>>
    BY <1>1, <1>4, <1>5, <1>6 DEF LinkIntent
  <2>2. pass'.at \in Ended /\ pass'.at # "done"
    BY <2>1 DEF RaisePass, EndPass, IdlePass, Ended
  <2> QED
    BY <1>2, <1>3, <2>1, <2>2, EndsAtRest DEF vars
<1>7. CASE MayBecome(i, ReconciledState(i))
  <2>1. /\ intents' = [intents EXCEPT ![i].state = ReconciledState(i),
                                      ![i].reference = d]
        /\ linked' = [linked EXCEPT ![pass.row] = i]
        /\ pass' = [pass EXCEPT !.at = IF pass.how = "correlated"
                                         THEN "confirming" ELSE "attaching"]
    BY <1>1, <1>4, <1>5, <1>7 DEF LinkIntent
  <2>2. /\ intents'[i].state = ReconciledState(i) /\ intents'[i].reference = d
        /\ intents'[i].strategy = intents[i].strategy
        /\ \A j \in Intents : j # i => intents'[j] = intents[j]
    BY <1>1, <2>1 DEF IntentTypes
  <2>3. pass.how # "correlated"
    BY <1>1, RowAtHand
  <2>4. /\ pass'.at = "attaching" /\ pass'.row = pass.row /\ pass'.intent = i
        /\ pass'.how = pass.how /\ pass'.engine = pass.engine
        /\ pass'.remote = pass.remote /\ pass'.todo = pass.todo
        /\ pass'.local = pass.local /\ pass'.quiet = pass.quiet
    BY <1>2, <1>5, <2>1, <2>3 DEF PassRecords
  <2>5. /\ ReconciledState(i) \in ProvenanceStates \cup {"POSITION_OPENED"}
        /\ ReconciledState(i) \in ActiveOwnershipStates
        /\ intents[i].state \notin ProvenanceStates =>
             ReconciledState(i) = "POSITION_OPENED"
    <3>1. ProvenanceStates \cup {"POSITION_OPENED"} \subseteq ActiveOwnershipStates
      BY DEF ActiveOwnershipStates, ProvenanceStates
    <3> QED
      BY <3>1 DEF ReconciledState
  <2>6. intents[i].state # Forced
    BY <1>7, <2>5, ForcedIsFinal DEF MayBecome
  <2>7. i \in Active'
    BY <2>2, <2>5 DEF Active
  <2>8. /\ linked[pass.row] \in {None, i} /\ d = pass.row[1]
        /\ intents'[i].reference = pass.row[1]
        /\ UNCHANGED <<entries, closes, positions, trades, deals, engines,
                       running, loop, up, synced, forced>>
    BY <1>2, <1>3, <1>4, <1>5, <2>2
  <2>9. CASE pass.row = Own(d) /\ positions[d] = "open"
    <3>1. i = d /\ OpenRow(d) /\ RowsAgreeOwn(d)
      BY <1>2, <1>4, <1>5, <2>9, OwnRowOpen
    <3>2. intents'[d].state = "POSITION_OPENED"
      <4>1. intents[d].state \in Closeable
        BY <3>1 DEF OpenRow
      <4>2. Closeable \cap ProvenanceStates = {}
        BY DEF Closeable, ProvenanceStates
      <4> QED
        BY <2>2, <2>5, <3>1, <4>1, <4>2
    <3>3. OpenRow(d)'
      BY <1>3, <2>2, <2>9, <3>1, <3>2 DEF OpenRow, Closeable
    <3>4. RowsAgreeOwn(d)'
      BY <1>3, <2>2, <2>9, <3>1, <3>2
         DEF RowsAgreeOwn, OpenStates, Unsent, Absent
    <3>5. intents[i].reference = d
      BY <3>1 DEF OpenRow
    <3>6. /\ pass.row = Own(i) /\ positions[i] = "open"
          /\ RowsAgreeOwn(i)' /\ OpenRow(i)'
      BY <2>9, <3>1, <3>3, <3>4
    <3> QED
      BY <1>1, <2>1, <2>2, <2>4, <2>6, <2>7, <2>8, <3>5, <3>6, LinkedWork
  <2>10. CASE pass.row = Sync(d) /\ synced[d] = "open"
    <3>1. Foreign(i) /\ intents[i].reference = d
      BY <1>1, <1>2, <1>4, <1>5, <2>10 DEF AtWork, Recorded
    <3>2. Foreign(i)'
      BY <1>3, <2>2, <2>5, <3>1 DEF Foreign
    <3> QED
      BY <1>1, <2>1, <2>2, <2>4, <2>6, <2>7, <2>8, <2>10, <3>1, <3>2, LinkedWork
  <2> QED
    BY <1>2, <1>4, <2>9, <2>10
<1> QED
  BY <1>6, <1>7

LEMMA CreateWork ==
  ASSUME IInv, PassInv, AtWork, up, CreateIntent
  PROVE  AtWork' /\ pass'.at # "done"
<1> USE PartsOfIInv
<1>1. pass.at = "linking" /\ pass.intent = None /\ IntentTypes
  BY DEF CreateIntent, IntentInv
<1>2. /\ pass \in PassRecords /\ pass.row \in OpenRows
      /\ pass.row[1] \in Intents
      /\ \/ pass.row = Own(pass.row[1]) /\ positions[pass.row[1]] = "open"
         \/ pass.row = Sync(pass.row[1]) /\ synced[pass.row[1]] = "open"
      /\ pass.intent = linked[pass.row]
      /\ pass.at \notin Ended \cup Closing
  BY <1>1, RowAtHand
<1>3. UNCHANGED <<entries, closes, positions, trades, deals, engines,
                  running, loop, up, synced, forced>>
  BY DEF CreateIntent
<1>4. CASE ~Adoptable
  <2>1. RaisePass /\ UNCHANGED <<intents, linked>>
    BY <1>4 DEF CreateIntent
  <2>2. pass'.at \in Ended /\ pass'.at # "done"
    BY <2>1 DEF RaisePass, EndPass, IdlePass, Ended
  <2> QED
    BY <1>2, <1>3, <2>1, <2>2, EndsAtRest DEF vars
<1>5. CASE Adoptable
  <2>1. PICK i \in Unused :
          /\ intents' = [intents EXCEPT ![i] = AdoptedIntent(pass.row)]
          /\ linked' = [linked EXCEPT ![pass.row] = i]
          /\ pass' = [pass EXCEPT !.at = "attaching", !.intent = i]
    BY <1>5 DEF CreateIntent
  <2>2. /\ i \in Intents /\ intents[i].state = Absent
        /\ intents'[i] = AdoptedIntent(pass.row)
        /\ \A j \in Intents : j # i => intents'[j] = intents[j]
    BY <1>1, <2>1 DEF Unused, IntentTypes
  <2>3. /\ pass'.at = "attaching" /\ pass'.row = pass.row /\ pass'.intent = i
        /\ pass'.how = pass.how /\ pass'.engine = pass.engine
        /\ pass'.remote = pass.remote /\ pass'.todo = pass.todo
        /\ pass'.local = pass.local /\ pass'.quiet = pass.quiet
    BY <1>2, <2>1 DEF PassRecords
  <2>4. pass.row = Sync(pass.row[1]) /\ pass.row[2] = "sync"
    <3>1. positions[pass.row[1]] = "open" =>
            linked[Own(pass.row[1])] = pass.row[1]
      BY <1>2, OwnRowOpen
    <3> QED
      BY <1>1, <1>2, <3>1, NoneIsNoIntent, RowIdsOf
  <2>5. /\ intents'[i].state \in ProvenanceStates \cup {"POSITION_OPENED"}
        /\ intents'[i].strategy = BrokerSync
        /\ intents'[i].reference = pass.row[1]
    BY <2>2, <2>4 DEF AdoptedIntent, RowStrategy, ProvenanceStates
  <2>6. i \in Active'
    <3>1. ProvenanceStates \cup {"POSITION_OPENED"} \subseteq ActiveOwnershipStates
      BY DEF ActiveOwnershipStates, ProvenanceStates
    <3> QED
      BY <2>2, <2>5, <3>1 DEF Active
  <2>7. RowsAgree(i)
    BY <1>2, <2>2, NobodyGone DEF AtWork, PassRisk, Settled
  <2>8. Foreign(i)'
    <3>1. RowsAgreeOwn(i)
      BY <2>2, <2>7 DEF RowsAgree, Foreign, ProvenanceStates, Absent
    <3>2. deals[i] = "none" /\ positions[i] \notin {"open", "closed"}
          /\ trades[i] = 0
      BY <2>2, <3>1 DEF RowsAgreeOwn, Unsent, OpenStates, Absent
    <3>3. positions[i] = Absent
      BY <2>2, <3>2 DEF RowTypes
    <3>4. BrokerSync \notin Strategies
      BY StrategiesAssumption DEF BrokerSync
    <3> QED
      BY <1>3, <2>5, <3>2, <3>3, <3>4 DEF Foreign
  <2>9. i \notin Active /\ intents[i].state # Forced
    BY <2>2, StatesAreKnown DEF Active, Forced, Absent
  <2> QED
    BY <1>1, <1>2, <1>3, <2>1, <2>2, <2>3, <2>4, <2>5, <2>6, <2>8, <2>9, LinkedWork
<1> QED
  BY <1>4, <1>5

\* The engine gets the position of its own strategy.
LEMMA AttachWork ==
  ASSUME IInv, PassInv, AtWork, AttachEngine
  PROVE  AtWork' /\ pass'.at # "done"
<1> USE PartsOfIInv
<1>1. /\ pass.at = "attaching"
      /\ UNCHANGED <<rows, deals, running, loop, up, synced, linked, forced>>
      /\ {"attaching", "syncing"} \cap (Ended \cup Closing) = {}
  BY DEF AttachEngine, Ended, Closing
<1>2. /\ pass \in PassRecords /\ pass.row \in OpenRows
      /\ pass.row[1] \in Intents /\ pass.row[1] \in Brought
      /\ \/ pass.row = Own(pass.row[1]) /\ positions[pass.row[1]] = "open"
         \/ pass.row = Sync(pass.row[1]) /\ synced[pass.row[1]] = "open"
  BY <1>1, RowAtHand
<1>3. /\ pass'.at = "syncing" /\ pass'.remote = pass.remote
      /\ pass'.todo = pass.todo /\ pass'.local = pass.local
      /\ pass'.quiet = pass.quiet
  BY <1>2 DEF AttachEngine, PassRecords
<1>4. SamePlace /\ Gone = {} /\ Gone' = {}
  BY <1>1, <1>3, NobodyGone DEF SamePlace, Gone
<1>5. /\ PassRisk /\ Snapshots /\ AtRow /\ Agreeing
      /\ \A e \in Intents : Recorded(e) /\ Adopted(e)
  BY <1>1 DEF AtWork
<1>6. /\ UNCHANGED <<intents, entries, closes, positions, trades>>
      /\ OpenRows' = OpenRows /\ AtBroker' = AtBroker /\ Brought' = Brought
      /\ Active' = Active
  BY <1>1, <1>3 DEF rows, OpenRows, RowState, AtBroker, Brought, Active
<1>7. \A i \in Intents : Settled(i)'
  <2>1. ASSUME NEW i \in Intents PROVE RowsAgree(i)' /\ AtRest(i)'
    <3>1. RowsAgree(i) /\ AtRest(i)
      BY <1>4, <1>5 DEF PassRisk, Settled
    <3> QED
      BY <1>1, <1>6, <3>1 DEF RowsAgree, RowsAgreeOwn, Foreign, AtRest, Reviewed,
                              OpenRow
  <2> QED
    BY <1>4, <2>1 DEF Settled
<1>8. ASSUME NEW s \in Strategies PROVE Holding(s)'
  <2>1. Holding(s)
    BY <1>5 DEF PassRisk
  <2>2. CASE engines'[s][running[s]].position = engines[s][running[s]].position
    BY <1>1, <1>4, <1>6, <2>1, <2>2 DEF Holding
  <2>3. CASE /\ pass.engine # NoEngine /\ pass.engine.strategy = s
             /\ engines'[s][running[s]].position = pass.row[1]
    <3>1. pass.row[2] = "own" /\ s = intents[pass.row[1]].strategy
      BY <1>1, <1>5, <2>3 DEF AtRow
    <3>2. positions[pass.row[1]] = "open"
      BY <1>2, <3>1, RowIdsOf
    <3> QED
      BY <1>1, <1>6, <2>3, <3>1, <3>2 DEF Holding
  <2>4. \/ engines'[s][running[s]].position = engines[s][running[s]].position
        \/ running[s] = 0
        \/ /\ pass.engine # NoEngine /\ pass.engine.strategy = s
           /\ engines'[s][running[s]].position = pass.row[1]
    <3>1. CASE pass.engine = NoEngine
      BY <3>1 DEF AttachEngine
    <3>2. CASE pass.engine # NoEngine
      <4> DEFINE t == pass.engine.strategy
                 n == pass.engine.number
                 d == pass.row[1]
      <4>1. engines' = [engines EXCEPT ![t][n].position = d]
        BY <3>2 DEF AttachEngine
      <4>2. t = intents[d].strategy /\ n \in 1 .. Len(engines[t])
            /\ pass.row[2] = "own"
        BY <1>1, <1>5, <3>2 DEF AtRow
      <4>3. t \in Strategies
        <5>1. positions[d] = "open"
          BY <1>2, <4>2, RowIdsOf
        <5> QED
          BY <1>1, <1>2, <4>2, <5>1, OwnRowOpen
      <4>4. running[s] # 0 => running[s] \in 1 .. Len(engines[s])
        BY RunningTypes
      <4> HIDE DEF t, n, d
      <4>5. CASE t # s
        <5>1. engines'[s] = engines[s]
          BY <4>1, <4>5 DEF EngineInv, EngineTypes
        <5> QED
          BY <5>1
      <4>6. CASE t = s /\ running[s] # 0
        <5>1. engines[s] \in Seq(EngineObjects) /\ d \in Intents
          BY <1>2 DEF EngineInv, EngineTypes, d
        <5>2. engines'[s] = [engines[s] EXCEPT ![n].position = d]
          BY <4>1, <4>6 DEF EngineInv, EngineTypes
        <5>3. \A m \in 1 .. Len(engines[s]) :
                engines'[s][m] = IF m = n THEN [engines[s][n] EXCEPT !.position = d]
                                 ELSE engines[s][m]
          BY <5>1, <5>2
        <5>4. engines[s][n] \in EngineObjects
          BY <4>2, <4>6, <5>1, ElementOfSeq
        <5>5. [engines[s][n] EXCEPT !.position = d].position = d
          BY <5>4 DEF EngineObjects
        <5> QED
          BY <3>2, <4>4, <4>6, <5>3, <5>5 DEF t, d
      <4> QED
        BY <4>5, <4>6
    <3> QED
      BY <3>1, <3>2
  <2>5. CASE running[s] = 0
    BY <1>1, <2>5 DEF Holding
  <2> QED
    BY <2>2, <2>3, <2>4, <2>5
<1>9. Snapshots'
  BY <1>1, <1>3, <1>5, <1>6 DEF Snapshots
<1>10. AtRow'
  BY <1>1, <1>3 DEF AtRow
<1>11. Agreeing'
  <2>1. \A e : Agreed(e) => Agreed(e)'
    BY <1>1, <1>6 DEF Agreed
  <2> QED
    BY <1>1, <1>3, <1>5, <1>6, <2>1 DEF Agreeing
<1>12. ASSUME NEW e \in Intents PROVE Recorded(e)'
  <2>1. \A i : Foreign(i) => Foreign(i)'
    BY <1>1, <1>6 DEF Foreign
  <2>2. pass.at # "trading" /\ pass'.at # "trading"
    BY <1>1, <1>3 DEF Closing
  <2> QED
    BY <1>1, <1>4, <1>5, <1>6, <2>1, <2>2 DEF Recorded
<1>13. ASSUME NEW i \in Intents PROVE Adopted(i)'
  <2>1. Foreign(i)' => Foreign(i)
    BY <1>1, <1>6 DEF Foreign
  <2>2. pass.at \notin {"trading", "forcing"}
    BY <1>1 DEF Closing
  <2> QED
    BY <1>1, <1>5, <1>6, <2>1, <2>2 DEF Adopted
<1> QED
  BY <1>1, <1>3, <1>7, <1>8, <1>9, <1>10, <1>11, <1>12, <1>13, GoesOn

-----------------------------------------------------------------------------
(* The rows that the broker did not report.                                *)

\* The pass is closing by force the row of a deal that is closed.
LEMMA RowLost ==
  ASSUME PassInv, AtWork, pass.at \in Closing
  PROVE  /\ pass \in PassRecords /\ pass.at \notin Ended /\ pass.row \in RowIds
         /\ pass.row[1] \in Intents /\ pass.row[1] \notin pass.remote
         /\ pass.todo = {} /\ Brought = pass.remote
         /\ PassRisk /\ Snapshots /\ Agreeing
         /\ \A e \in Intents : Recorded(e) /\ Adopted(e)
         /\ \/ /\ pass.row = Own(pass.row[1]) /\ Gone = {pass.row[1]}
               /\ GoneRow(pass.row[1])
            \/ /\ pass.row = Sync(pass.row[1]) /\ Gone = {}
               /\ synced[pass.row[1]] = "closed"
<1>1. pass \in PassRecords /\ pass.at \notin Ended /\ pass.row \in RowIds
  BY DEF PassInv, PassTypes, WithRow, Ended, Closing
<1>2. /\ PassRisk /\ Snapshots /\ AtRow /\ Agreeing
      /\ \A e \in Intents : Recorded(e) /\ Adopted(e)
  BY <1>1 DEF AtWork
<1>3. /\ pass.todo = {} /\ RowState(pass.row) = "closed"
      /\ pass.row[1] \notin pass.remote
  BY <1>2 DEF AtRow
<1>4. pass.row[1] \in Intents
      /\ (pass.row = Own(pass.row[1]) \/ pass.row = Sync(pass.row[1]))
  BY <1>1, RowIdsOf
<1>5. CASE pass.row = Own(pass.row[1])
  <2>1. Gone = {pass.row[1]}
    BY <1>5, RowIdsOf DEF Gone
  <2>2. GoneRow(pass.row[1])
    BY <1>2, <1>4, <2>1 DEF PassRisk, Settled
  <2> QED
    BY <1>1, <1>2, <1>3, <1>4, <1>5, <2>1, <2>2 DEF Brought
<1>6. CASE pass.row = Sync(pass.row[1])
  <2>1. Gone = {} /\ synced[pass.row[1]] = "closed"
    BY <1>3, <1>6, RowIdsOf DEF Gone, RowState
  <2> QED
    BY <1>1, <1>2, <1>3, <1>4, <1>6, <2>1 DEF Brought
<1> QED
  BY <1>4, <1>5, <1>6

LEMMA MissingWork ==
  ASSUME IInv, PassInv, AtWork, CloseMissing
  PROVE  AtWork' /\ pass'.at # "done"
<1> USE PartsOfIInv
<1>1. /\ pass.at = "syncing" /\ pass.todo = {} /\ pass \in PassRecords
      /\ "syncing" \notin Ended \cup Closing \cup {"listing", "linking"}
      /\ "trading" \notin Ended \cup {"listing", "linking", "attaching",
                                      "forcing", "detaching", "confirming"}
      /\ "trading" \in Closing
  BY DEF CloseMissing, PassInv, PassTypes, Ended, Closing
<1>2. PICK r \in Missing :
        /\ SetRow(r, "closed")
        /\ pass' = [pass EXCEPT !.at = "trading", !.row = r, !.local = @ \ {r}]
  BY DEF CloseMissing
<1>3. UNCHANGED <<intents, entries, closes, trades, deals, engines, running,
                  loop, up, linked, forced>>
  BY DEF CloseMissing
<1>4. /\ PassRisk /\ Snapshots /\ Agreeing /\ Gone = {}
      /\ \A e \in Intents : Recorded(e) /\ Adopted(e)
  BY <1>1, NobodyGone DEF AtWork
<1>5. r \in pass.local /\ r \in OpenRows /\ r \in RowIds /\ r[1] \notin pass.remote
  BY <1>1, <1>2, <1>4 DEF Missing, Snapshots, OpenRows
<1>6. PICK d \in Intents : d = r[1] /\ (r = Own(d) \/ r = Sync(d))
  BY <1>5, RowIdsOf
<1>7. deals[d] = "closed" /\ d \notin pass.remote
  BY <1>4, <1>5, <1>6 DEF Snapshots
<1>8. /\ pass'.at = "trading" /\ pass'.row = r /\ pass'.local = pass.local \ {r}
      /\ pass'.remote = pass.remote /\ pass'.todo = pass.todo
      /\ pass'.quiet = pass.quiet
  BY <1>1, <1>2 DEF PassRecords
<1>9. ASSUME r = Own(d)
      PROVE  /\ \A i \in Intents : Settled(i)' /\ Recorded(i)' /\ Adopted(i)'
             /\ \A s \in Strategies : Holding(s)'
             /\ RowState(r)' = "closed" /\ OpenRows' = OpenRows \ {r}
             /\ \A e \in Intents : e # d =>
                  positions'[e] = positions[e] /\ synced'[e] = synced[e]
  <2>1. /\ positions[d] = "open" /\ positions'[d] = "closed"
        /\ \A e \in Intents : e # d => positions'[e] = positions[e]
        /\ synced' = synced
    BY <1>2, <1>5, <1>6, <1>9, OpenRowsAre, RowIdsOf DEF SetRow, RowTypes
  <2>2. /\ OpenRow(d) /\ RowsAgreeOwn(d) /\ intents[d].strategy \in Strategies
        /\ linked[Own(d)] = d /\ synced[d] = Absent
    BY <1>1, <2>1, OwnRowOpen
  <2>3. Gone' = {d}
    BY <1>1, <1>6, <1>8, <1>9, RowIdsOf DEF Gone
  <2>4. GoneRow(d)'
    BY <1>1, <1>3, <1>7, <1>8, <2>1, <2>2 DEF GoneRow, OpenRow, RowsAgreeOwn
  <2>5. ASSUME NEW i \in Intents PROVE Settled(i)'
    <3>1. CASE i = d
      BY <2>3, <2>4, <3>1 DEF Settled
    <3>2. CASE i # d
      <4>1. RowsAgree(i) /\ AtRest(i) /\ positions'[i] = positions[i]
        BY <1>4, <2>1, <3>2 DEF PassRisk, Settled
      <4>2. RowsAgree(i)' /\ AtRest(i)'
        BY <1>3, <4>1
           DEF RowsAgree, RowsAgreeOwn, Foreign, AtRest, Reviewed, OpenRow
      <4> QED
        BY <2>3, <3>2, <4>2 DEF Settled
    <3> QED
      BY <3>1, <3>2
  <2>6. ASSUME NEW s \in Strategies PROVE Holding(s)'
    <3> DEFINE e == engines[s][running[s]].position
    <3>1. running[s] # 0 /\ e # None =>
            intents[e].strategy = s /\ positions[e] = "open"
      BY <1>4 DEF PassRisk, Holding
    <3>2. running[s] # 0 => e \in Intents \cup {None}
      BY RunningTypes, PositionTypes
    <3>3. running[s] # 0 /\ e # None =>
            intents'[e].strategy = s /\ (positions'[e] = "open" \/ e \in Gone')
      BY <1>3, <2>1, <2>3, <3>1, <3>2
    <3> QED
      BY <1>3, <3>3 DEF Holding
  <2>7. \A i \in Intents : Foreign(i) <=> Foreign(i)'
    BY <1>3, <2>1 DEF Foreign, Absent
  <2>8. ASSUME NEW e \in Intents PROVE Recorded(e)'
    <3>0. linked[Sync(e)] \in Intents \cup {None}
      BY RowIdsOf DEF PassInv, RecordTypes
    <3>1. Recorded(e) /\ pass'.row # Sync(e) /\ pass.at # "trading"
      BY <1>1, <1>4, <1>8, <1>9, RowIdsOf DEF Closing
    <3>2. CASE e = d
      <4>1. intents[d].state # Forced /\ intents[d].reference = d
        BY <2>2, ForcedIsFinal DEF OpenRow
      <4>2. linked[Sync(d)] = None
        BY <2>2, <3>1, <3>2 DEF Recorded
      <4>3. forced[Own(d)] = 0 /\ forced[Sync(d)] = 0
        BY <1>4, <2>2, <3>1, <3>2, <4>1 DEF Recorded, Forced, Absent
      <4> QED
        BY <1>3, <1>8, <2>1, <2>2, <2>3, <3>2, <4>1, <4>2, <4>3
           DEF Recorded, Absent
    <3>3. CASE e # d
      BY <1>3, <1>4, <1>8, <2>1, <2>3, <2>7, <3>0, <3>1, <3>3 DEF Recorded
    <3> QED
      BY <3>2, <3>3
  <2>9. ASSUME NEW i \in Intents PROVE Adopted(i)'
    <3>1. Adopted(i) /\ pass.at \notin {"trading", "forcing"}
      BY <1>1, <1>4 DEF Closing
    <3> QED
      BY <1>3, <2>1, <2>7, <3>1 DEF Adopted, Active
  <2>10. RowState(r)' = "closed" /\ OpenRows' = OpenRows \ {r}
         /\ \A e \in Intents : e # d =>
              positions'[e] = positions[e] /\ synced'[e] = synced[e]
    <3>1. \A q \in RowIds : RowState(q)' = IF q = r THEN "closed" ELSE RowState(q)
      BY <1>9, <2>1, RowIdsOf DEF RowState
    <3> QED
      BY <1>5, <2>1, <3>1 DEF OpenRows
  <2> QED
    BY <2>5, <2>6, <2>8, <2>9, <2>10
<1>10. ASSUME r = Sync(d)
       PROVE  /\ \A i \in Intents : Settled(i)' /\ Recorded(i)' /\ Adopted(i)'
              /\ \A s \in Strategies : Holding(s)'
              /\ RowState(r)' = "closed" /\ OpenRows' = OpenRows \ {r}
              /\ \A e \in Intents : e # d =>
                   positions'[e] = positions[e] /\ synced'[e] = synced[e]
  <2>1. /\ synced[d] = "open" /\ synced'[d] = "closed"
        /\ \A e \in Intents : e # d => synced'[e] = synced[e]
        /\ positions' = positions
    BY <1>2, <1>5, <1>6, <1>10, OpenRowsAre, RowIdsOf
       DEF SetRow, PassInv, RecordTypes
  <2>2. positions[d] = Absent /\ forced[Sync(d)] = 0
    BY <1>4, <2>1 DEF Recorded, Absent
  <2>3. Gone' = {}
    BY <1>6, <1>8, <1>10, RowIdsOf DEF Gone
  <2>5. ASSUME NEW i \in Intents PROVE Settled(i)'
    <3>1. RowsAgree(i) /\ AtRest(i)
      BY <1>4 DEF PassRisk, Settled
    <3>2. RowsAgree(i)' /\ AtRest(i)'
      BY <1>3, <2>1, <3>1
         DEF RowsAgree, RowsAgreeOwn, Foreign, AtRest, Reviewed, OpenRow
    <3> QED
      BY <2>3, <3>2 DEF Settled
  <2>6. \A s \in Strategies : Holding(s)'
    BY <1>3, <1>4, <2>1 DEF PassRisk, Holding
  <2>7. \A i : Foreign(i) <=> Foreign(i)'
    BY <1>3, <2>1 DEF Foreign
  <2>8. ASSUME NEW e \in Intents PROVE Recorded(e)'
    <3>1. Recorded(e) /\ pass.at # "trading"
      BY <1>1, <1>4 DEF Closing
    <3>2. CASE e = d
      BY <1>3, <1>4, <1>7, <1>8, <1>10, <2>1, <2>2, <2>3, <2>7, <3>1, <3>2
         DEF Recorded, Absent
    <3>3. CASE e # d
      <4>1. r # Sync(e)
        BY <1>10, <3>3, RowIdsOf
      <4> QED
        BY <1>3, <1>4, <1>8, <2>1, <2>3, <2>7, <3>1, <3>3, <4>1 DEF Recorded
    <3> QED
      BY <3>2, <3>3
  <2>9. ASSUME NEW i \in Intents PROVE Adopted(i)'
    <3>1. Adopted(i) /\ pass.at \notin {"trading", "forcing"}
      BY <1>1, <1>4 DEF Closing
    <3> QED
      BY <1>3, <1>8, <1>10, <2>1, <2>7, <3>1 DEF Adopted, Active
  <2>10. RowState(r)' = "closed" /\ OpenRows' = OpenRows \ {r}
    <3>1. \A q \in RowIds : RowState(q)' = IF q = r THEN "closed" ELSE RowState(q)
      BY <1>6, <1>10, <2>1, RowIdsOf DEF RowState
    <3> QED
      BY <1>5, <3>1 DEF OpenRows
  <2> QED
    BY <2>1, <2>5, <2>6, <2>8, <2>9, <2>10
<1>11. /\ \A i \in Intents : Settled(i)' /\ Recorded(i)' /\ Adopted(i)'
       /\ \A s \in Strategies : Holding(s)'
       /\ RowState(r)' = "closed" /\ OpenRows' = OpenRows \ {r}
       /\ \A e \in Intents : e # d =>
            positions'[e] = positions[e] /\ synced'[e] = synced[e]
  BY <1>6, <1>9, <1>10
<1>12. Brought' = Brought /\ AtBroker' = AtBroker /\ Active' = Active
       /\ Brought = pass.remote /\ pass.remote \subseteq Intents
  BY <1>1, <1>3, <1>8 DEF Brought, AtBroker, Active, PassRecords
<1>13. Snapshots'
  <2>1. \A e \in pass.remote : /\ deals'[e] \in {"open", "closing", "closed"}
                               /\ positions'[e] # "closed" /\ synced'[e] # "closed"
    BY <1>3, <1>4, <1>7, <1>11, <1>12 DEF Snapshots
  <2> QED
    BY <1>1, <1>3, <1>4, <1>8, <1>11, <1>12, <2>1 DEF Snapshots
<1>14. AtRow'
  <2>1. RowState(pass.row)' = RowState(r)'
    BY <1>8 DEF RowState
  <2> QED
    BY <1>1, <1>5, <1>8, <1>11, <2>1 DEF AtRow
<1>15. Agreeing'
  <2>1. ASSUME NEW e \in Intents, e # d, Agreed(e) PROVE Agreed(e)'
    BY <1>3, <1>6, <1>11, <1>12, <2>1 DEF Agreed
  <2> QED
    BY <1>1, <1>4, <1>7, <1>8, <1>12, <2>1 DEF Agreeing
<1> QED
  BY <1>1, <1>3, <1>8, <1>11, <1>13, <1>14, <1>15, GoesOn

\* The intent that is forced is the one the row is linked to, if any.
LEMMA ForcedIsLinked ==
  ASSUME PassInv, AtWork, pass.at = "trading", NEW i \in ForcedIntents(pass.row)
  PROVE  i = linked[pass.row]
<1>1. /\ pass.row \in RowIds /\ pass.row[1] \in Intents /\ PassRisk
      /\ \A e \in Intents : Recorded(e) /\ Adopted(e)
      /\ \/ /\ pass.row = Own(pass.row[1]) /\ GoneRow(pass.row[1])
         \/ pass.row = Sync(pass.row[1]) /\ Gone = {}
  BY RowLost DEF Closing
<1>2. CASE linked[pass.row] # None
  BY <1>2 DEF ForcedIntents
<1>3. CASE linked[pass.row] = None
  <2> DEFINE d == pass.row[1]
  <2>1. pass.row = Sync(d) /\ pass.row[2] = "sync" /\ Gone = {}
    <3>1. GoneRow(d) => linked[Own(d)] = d /\ d # None
      BY <1>1, NoneIsNoIntent DEF GoneRow, Recorded, Absent
    <3> QED
      BY <1>1, <1>3, <3>1, RowIdsOf
  <2>2. ASSUME NEW j \in Intents,
               intents[j].state \in {"PARTIALLY_FILLED", "POSITION_OPENED",
                  "CLOSE_REQUESTED"} \cup ProvenanceStates,
               intents[j].strategy = BrokerSync, intents[j].reference = d
        PROVE  FALSE
    <3>1. RowsAgree(j) /\ Adopted(j)
      BY <1>1, <2>1 DEF PassRisk, Settled
    <3>2. Foreign(j)
      BY <2>2, <3>1, StrategiesAssumption
         DEF RowsAgree, RowsAgreeOwn, BrokerSync, ProvenanceStates, Absent
    <3>3. j \in Active
      BY <2>2 DEF Active, ActiveOwnershipStates, ProvenanceStates
    <3> QED
      BY <1>3, <2>1, <2>2, <3>1, <3>2, <3>3, NoneIsNoIntent DEF Adopted
  <2>3. RowStrategy(pass.row) = BrokerSync
    BY <2>1 DEF RowStrategy
  <2> QED
    BY <1>3, <2>2, <2>3 DEF ForcedIntents
<1> QED
  BY <1>2, <1>3

LEMMA ForcedTradeWork ==
  ASSUME IInv, PassInv, AtWork, RecordForcedTrade
  PROVE  AtWork' /\ pass'.at # "done"
<1>1. /\ pass.at = "trading" /\ UNCHANGED <<vars, synced, linked>>
      /\ forced' = [forced EXCEPT ![pass.row] = @ + 1]
      /\ "trading" \in Closing /\ "forcing" \in Closing
      /\ {"trading", "forcing"} \cap Ended = {}
      /\ {"trading", "forcing"} \cap {"listing", "linking", "attaching",
                                      "detaching", "confirming"} = {}
  BY DEF RecordForcedTrade, Closing, Ended
<1>2. /\ pass \in PassRecords /\ pass.row \in RowIds
      /\ pass.row[1] \in Intents /\ pass.row[1] \notin pass.remote
      /\ pass.todo = {} /\ Brought = pass.remote
      /\ PassRisk /\ Snapshots /\ Agreeing
      /\ \A e \in Intents : Recorded(e) /\ Adopted(e)
      /\ \/ /\ pass.row = Own(pass.row[1]) /\ Gone = {pass.row[1]}
            /\ GoneRow(pass.row[1])
         \/ /\ pass.row = Sync(pass.row[1]) /\ Gone = {}
            /\ synced[pass.row[1]] = "closed"
  BY <1>1, RowLost
<1>3. PICK k \in ForcedIntents(pass.row) :
        pass' = [pass EXCEPT !.at = "forcing", !.intent = k]
  BY DEF RecordForcedTrade
<1>4. /\ pass'.at = "forcing" /\ pass'.row = pass.row
      /\ pass'.intent = linked[pass.row] /\ pass'.remote = pass.remote
      /\ pass'.todo = pass.todo /\ pass'.local = pass.local
      /\ pass'.quiet = pass.quiet
  BY <1>1, <1>2, <1>3, ForcedIsLinked DEF PassRecords
<1>5. UNCHANGED <<intents, entries, closes, positions, trades, deals, engines,
                  running, loop, up>>
  BY <1>1 DEF vars, rows
<1>6. Gone' = Gone
  BY <1>1, <1>4 DEF Gone
<1>7. ASSUME NEW i \in Intents PROVE Settled(i)'
  <2>1. CASE i \in Gone
    BY <1>1, <1>2, <1>4, <1>5, <1>6, <2>1 DEF PassRisk, Settled, GoneRow
  <2>2. CASE i \notin Gone
    BY <1>1, <1>2, <1>6, <2>2, SettledStay DEF PassRisk
  <2> QED
    BY <2>1, <2>2
<1>8. \A s \in Strategies : Holding(s)'
  BY <1>2, <1>5, <1>6 DEF PassRisk, Holding
<1>9. OpenRows' = OpenRows /\ AtBroker' = AtBroker /\ Brought' = Brought
      /\ Active' = Active /\ RowState(pass.row)' = RowState(pass.row)
  BY <1>1, <1>4, <1>5 DEF OpenRows, RowState, AtBroker, Brought, Active
<1>10. Snapshots'
  BY <1>1, <1>2, <1>4, <1>5, <1>9 DEF Snapshots
<1>11. AtRow'
  BY <1>1, <1>4, <1>9 DEF AtRow, AtWork
<1>12. Agreeing'
  <2>1. \A e : Agreed(e) => Agreed(e)'
    BY <1>1, <1>5, <1>9 DEF Agreed
  <2> QED
    BY <1>1, <1>2, <1>4, <1>9, <2>1 DEF Agreeing
<1>13. /\ forced \in [RowIds -> Nat] /\ forced'[pass.row] = forced[pass.row] + 1
       /\ \A r \in RowIds : r # pass.row => forced'[r] = forced[r]
  BY <1>1, <1>2 DEF PassInv, RecordTypes
<1>14. ASSUME NEW e \in Intents PROVE Recorded(e)'
  <2>1. Recorded(e) /\ Own(e) \in RowIds /\ Sync(e) \in RowIds
    BY <1>2, RowIdsOf
  <2>2. \A j : Foreign(j) => Foreign(j)'
    BY <1>5 DEF Foreign
  <2>3. forced'[Own(e)] = IF e \in Gone' THEN 1
          ELSE IF intents'[e].state = Forced
                  /\ intents'[e].strategy \in Strategies THEN 1 ELSE 0
    <3>1. CASE pass.row = Own(e)
      <4>1. e \in Gone /\ forced[Own(e)] = 0
        BY <1>1, <1>2, <2>1, <3>1, RowIdsOf DEF Recorded
      <4> QED
        BY <1>6, <1>13, <3>1, <4>1
    <3>2. CASE pass.row # Own(e)
      <4>1. e \notin Gone
        BY <1>2, <3>2
      <4> QED
        BY <1>5, <1>6, <1>13, <2>1, <3>2, <4>1 DEF Recorded, Forced
    <3> QED
      BY <3>1, <3>2
  <2>4. forced'[Sync(e)] = IF synced'[e] = "closed" THEN 1 ELSE 0
    <3>1. CASE pass.row = Sync(e)
      <4>1. synced[e] = "closed" /\ forced[Sync(e)] = 0
        BY <1>1, <1>2, <2>1, <3>1, RowIdsOf DEF Recorded
      <4> QED
        BY <1>1, <1>13, <3>1, <4>1
    <3>2. CASE pass.row # Sync(e)
      BY <1>1, <1>13, <2>1, <3>2 DEF Recorded
    <3> QED
      BY <3>1, <3>2
  <2> QED
    BY <1>1, <1>4, <1>5, <2>1, <2>2, <2>3, <2>4 DEF Recorded, Forced
<1>15. ASSUME NEW i \in Intents PROVE Adopted(i)'
  <2>1. Adopted(i) /\ (Foreign(i)' => Foreign(i))
    BY <1>2, <1>5 DEF Foreign
  <2> QED
    BY <1>1, <1>4, <1>5, <1>9, <2>1 DEF Adopted
<1> QED
  BY <1>1, <1>4, <1>5, <1>7, <1>8, <1>10, <1>11, <1>12, <1>14, <1>15, GoesOn

\* The intent of a lost row, if it has one, may be forced.
LEMMA IntentLost ==
  ASSUME IInv, PassInv, AtWork, pass.at = "forcing"
  PROVE  /\ pass.intent = linked[pass.row] /\ pass.intent \in Intents \cup {None}
         /\ pass.row = Own(pass.row[1]) => pass.intent = pass.row[1]
         /\ pass.intent # None =>
              /\ MayBecome(pass.intent, Forced)
              /\ intents[pass.intent].reference = pass.row[1]
              /\ pass.row = Sync(pass.row[1]) => Foreign(pass.intent)
<1>1. /\ pass \in PassRecords /\ pass.row[1] \in Intents
      /\ \A e \in Intents : Recorded(e)
      /\ \/ /\ pass.row = Own(pass.row[1]) /\ GoneRow(pass.row[1])
         \/ pass.row = Sync(pass.row[1])
  BY RowLost DEF Closing
<1>2. pass.intent = linked[pass.row] /\ pass.intent \in Intents \cup {None}
  BY <1>1 DEF AtWork, AtRow, Ended, PassRecords
<1>3. IntentTypes
  BY PartsOfIInv DEF IntentInv
<1>4. CASE pass.row = Own(pass.row[1])
  <2>1. GoneRow(pass.row[1])
    BY <1>1, <1>4, RowIdsOf
  <2>2. /\ pass.intent = pass.row[1]
        /\ intents[pass.intent].reference = pass.row[1]
        /\ intents[pass.intent].state \in Closeable
    BY <1>1, <1>2, <1>4, <2>1 DEF GoneRow, Recorded, Absent
  <2>3. MayBecome(pass.intent, Forced)
    BY <2>2, ForcedIsFinal DEF MayBecome
  <2> QED
    BY <1>2, <1>4, <2>2, <2>3, RowIdsOf
<1>5. CASE pass.row = Sync(pass.row[1])
  <2>1. pass.intent # None =>
          Foreign(pass.intent) /\ intents[pass.intent].reference = pass.row[1]
    BY <1>1, <1>2, <1>5 DEF Recorded
  <2>2. pass.intent # None => intents[pass.intent].state \in
          Closeable \cup ProvenanceStates \cup {Forced}
    BY <2>1 DEF Foreign, Closeable, Forced
  <2>3. pass.intent # None => MayBecome(pass.intent, Forced)
    BY <2>2, ForcedIsFinal DEF MayBecome
  <2> QED
    BY <1>2, <1>5, <2>1, <2>3, RowIdsOf
<1> QED
  BY <1>1, <1>4, <1>5

LEMMA ForceWork ==
  ASSUME IInv, PassInv, AtWork, ForceIntent
  PROVE  AtWork' /\ pass'.at # "done"
<1> USE PartsOfIInv
<1>1. /\ pass.at = "forcing" /\ IntentTypes
      /\ "detaching" \in Closing /\ "forcing" \in Closing
      /\ {"detaching", "forcing"} \cap Ended = {}
      /\ {"detaching", "forcing"} \cap {"listing", "linking", "attaching",
                                        "trading", "confirming"} = {}
  BY DEF ForceIntent, IntentInv, Closing, Ended
<1>2. /\ pass \in PassRecords /\ pass.row \in RowIds
      /\ pass.row[1] \in Intents /\ pass.row[1] \notin pass.remote
      /\ pass.todo = {} /\ Brought = pass.remote
      /\ PassRisk /\ Snapshots /\ Agreeing
      /\ \A e \in Intents : Recorded(e) /\ Adopted(e)
      /\ \/ /\ pass.row = Own(pass.row[1]) /\ Gone = {pass.row[1]}
            /\ GoneRow(pass.row[1])
         \/ /\ pass.row = Sync(pass.row[1]) /\ Gone = {}
            /\ synced[pass.row[1]] = "closed"
  BY <1>1, RowLost
<1>3. UNCHANGED <<entries, closes, positions, trades, deals, engines, running,
                  loop, up, synced, linked, forced>>
  BY DEF ForceIntent
<1>4. PICK d \in Intents : d = pass.row[1]
  BY <1>2
<1>5. PICK i \in Intents \cup {None} : i = pass.intent
  BY <1>1, IntentLost
<1>6. /\ i = linked[pass.row] /\ (pass.row = Own(d) => i = d)
      /\ i # None => /\ MayBecome(i, Forced) /\ intents[i].reference = d
                     /\ pass.row = Sync(d) => Foreign(i)
  BY <1>1, <1>4, <1>5, IntentLost
<1>7. /\ pass' = [pass EXCEPT !.at = "detaching"]
      /\ IF i = None THEN intents' = intents ELSE SetIntent(i, Forced)
  BY <1>5, <1>6 DEF ForceIntent, Forced
<1>8. /\ pass'.at = "detaching" /\ pass'.row = pass.row
      /\ pass'.intent = linked[pass.row] /\ pass'.remote = pass.remote
      /\ pass'.todo = pass.todo /\ pass'.local = pass.local
      /\ pass'.quiet = pass.quiet
  BY <1>2, <1>5, <1>6, <1>7 DEF PassRecords
<1>9. /\ i # None => intents'[i].state = Forced
      /\ \A j \in Intents : /\ intents'[j].strategy = intents[j].strategy
                            /\ intents'[j].reference = intents[j].reference
                            /\ j # i => intents'[j] = intents[j]
  BY <1>1, <1>7 DEF SetIntent, IntentTypes
<1>10. Gone' = Gone
  BY <1>1, <1>8 DEF Gone
<1>11. \A j \in Intents : Foreign(j) <=> Foreign(j)'
  <2>1. i # None /\ Foreign(i)' => pass.row = Sync(d)
    BY <1>2, <1>3, <1>4, <1>6 DEF GoneRow, Foreign, Absent
  <2>2. i # None /\ Foreign(i) => Foreign(i)'
    BY <1>3, <1>9 DEF Foreign, Forced
  <2> QED
    BY <1>3, <1>6, <1>9, <2>1, <2>2, NoneIsNoIntent DEF Foreign
<1>12. ASSUME NEW j \in Intents PROVE Settled(j)'
  <2>1. CASE j \in Gone
    <3>1. j = d /\ i = d /\ GoneRow(d)
      BY <1>2, <1>4, <1>6, <2>1
    <3> QED
      BY <1>3, <1>8, <1>9, <1>10, <2>1, <3>1, NoneIsNoIntent
         DEF Settled, GoneRow, Forced
  <2>2. CASE j \notin Gone /\ j # i
    <3>1. RowsAgree(j) /\ AtRest(j)
      BY <1>2, <2>2 DEF PassRisk, Settled
    <3>2. RowsAgree(j)' /\ AtRest(j)'
      BY <1>3, <1>9, <2>2, <3>1
         DEF RowsAgree, RowsAgreeOwn, Foreign, AtRest, Reviewed, OpenRow
    <3> QED
      BY <1>10, <2>2, <3>2 DEF Settled
  <2>3. CASE j \notin Gone /\ j = i
    <3>1. Foreign(j)
      BY <1>2, <1>4, <1>6, <2>3, NoneIsNoIntent
    <3>2. Foreign(j)'
      BY <1>11, <3>1
    <3> QED
      BY <1>10, <2>3, <3>2 DEF Settled, RowsAgree, AtRest, Foreign
  <2> QED
    BY <2>1, <2>2, <2>3
<1>13. ASSUME NEW s \in Strategies PROVE Holding(s)'
  <2> DEFINE e == engines[s][running[s]].position
  <2>1. running[s] # 0 /\ e # None =>
          intents[e].strategy = s /\ (positions[e] = "open" \/ e \in Gone)
    BY <1>2 DEF PassRisk, Holding
  <2>2. running[s] # 0 => e \in Intents \cup {None}
    BY RunningTypes, PositionTypes
  <2>3. running[s] # 0 /\ e # None =>
          intents'[e].strategy = s /\ (positions'[e] = "open" \/ e \in Gone')
    BY <1>3, <1>9, <1>10, <2>1, <2>2
  <2> QED
    BY <1>3, <2>3 DEF Holding
<1>14. OpenRows' = OpenRows /\ AtBroker' = AtBroker /\ Brought' = Brought
      /\ RowState(pass.row)' = RowState(pass.row)
  BY <1>3, <1>8 DEF OpenRows, RowState, AtBroker, Brought
<1>15. Snapshots'
  BY <1>1, <1>2, <1>3, <1>8, <1>14 DEF Snapshots
<1>16. AtRow'
  BY <1>1, <1>3, <1>8, <1>14 DEF AtRow, AtWork
<1>17. Agreeing'
  <2>1. ASSUME NEW e \in Intents, e # d, Agreed(e) PROVE Agreed(e)'
    <3>1. PICK r \in OpenRows : r[1] = e /\ linked[r] \in Active
                                /\ intents[linked[r]].reference = e
      BY <2>1 DEF Agreed
    <3>2. linked[r] \in Intents /\ linked[r] # i
      BY <1>6, <2>1, <3>1, NoneIsNoIntent DEF Active
    <3>3. linked'[r] \in Active' /\ intents'[linked'[r]].reference = e
      BY <1>3, <1>9, <3>1, <3>2 DEF Active
    <3> QED
      BY <1>14, <3>1, <3>3 DEF Agreed
  <2>2. pass.remote \subseteq Intents /\ d \notin pass.remote
    BY <1>2, <1>4 DEF PassRecords
  <2> QED
    BY <1>1, <1>2, <1>8, <1>14, <2>1, <2>2 DEF Agreeing
<1>18. ASSUME NEW e \in Intents PROVE Recorded(e)'
  <2>1. Recorded(e) /\ linked[Sync(e)] \in Intents \cup {None}
    BY <1>2, RowIdsOf DEF PassInv, RecordTypes
  <2>2. linked'[Sync(e)] # None =>
          /\ Foreign(linked[Sync(e)])'
          /\ intents'[linked'[Sync(e)]].reference = e
          /\ synced'[e] # Absent
    BY <1>3, <1>9, <1>11, <2>1 DEF Recorded
  <2>3. forced'[Own(e)] = IF e \in Gone' THEN 1
          ELSE IF intents'[e].state = Forced
                  /\ intents'[e].strategy \in Strategies THEN 1 ELSE 0
    <3>1. CASE e \in Gone
      BY <1>1, <1>3, <1>10, <2>1, <3>1 DEF Recorded
    <3>2. CASE e \notin Gone
      <4>1. forced[Own(e)] = IF intents[e].state = Forced
               /\ intents[e].strategy \in Strategies THEN 1 ELSE 0
        BY <2>1, <3>2 DEF Recorded, Forced
      <4>2. CASE e = i
        <5>1. intents[e].strategy \notin Strategies
          BY <1>2, <1>4, <1>6, <3>2, <4>2, NoneIsNoIntent DEF Foreign
        <5> QED
          BY <1>3, <1>9, <1>10, <3>2, <4>1, <5>1
      <4>3. CASE e # i
        BY <1>3, <1>9, <1>10, <3>2, <4>1, <4>3
      <4> QED
        BY <4>2, <4>3
    <3> QED
      BY <3>1, <3>2
  <2> QED
    BY <1>1, <1>3, <1>8, <1>9, <2>1, <2>2, <2>3 DEF Recorded, Forced
<1>19. ASSUME NEW j \in Intents PROVE Adopted(j)'
  <2> SUFFICES ASSUME Foreign(j)', j \in Active' PROVE Adopted(j)'
    BY DEF Adopted
  <2>1. j # i /\ Foreign(j)
    BY <1>9, <1>11, ForcedIsFinal, NoneIsNoIntent DEF Active
  <2>2. j \in Active
    BY <1>9, <2>1 DEF Active
  <2>3. LET e == intents[j].reference IN
          /\ e \in Intents /\ linked[Sync(e)] = j
          /\ synced[e] = "open" \/ pass.row = Sync(e)
    BY <1>2, <2>1, <2>2 DEF Adopted
  <2>4. synced[intents[j].reference] = "open"
    BY <1>6, <2>1, <2>3
  <2> QED
    BY <1>3, <1>9, <2>1, <2>3, <2>4 DEF Adopted
<1> QED
  BY <1>1, <1>3, <1>8, <1>12, <1>13, <1>15, <1>16, <1>17, <1>18, <1>19, GoesOn

\* Of the engines that run, only that of the row's strategy lets go, and of
\* nothing but the lost deal.
LEMMA ReleasedHolds ==
  ASSUME IInv, NEW d \in Intents, NEW t, engines' = Released(d, t),
         NEW s \in Strategies, running[s] # 0
  PROVE  \/ engines'[s][running[s]].position = None
         \/ /\ engines'[s][running[s]].position = engines[s][running[s]].position
            /\ ~(s = t /\ engines[s][running[s]].position = d)
<1> USE PartsOfIInv
<1>1. CASE ~(t \in RunningEngines /\ engines[t][running[t]].position = d)
  BY <1>1 DEF Released, RunningEngines
<1>2. CASE t \in RunningEngines /\ engines[t][running[t]].position = d
  <2>1. /\ engines' = [engines EXCEPT ![t][running[t]].position = None]
        /\ t \in Strategies /\ running[t] # 0
    BY <1>2 DEF Released, RunningEngines
  <2>2. CASE t # s
    BY <2>1, <2>2 DEF EngineInv, EngineTypes
  <2>3. CASE t = s
    <3>1. engines[s] \in Seq(EngineObjects) /\ running[s] \in 1 .. Len(engines[s])
      BY RunningTypes DEF EngineInv, EngineTypes
    <3>2. engines[s][running[s]] \in EngineObjects
      BY <3>1, ElementOfSeq
    <3>3. engines'[s] = [engines[s] EXCEPT ![running[s]].position = None]
      BY <2>1, <2>3 DEF EngineInv, EngineTypes
    <3>4. engines'[s][running[s]] = [engines[s][running[s]] EXCEPT !.position = None]
      BY <3>1, <3>3
    <3> QED
      BY <3>2, <3>4 DEF EngineObjects
  <2> QED
    BY <2>2, <2>3
<1> QED
  BY <1>1, <1>2

LEMMA DetachWork ==
  ASSUME IInv, PassInv, AtWork, DetachEngine
  PROVE  AtWork' /\ pass'.at # "done"
<1> USE PartsOfIInv
<1>1. /\ pass.at = "detaching"
      /\ engines' = Released(pass.row[1], RowStrategy(pass.row))
      /\ UNCHANGED <<rows, deals, running, loop, up, synced, linked, forced>>
      /\ "detaching" \in Closing /\ "detaching" \notin Ended
      /\ "syncing" \notin Closing \cup Ended
      /\ {"detaching", "syncing"} \cap {"listing", "linking", "attaching",
                              "trading", "forcing", "confirming"} = {}
  BY DEF DetachEngine, Closing, Ended
<1>2. /\ pass \in PassRecords /\ pass.row \in RowIds
      /\ pass.row[1] \in Intents /\ pass.row[1] \notin pass.remote
      /\ pass.todo = {} /\ Brought = pass.remote
      /\ PassRisk /\ Snapshots /\ Agreeing
      /\ \A e \in Intents : Recorded(e) /\ Adopted(e)
      /\ \/ /\ pass.row = Own(pass.row[1]) /\ Gone = {pass.row[1]}
            /\ GoneRow(pass.row[1])
         \/ /\ pass.row = Sync(pass.row[1]) /\ Gone = {}
            /\ synced[pass.row[1]] = "closed"
  BY <1>1, RowLost
<1>3. PICK d \in Intents : d = pass.row[1]
  BY <1>2
<1>4. /\ pass'.at = "syncing" /\ pass'.remote = pass.remote
      /\ pass'.todo = pass.todo /\ pass'.local = pass.local
      /\ pass'.quiet = pass.quiet
  BY <1>2 DEF DetachEngine, PassRecords
<1>5. UNCHANGED <<intents, entries, closes, positions, trades, deals>>
  BY <1>1 DEF rows
<1>6. Gone' = {}
  BY <1>1, <1>4 DEF Gone
<1>7. d \in Gone => intents[d].state = Forced /\ intents[d].strategy \in Strategies
  BY <1>1, <1>2, <1>3 DEF GoneRow, Forced
<1>8. ASSUME NEW i \in Intents PROVE Settled(i)'
  <2>1. CASE i \in Gone
    <3>1. i = d /\ GoneRow(d) /\ intents[d].state = Forced
      BY <1>2, <1>3, <1>7, <2>1
    <3>2. /\ Forced \notin Unsent \cup {"FAILED", "CANCELLED", "CLOSED"}
          /\ Forced # Absent
      BY DEF Forced, Unsent, Absent
    <3>3. RowsAgreeOwn(d)'
      BY <1>5, <3>1, <3>2 DEF GoneRow, RowsAgreeOwn, Forced
    <3>4. AtRest(d)'
      BY <1>5, <3>1 DEF AtRest, Forced
    <3> QED
      BY <1>6, <3>1, <3>3, <3>4 DEF Settled, RowsAgree
  <2>2. CASE i \notin Gone
    <3>1. RowsAgree(i) /\ AtRest(i)
      BY <1>2, <2>2 DEF PassRisk, Settled
    <3>2. RowsAgree(i)' /\ AtRest(i)'
      BY <1>5, <3>1 DEF RowsAgree, RowsAgreeOwn, Foreign, AtRest, Reviewed, OpenRow
    <3> QED
      BY <1>6, <3>2 DEF Settled
  <2> QED
    BY <2>1, <2>2
<1>9. ASSUME NEW s \in Strategies PROVE Holding(s)'
  <2>1. SUFFICES ASSUME running[s] # 0, engines'[s][running[s]].position # None
                 PROVE  LET e == engines'[s][running[s]].position IN
                          intents[e].strategy = s /\ positions[e] = "open"
    BY <1>1, <1>5 DEF Holding
  <2>2. /\ engines'[s][running[s]].position = engines[s][running[s]].position
        /\ ~(s = RowStrategy(pass.row) /\ engines[s][running[s]].position = d)
    BY <1>1, <1>3, <2>1, ReleasedHolds
  <2> DEFINE e == engines[s][running[s]].position
  <2>3. intents[e].strategy = s /\ (positions[e] = "open" \/ e \in Gone)
    BY <1>2, <2>1, <2>2 DEF PassRisk, Holding
  <2>4. e \notin Gone
    <3>1. SUFFICES ASSUME e = d, pass.row = Own(d) PROVE FALSE
      BY <1>2, <1>3
    <3>2. RowStrategy(pass.row) = intents[d].strategy
      BY <3>1, RowIdsOf DEF RowStrategy
    <3> QED
      BY <2>2, <2>3, <3>1, <3>2
  <2> QED
    BY <2>2, <2>3, <2>4
<1>10. OpenRows' = OpenRows /\ AtBroker' = AtBroker /\ Brought' = Brought
       /\ Active' = Active
  BY <1>1, <1>4, <1>5 DEF OpenRows, RowState, AtBroker, Brought, Active
<1>11. Snapshots'
  BY <1>1, <1>2, <1>4, <1>5, <1>10 DEF Snapshots
<1>12. AtRow'
  BY <1>1, <1>4 DEF AtRow, Closing
<1>13. Agreeing'
  <2>1. \A e : Agreed(e) => Agreed(e)'
    BY <1>1, <1>5, <1>10 DEF Agreed
  <2> QED
    BY <1>1, <1>2, <1>4, <1>10, <2>1 DEF Agreeing
<1>14. ASSUME NEW e \in Intents PROVE Recorded(e)'
  <2>1. Recorded(e)
    BY <1>2
  <2>2. \A j : Foreign(j) => Foreign(j)'
    BY <1>5 DEF Foreign
  <2>3. forced'[Own(e)] = IF intents'[e].state = Forced
               /\ intents'[e].strategy \in Strategies THEN 1 ELSE 0
    <3>1. CASE e \in Gone
      BY <1>1, <1>2, <1>3, <1>5, <1>7, <2>1, <3>1 DEF Recorded
    <3>2. CASE e \notin Gone
      BY <1>1, <1>5, <2>1, <3>2 DEF Recorded, Forced
    <3> QED
      BY <3>1, <3>2
  <2> QED
    BY <1>1, <1>4, <1>5, <1>6, <2>1, <2>2, <2>3 DEF Recorded, Forced
<1>15. ASSUME NEW i \in Intents PROVE Adopted(i)'
  <2>1. Adopted(i) /\ (Foreign(i)' => Foreign(i))
    BY <1>2, <1>5 DEF Foreign
  <2> QED
    BY <1>1, <1>5, <1>10, <2>1 DEF Adopted
<1> QED
  BY <1>1, <1>4, <1>8, <1>9, <1>11, <1>12, <1>13, <1>14, <1>15, GoesOn

\* A pass is over when every remote position is in and every listed row has
\* one: if nothing disturbed it, rows and broker agree.
LEMMA FinishWork ==
  ASSUME IInv, PassInv, AtWork, up, FinishPass
  PROVE  AtWork' /\ PassAgrees'
<1> USE PartsOfIInv
<1>1. /\ pass.at = "syncing" /\ pass.todo = {} /\ Missing = {}
      /\ UNCHANGED <<vars, synced, linked, forced, overlapped>>
      /\ "syncing" \notin Ended \cup Closing \cup {"listing", "linking"}
  BY DEF FinishPass, Ended, Closing
<1>2. pass'.at \in Ended
  BY DEF FinishPass, EndPass, IdlePass, Ended
<1>3. AtWork'
  BY <1>1, <1>2, EndsAtRest
<1>4. PassRisk /\ Snapshots /\ Agreeing /\ Gone = {}
  BY <1>1, NobodyGone DEF AtWork
<1>5. UNCHANGED <<intents, positions, deals, engines, running, linked, synced>>
  BY <1>1 DEF vars, rows
<1>6. /\ AtBroker' = AtBroker /\ OpenRows' = OpenRows /\ Active' = Active
      /\ RunningEngines' = RunningEngines
  BY <1>5 DEF AtBroker, OpenRows, RowState, Active, RunningEngines
<1>7. SUFFICES ASSUME pass'.at = "done", pass'.quiet PROVE PassAgrees'
  BY <1>3 DEF PassAgrees
<1>8. pass.quiet
  BY <1>7 DEF FinishPass, EndPass, IdlePass
<1>9. pass.remote = AtBroker /\ Brought = AtBroker
      /\ \A d \in AtBroker : Agreed(d)
  BY <1>1, <1>4, <1>8 DEF Agreeing, Brought
<1>10. ASSUME NEW r \in OpenRows PROVE r[1] \in AtBroker
  BY <1>1, <1>4, <1>9 DEF Snapshots, Missing
<1>11. ASSUME NEW s \in RunningEngines
       PROVE  engines[s][running[s]].position
                \in {None} \cup {r[1] : r \in OpenRows}
  <2> DEFINE d == engines[s][running[s]].position
  <2>1. s \in Strategies /\ running[s] # 0 /\ d \in Intents \cup {None}
    BY RunningTypes, PositionTypes DEF RunningEngines
  <2>2. d # None => positions[d] = "open"
    BY <1>4, <2>1 DEF PassRisk, Holding
  <2>3. d # None => Own(d) \in OpenRows /\ Own(d)[1] = d
    BY <2>1, <2>2, OpenRowsAre, RowIdsOf
  <2> QED
    BY <2>3
<1>12. \A d \in AtBroker' : \E r \in OpenRows' :
         /\ r[1] = d
         /\ linked'[r] \in Active'
         /\ intents'[linked'[r]].reference = d
  BY <1>5, <1>6, <1>9 DEF Agreed
<1>13. \A r \in OpenRows' : r[1] \in AtBroker'
  BY <1>6, <1>10
<1>14. \A s \in RunningEngines' : engines'[s][running'[s]].position
         \in {None} \cup {r[1] : r \in OpenRows'}
  BY <1>5, <1>6, <1>11
<1> QED
  BY <1>12, <1>13, <1>14 DEF PassAgrees

LEMMA SyncWork ==
  ASSUME IInv, PassInv, AtWork, NEW d \in Intents,
         SyncMatched(d) \/ SyncCorrelated(d) \/ SyncAdopted(d), up
  PROVE  AtWork' /\ pass'.at # "done"
BY MatchedWork, AdoptedWork DEF SyncMatched

\* Every step of a pass.
LEMMA ReconcileWork ==
  ASSUME IInv, PassInv, AtWork, up, Reconcile, ~overlapped'
  PROVE  AtWork' /\ PassAgrees'
<1>1. ~ConfirmExecution
  BY DEF ConfirmExecution, AtWork, AtRow, Ended
<1>2. CASE FinishPass
  BY <1>2, FinishWork
<1>3. CASE ~FinishPass
  <2>1. AtWork' /\ pass'.at # "done"
    BY <1>1, <1>3, FetchWork, ListWork, SyncWork, LinkWork, CreateWork,
       AttachWork, MissingWork, ForcedTradeWork, ForceWork, DetachWork
       DEF Reconcile
  <2> QED
    BY <2>1 DEF PassAgrees
<1> QED
  BY <1>2, <1>3

LEMMA WorkAccounts == PassInv /\ AtWork => OneTradePerDeal
BY AccountedOnce DEF OneTradePerDeal, Own, Sync

LEMMA WorkAccountsNext == PassInv' /\ AtWork' => OneTradePerDeal'
BY WorkAccounts, PTL

\* Whatever disturbs the passes ends the memory of a quiet one.
LEMMA DisturbedAgrees ==
  ASSUME PassInv, Disturbed
  PROVE  PassAgrees' /\ (~up' => pass'.at \in Ended)
<1>1. CASE pass' = IdlePass
  BY <1>1, IdlePassTypes DEF PassAgrees, Ended
<1>2. CASE pass' = [pass EXCEPT !.quiet = FALSE] /\ up'
  BY <1>2, QuietLost DEF PassAgrees, PassInv
<1> QED
  BY <1>1, <1>2 DEF Disturbed

\* After a crash nothing moves but the broker.
LEMMA DownStays ==
  ASSUME IInv, PassInv, ~up, pass.at \in Ended, loop.at = "idle",
         OneTradePerDeal, ~overlapped, ReconNext, ~overlapped'
  PROVE  AgreeInv'
<1>1. ~Reconcile
  BY DEF Reconcile, FetchRemote, ListLocal, SyncMatched, SyncCorrelated,
     SyncAdopted, LinkIntent, CreateIntent, ConfirmExecution, AttachEngine,
     CloseMissing, RecordForcedTrade, ForceIntent, DetachEngine, FinishPass,
     Ended
<1>2. Disturbed /\ UNCHANGED <<rows, loop, up, forced>>
  <2>1. CASE BrokerCloses
    BY <2>1 DEF BrokerCloses
  <2>2. CASE Trade
    <3>1. BrokerActs
      BY <2>2, IdleNext DEF Trade, EvaluatePrice, Crash, StartEngine,
                            StopEngine, RestrictToExits
    <3> QED
      BY <2>2, <3>1 DEF Trade, BrokerActs
  <2> QED
    BY <1>1, <2>1, <2>2 DEF ReconNext
<1>3. OneTradePerDeal'
  BY <1>2 DEF OneTradePerDeal, rows
<1> QED
  BY <1>2, <1>3, DisturbedAgrees DEF AgreeInv

LEMMA UpUntilCrash ==
  ASSUME Next, ~Crash
  PROVE  up' = up
<1>1. CASE Decide \/ Orchestrate \/ Execute
  BY <1>1 DEF Decide, RefuseEntry, ProposeEntry, LinkExit, ReviewEntry,
     Orchestrate, SkipDecision, BlockEntry, PrepareEntry, PrepareExit,
     Execute, ExecuteEntry, ExecuteExit
<1>2. CASE WriteRow \/ Handle \/ StartCall \/ Answer
  BY <1>2 DEF WriteRow, WriteExecution, WriteIntent, WriteEngine,
     WritePosition, WriteTrade, RaiseException, Handle, HandleEntry,
     HandleExit, StartCall, Answer, AnswerEntry, AnswerExit
<1>3. CASE EvaluatePrice \/ BrokerActs \/ \E s \in Strategies :
             StartEngine(s) \/ StopEngine(s) \/ RestrictToExits(s)
  BY <1>3 DEF EvaluatePrice, BrokerActs, StartEngine, StopEngine,
     RestrictToExits
<1> QED
  BY <1>1, <1>2, <1>3 DEF Next, Pipeline

LEMMA UpStays ==
  ASSUME IInv, PassInv, PassInv', AtWork, up, OneTradePerDeal, ~overlapped,
         ReconNext, ~overlapped'
  PROVE  AgreeInv'
<1>1. CASE Reconcile
  <2>1. up' = up
    BY <1>1 DEF Reconcile, FetchRemote, ListLocal, SyncMatched, SyncCorrelated,
       SyncAdopted, Synced, LinkIntent, CreateIntent, ConfirmExecution,
       AttachEngine, CloseMissing, RecordForcedTrade, ForceIntent,
       DetachEngine, FinishPass, vars
  <2> QED
    BY <1>1, <2>1, ReconcileWork, WorkAccountsNext DEF AgreeInv
<1>2. CASE (Trade \/ BrokerCloses) /\ up'
  <2>1. AtWork'
    BY <1>2, TradeBetween, TradeDuring, BrokerClosesWork
  <2> QED
    BY <1>2, <2>1, DisturbedAgrees, WorkAccountsNext
       DEF AgreeInv, Trade, BrokerCloses
<1>3. CASE Trade /\ ~up'
  <2>1. Crash
    <3>1. Next
      BY <1>3 DEF Trade
    <3> QED
      BY <1>3, <3>1, UpUntilCrash
  <2>2. /\ UNCHANGED rows /\ loop' = IdleLoop /\ UNCHANGED forced /\ Disturbed
    BY <1>3, <2>1 DEF Crash, Trade
  <2>3. OneTradePerDeal' /\ loop'.at = "idle"
    BY <2>2 DEF OneTradePerDeal, rows, IdleLoop
  <2> QED
    BY <1>3, <2>2, <2>3, DisturbedAgrees DEF AgreeInv
<1> QED
  BY <1>1, <1>2, <1>3 DEF ReconNext, BrokerCloses

LEMMA StutterWork ==
  ASSUME IInv, AtWork, UNCHANGED allVars
  PROVE  AtWork'
<1>1. /\ UNCHANGED <<vars, synced, linked, forced, pass>> /\ SamePlace
      /\ UNCHANGED <<intents, entries, positions, trades, deals, engines,
                     running, loop>>
  BY DEF allVars, supervision, vars, rows, SamePlace
<1>2. (\A d \in Intents : Recorded(d)' /\ Adopted(d)') /\ Gone' = Gone
  BY <1>1, RecordsStay
<1>3. Unrecorded'
  BY <1>1 DEF AtWork, Unrecorded, InFlight, Current
<1>4. CASE pass.at \in Ended
  <2>1. RiskInv'
    BY <1>1, <1>4, NextRisk DEF AtWork
  <2> QED
    BY <1>1, <1>2, <1>3, <1>4, <2>1 DEF AtWork
<1>5. CASE pass.at \notin Ended
  <2>1. ASSUME NEW i \in Intents PROVE Settled(i)'
    <3>1. CASE i \in Gone
      BY <1>1, <1>2, <1>5, <3>1 DEF AtWork, PassRisk, Settled, GoneRow
    <3>2. CASE i \notin Gone
      BY <1>1, <1>2, <1>5, <3>2, SettledStay DEF AtWork, PassRisk
    <3> QED
      BY <3>1, <3>2
  <2>2. \A s \in Strategies : Holding(s)'
    BY <1>1, <1>2, <1>5 DEF AtWork, PassRisk, Holding
  <2>3. /\ OpenRows' = OpenRows /\ AtBroker' = AtBroker /\ Active' = Active
        /\ Brought' = Brought /\ RowState(pass.row)' = RowState(pass.row)
    BY <1>1 DEF OpenRows, RowState, AtBroker, Active, Brought
  <2>4. Snapshots'
    BY <1>1, <1>5, <2>3 DEF AtWork, Snapshots
  <2>5. AtRow'
    BY <1>1, <1>5, <2>3 DEF AtWork, AtRow
  <2>6. Agreeing'
    <3>1. \A e : Agreed(e) => Agreed(e)'
      BY <1>1, <2>3 DEF Agreed
    <3> QED
      BY <1>1, <1>5, <2>3, <3>1 DEF AtWork, Agreeing
  <2> QED
    BY <1>1, <1>2, <1>5, <2>1, <2>2, <2>4, <2>5, <2>6, GoesOn
<1> QED
  BY <1>4, <1>5

LEMMA AgreeStutters ==
  IInv /\ AgreeInv /\ UNCHANGED allVars => AgreeInv'
<1> SUFFICES ASSUME IInv, AgreeInv, UNCHANGED allVars PROVE AgreeInv'
  OBVIOUS
<1>1. UNCHANGED <<intents, positions, trades, deals, engines, running, loop, up,
                  synced, linked, forced, pass, overlapped>>
  BY DEF allVars, supervision, vars, rows
<1>2. OneTradePerDeal => OneTradePerDeal'
  BY <1>1 DEF OneTradePerDeal
<1>3. PassAgrees => PassAgrees'
  BY <1>1 DEF PassAgrees, AtBroker, OpenRows, RowState, Active, RunningEngines
<1> QED
  BY <1>1, <1>2, <1>3, StutterWork DEF AgreeInv

LEMMA AgreeNext ==
  IInv /\ PassInv /\ AgreeInv /\ PassInv' /\ [ReconNext]_allVars => AgreeInv'
<1> SUFFICES ASSUME IInv, PassInv, AgreeInv, PassInv', [ReconNext]_allVars,
                    ~overlapped'
             PROVE  AgreeInv'
  BY DEF AgreeInv
<1>1. CASE UNCHANGED allVars
  BY <1>1, AgreeStutters
<1>2. CASE ReconNext
  <2>1. ~overlapped
    BY <1>2 DEF ReconNext, Reconcile, FetchRemote, ListLocal, SyncMatched,
       SyncCorrelated, SyncAdopted, Synced, LinkIntent, CreateIntent,
       ConfirmExecution, AttachEngine, CloseMissing, RecordForcedTrade,
       ForceIntent, DetachEngine, FinishPass, Trade, BrokerCloses
  <2> QED
    BY <1>2, <2>1, UpStays, DownStays DEF AgreeInv
<1> QED
  BY <1>1, <1>2

LEMMA AgreeStarts == ReconInit => AgreeInv
<1> SUFFICES ASSUME ReconInit PROVE AgreeInv
  OBVIOUS
<1>1. Init /\ RiskInv /\ up /\ pass = IdlePass
      /\ synced = [d \in Intents |-> Absent]
      /\ linked = [r \in RowIds |-> None]
      /\ forced = [r \in RowIds |-> 0]
  BY InitRisk DEF ReconInit, Init
<1>2. pass.at = "off" /\ pass.at \in Ended
  BY <1>1, IdlePassTypes DEF Ended
<1>3. Gone = {}
  BY <1>2, NobodyGone, EndedOpen
<1>4. \A i \in Intents : /\ intents[i].state = Absent /\ positions[i] = Absent
                         /\ trades[i] = 0 /\ synced[i] = Absent
                         /\ forced[Own(i)] = 0 /\ forced[Sync(i)] = 0
                         /\ linked[Own(i)] = None /\ linked[Sync(i)] = None
  BY <1>1, RowIdsOf DEF Init
<1>5. Absent # Forced /\ Absent # "closed" /\ Absent \notin ProvenanceStates
      /\ Absent # "POSITION_OPENED"
  BY DEF Absent, Forced, ProvenanceStates
<1>6. \A d \in Intents : Recorded(d)
  BY <1>3, <1>4, <1>5 DEF Recorded, Forced
<1>7. \A i \in Intents : Adopted(i)
  BY <1>4, <1>5 DEF Adopted, Foreign, Forced
<1>8. Unrecorded
  BY <1>1 DEF Unrecorded, InFlight, Init, IdleLoop
<1>9. OneTradePerDeal
  <2>1. \A d \in Intents : trades[d] + forced[Own(d)] + forced[Sync(d)] <= 1
    BY <1>4
  <2> QED
    BY <2>1 DEF OneTradePerDeal, Own, Sync
<1> QED
  BY <1>1, <1>2, <1>6, <1>7, <1>8, <1>9 DEF AgreeInv, AtWork, PassAgrees

\* Rows, intents, links, forced Trades and engines are those of AtWork in every
\* state of a behaviour in which no pass has run beside process_price_update.
THEOREM ReconAgrees == ReconSpec => []AgreeInv
<1>1. IInv /\ PassInv /\ AgreeInv /\ [ReconNext]_allVars => AgreeInv'
  BY ReconTypes, AgreeNext
<1> QED
  BY <1>1, InitTypes, AgreeStarts, ReconInvariant, PTL DEF ReconSpec

\* Without an overlap a deal has at most one Trade, of the pipeline that closed
\* it or of the pass that missed it.
THEOREM ReconOneTrade == ReconSpec => []OneTradePerDeal
<1>1. AgreeInv => OneTradePerDeal
  BY DEF AgreeInv, OneTradePerDeal
<1> QED
  BY <1>1, ReconAgrees, PTL

\* A pass that nothing disturbed leaves rows, intents and engines in agreement
\* with the broker.
THEOREM ReconPassAgrees == ReconSpec => []PassAgrees
<1>1. AgreeInv => PassAgrees
  BY DEF AgreeInv, PassAgrees
<1> QED
  BY <1>1, ReconAgrees, PTL

\* Only one step records a forced Trade, and the row at hand has lost its deal.
LEMMA ForcedAtLost ==
  ASSUME IInv, PassInv, AgreeInv, ~overlapped, [ReconNext]_allVars,
         NEW r \in RowIds, forced'[r] > forced[r]
  PROVE  deals[r[1]] = "closed"
<1>1. \A n \in Nat : ~(n > n)
  OBVIOUS
<1>2. forced \in [RowIds -> Nat]
  BY DEF PassInv, RecordTypes
<1>3. RecordForcedTrade
  <2>1. CASE UNCHANGED allVars
    BY <1>1, <1>2, <2>1 DEF allVars, supervision
  <2>2. CASE Reconcile /\ ~RecordForcedTrade
    <3>1. forced' = forced
      BY <2>2 DEF Reconcile, FetchRemote, ListLocal, SyncMatched,
         SyncCorrelated, SyncAdopted, Synced, LinkIntent, CreateIntent,
         ConfirmExecution, AttachEngine, CloseMissing, ForceIntent,
         DetachEngine, FinishPass
    <3> QED
      BY <1>1, <1>2, <3>1
  <2>3. CASE Trade \/ BrokerCloses
    BY <1>1, <1>2, <2>3 DEF Trade, BrokerCloses
  <2> QED
    BY <2>1, <2>2, <2>3 DEF ReconNext
<1>4. /\ pass.at = "trading" /\ pass.at \in Closing /\ pass.at \notin Ended
      /\ forced' = [forced EXCEPT ![pass.row] = @ + 1]
  BY <1>3 DEF RecordForcedTrade, Closing, Ended
<1>5. r = pass.row
  BY <1>1, <1>2, <1>4
<1>6. AtWork
  BY <1>4 DEF AgreeInv
<1>7. /\ pass.row[1] \in Intents /\ Recorded(pass.row[1])
      /\ GoneRow(pass.row[1]) \/ synced[pass.row[1]] = "closed"
  BY <1>4, <1>6, RowLost
<1> QED
  BY <1>5, <1>7 DEF Recorded, GoneRow

\* Without an overlap a row is closed by force only when the broker does not
\* hold its deal (ForcedCloseIsTrue fails of nothing but overlaps).
THEOREM ReconForcedCloses ==
  ReconSpec =>
    [][~overlapped => \A r \in RowIds :
         forced'[r] > forced[r] => r[1] \notin AtBroker]_allVars
<1>1. ASSUME IInv, PassInv, AgreeInv, [ReconNext]_allVars
      PROVE  ~overlapped => \A r \in RowIds :
               forced'[r] > forced[r] => r[1] \notin AtBroker
  BY <1>1, ForcedAtLost DEF AtBroker
<1> QED
  BY <1>1, ReconAgrees, ReconInvariant, PTL DEF ReconSpec
=============================================================================
