------------------------ MODULE TradeLifecycleProofs ------------------------
(***************************************************************************)
(* One owner per instrument, and every exposure with the broker owned,     *)
(* recorded and visible, for every number of strategies, intents and       *)
(* engine starts, with or without crashes and lost answers.                *)
(***************************************************************************)
EXTENDS TradeLifecycle, SequenceTheorems, TLAPS

\* Where orchestrate_trade_decisions holds a decision, and where it works on
\* the intent of that decision.
Deciding == {"orchestrating", "executing", "writing", "calling", "handling"}
Working == {"executing", "writing", "calling", "handling"}

DecisionAtHand ==
  /\ loop.at \in Deciding => loop.decisions # <<>>
  /\ loop.at \in Working => Current.intent # None

\* What is left to write ends with neither the detachment of the engine nor
\* the closing of the position: WriteEngine and WritePosition leave a rest.
Tidy(todo) ==
  \A k \in 1 .. Len(todo) :
    /\ todo[k].op = "detach" => k < Len(todo)
    /\ todo[k].op = "close_position" => k + 1 < Len(todo)
TodoAtHand == (loop.at = "writing" => loop.todo # <<>>) /\ Tidy(loop.todo)

\* A decision names an intent that exists.
DecidedIntentsExist ==
  \A k \in 1 .. Len(loop.decisions) :
    loop.decisions[k].intent # None =>
      intents[loop.decisions[k].intent].state # Absent

\* The registered engine is one of those started.
RunningEngineExists == \A s \in Strategies : running[s] <= Len(engines[s])

IInv ==
  /\ TypeOK
  /\ OneActiveOwner
  /\ DecisionAtHand
  /\ TodoAtHand
  /\ DecidedIntentsExist
  /\ RunningEngineExists

-----------------------------------------------------------------------------
(* The tables of lifecycle_rules.py.                                       *)

\* No transition leads from an ended intent back to one that owns the
\* instrument.
LEMMA EndedStaysEnded ==
  \A from \in IntentStates : \A to \in IntentTransitions[from] :
    to \in ActiveOwnershipStates => from \in ActiveOwnershipStates
BY DEF IntentStates, IntentTransitions, ActiveOwnershipStates,
       IntentTerminalStates, Reclosable, ProvenanceStates

LEMMA StatesAreKnown ==
  /\ Absent \notin IntentStates
  /\ Absent \notin ActiveOwnershipStates
  /\ ActiveOwnershipStates \subseteq IntentStates
  /\ CloseAdmissibleStates \subseteq IntentStates
  /\ {"PROPOSED", "APPROVED", "REJECTED", "FAILED"} \subseteq IntentStates
  /\ "REJECTED" \notin ActiveOwnershipStates
  /\ "FAILED" \notin ActiveOwnershipStates
BY DEF IntentStates, ActiveOwnershipStates, IntentTerminalStates,
       CloseAdmissibleStates, ProvenanceStates, Absent

-----------------------------------------------------------------------------
(* The writes of each call are writes, and tidy.                           *)

LEMMA TailOfTodo ==
  ASSUME NEW todo \in Seq(Writes), todo # <<>>, Tidy(todo)
  PROVE  Tail(todo) \in Seq(Writes) /\ Tidy(Tail(todo))
BY HeadTailProperties DEF Tidy

LEMMA ConcatTidy ==
  ASSUME NEW s \in Seq(Writes), NEW t \in Seq(Writes), Tidy(s), Tidy(t)
  PROVE  s \o t \in Seq(Writes) /\ Tidy(s \o t)
BY ConcatProperties DEF Tidy

LEMMA WriteTypes ==
  /\ \A status \in ExecutionStatuses : Execution(status) \in Writes
  /\ \A state \in IntentStates :
       Intent(state) \in Writes /\ Referenced(state) \in Writes
  /\ {Raise, Attach, Detach, RecordPosition, ExitsOnly, ClosePosition,
      RecordTrade, CallBroker} \subseteq Writes
BY DEF Writes, Write, Execution, Intent, Referenced, Raise, Attach, Detach,
       RecordPosition, ExitsOnly, ClosePosition, RecordTrade, CallBroker

LEMMA StatesInScripts ==
  /\ {"SUBMISSION_PENDING", "ORDER_SUBMITTED", "ORDER_ACKNOWLEDGED",
      "FILL_PARTIAL", "FILL_FULL", "NEEDS_MANUAL_REVIEW", "POSITION_OPENED",
      "CLOSE_CONFIRMED", "FAILED", "CANCELLED"} = ExecutionStatuses
  /\ {"SUBMITTED", "ACKNOWLEDGED", "PARTIALLY_FILLED", "FILLED",
      "POSITION_OPENED", "CLOSE_REQUESTED", "CLOSED", "FAILED",
      "CANCELLED"} \subseteq IntentStates
BY DEF ExecutionStatuses, ExecutionTerminalStatuses, IntentStates,
       ActiveOwnershipStates, IntentTerminalStates

\* The rows and engine writes that neither let go of the engine nor close a
\* position: a script of them alone is tidy.
Plain == {w \in Writes : w.op \notin {"detach", "close_position"}}

LEMMA PlainIsTidy ==
  ASSUME NEW s \in Seq(Plain)
  PROVE  s \in Seq(Writes) /\ Tidy(s)
<1>1. \A k \in 1 .. Len(s) : s[k] \in Plain
  BY ElementOfSeq
<1>2. s \in Seq(Writes)
  BY SeqMonotonic DEF Plain
<1> QED
  BY <1>1, <1>2 DEF Plain, Tidy

LEMMA PlainTypes ==
  /\ \A status \in ExecutionStatuses : Execution(status) \in Plain
  /\ \A state \in IntentStates :
       Intent(state) \in Plain /\ Referenced(state) \in Plain
  /\ {Raise, Attach, RecordPosition, ExitsOnly, RecordTrade,
      CallBroker} \subseteq Plain
BY WriteTypes DEF Plain, Write, Execution, Intent, Referenced, Raise, Attach,
       RecordPosition, ExitsOnly, RecordTrade, CallBroker

LEMMA EntryScripts ==
  /\ BlockedEntry \in Seq(Plain) /\ BlockedEntry # <<>>
  /\ SubmitEntry \in Seq(Plain) /\ SubmitEntry # <<>>
  /\ \A answer \in DOMAIN EntryOutcome :
       EntryOutcome[answer] \in Seq(Plain) /\ EntryOutcome[answer] # <<>>
<1> USE PlainTypes, StatesInScripts
<1>1. BlockedEntry \in Seq(Plain) /\ BlockedEntry # <<>>
  BY DEF BlockedEntry
<1>2. SubmitEntry \in Seq(Plain) /\ SubmitEntry # <<>>
  BY DEF SubmitEntry
<1>3. ASSUME NEW rest \in Seq(Plain)
      PROVE  Acknowledged(rest) \in Seq(Plain) /\ Acknowledged(rest) # <<>>
  <2>1. <<Execution("ORDER_ACKNOWLEDGED"), Referenced("ACKNOWLEDGED")>>
          \in Seq(Plain)
    OBVIOUS
  <2> QED
    BY <1>3, <2>1, ConcatProperties DEF Acknowledged
<1>4. ASSUME NEW answer \in DOMAIN EntryOutcome
      PROVE  EntryOutcome[answer] \in Seq(Plain) /\ EntryOutcome[answer] # <<>>
  <2>1. CASE answer = "FILLED"
    <3> DEFINE rest ==
          <<Execution("FILL_FULL"), Referenced("FILLED"), Attach,
            RecordPosition, Execution("POSITION_OPENED"),
            Referenced("POSITION_OPENED"), Attach>>
    <3>1. EntryOutcome[answer] = Acknowledged(rest)
      BY <2>1 DEF EntryOutcome
    <3>2. rest \in Seq(Plain)
      OBVIOUS
    <3> QED
      BY <1>3, <3>1, <3>2
  <2>2. CASE answer = "PARTIALLY_FILLED"
    <3> DEFINE rest ==
          <<Execution("FILL_PARTIAL"), Referenced("PARTIALLY_FILLED"), Attach,
            RecordPosition, ExitsOnly, Execution("NEEDS_MANUAL_REVIEW"),
            Referenced("PARTIALLY_FILLED"), Attach>>
    <3>1. EntryOutcome[answer] = Acknowledged(rest)
      BY <2>2 DEF EntryOutcome
    <3>2. rest \in Seq(Plain)
      OBVIOUS
    <3> QED
      BY <1>3, <3>1, <3>2
  <2>3. CASE answer = "REJECTED"
    <3> DEFINE rest == <<Execution("FAILED"), Intent("FAILED"), Raise>>
    <3>1. EntryOutcome[answer] = Acknowledged(rest)
      BY <2>3 DEF EntryOutcome
    <3>2. rest \in Seq(Plain)
      OBVIOUS
    <3> QED
      BY <1>3, <3>1, <3>2
  <2>4. CASE answer = "CANCELLED"
    <3> DEFINE rest == <<Execution("CANCELLED"), Intent("CANCELLED"), Raise>>
    <3>1. EntryOutcome[answer] = Acknowledged(rest)
      BY <2>4 DEF EntryOutcome
    <3>2. rest \in Seq(Plain)
      OBVIOUS
    <3> QED
      BY <1>3, <3>1, <3>2
  <2>5. CASE answer = "AMBIGUOUS"
    BY <2>5 DEF EntryOutcome
  <2>6. CASE answer = "TimeoutError"
    BY <2>6 DEF EntryOutcome, TimedOutEntry
  <2>7. CASE answer = "raised"
    BY <2>7 DEF EntryOutcome
  <2> QED
    BY <2>1, <2>2, <2>3, <2>4, <2>5, <2>6, <2>7 DEF EntryOutcome
<1> QED
  BY <1>1, <1>2, <1>4

LEMMA SettlementTidy == Settlement \in Seq(Writes) /\ Tidy(Settlement)
<1>1. Settlement \in Seq(Writes) /\ Len(Settlement) = 6
  BY WriteTypes, StatesInScripts DEF Settlement
<1>2. \A k \in 1 .. 6 :
        /\ Settlement[k].op = "detach" => k = 1
        /\ Settlement[k].op = "close_position" => k = 2
  BY DEF Settlement, Write, Execution, Intent, Detach, ClosePosition,
         RecordTrade
<1> QED
  BY <1>1, <1>2 DEF Tidy

LEMMA CloseScripts ==
  /\ BlockedExit \in Seq(Plain) /\ BlockedExit # <<>>
  /\ SubmitExit \in Seq(Plain) /\ SubmitExit # <<>>
  /\ \A answer \in DOMAIN CloseOutcome :
       /\ CloseOutcome[answer] \in Seq(Writes)
       /\ Tidy(CloseOutcome[answer])
       /\ CloseOutcome[answer] # <<>>
<1> USE PlainTypes, StatesInScripts
<1>1. BlockedExit \in Seq(Plain) /\ BlockedExit # <<>>
  BY DEF BlockedExit
<1>2. SubmitExit \in Seq(Plain) /\ SubmitExit # <<>>
  BY DEF SubmitExit
<1>3. ASSUME NEW answer \in DOMAIN CloseOutcome
      PROVE  /\ CloseOutcome[answer] \in Seq(Writes)
             /\ Tidy(CloseOutcome[answer])
             /\ CloseOutcome[answer] # <<>>
  <2>1. CASE answer = "FILLED"
    <3> DEFINE first == <<Execution("ORDER_ACKNOWLEDGED"),
                          Intent("ACKNOWLEDGED"), Execution("FILL_FULL"),
                          Intent("FILLED")>>
    <3>1. CloseOutcome[answer] = first \o Settlement
      BY <2>1 DEF CloseOutcome
    <3>2. first \in Seq(Plain) /\ Len(first) = 4
      OBVIOUS
    <3>3. first \in Seq(Writes) /\ Tidy(first)
      BY <3>2, PlainIsTidy
    <3> HIDE DEF first
    <3>4. first \o Settlement # <<>>
      <4>1. Len(first \o Settlement) = Len(first) + Len(Settlement)
        BY SettlementTidy, <3>3, ConcatProperties
      <4>2. Len(Settlement) \in Nat
        BY SettlementTidy, LenProperties
      <4> QED
        BY <3>2, <4>1, <4>2
    <3> QED
      BY SettlementTidy, <3>1, <3>3, <3>4, ConcatTidy
  <2>2. CASE answer = "PARTIALLY_FILLED"
    <3>1. CloseOutcome[answer] \in Seq(Plain) /\ CloseOutcome[answer] # <<>>
      BY <2>2 DEF CloseOutcome
    <3> QED
      BY <3>1, PlainIsTidy
  <2>3. CASE answer = "AMBIGUOUS"
    <3>1. CloseOutcome[answer] \in Seq(Plain) /\ CloseOutcome[answer] # <<>>
      BY <2>3 DEF CloseOutcome
    <3> QED
      BY <3>1, PlainIsTidy
  <2>4. CASE answer = "raised"
    <3>1. CloseOutcome[answer] \in Seq(Plain) /\ CloseOutcome[answer] # <<>>
      BY <2>4 DEF CloseOutcome
    <3> QED
      BY <3>1, PlainIsTidy
  <2> QED
    BY <2>1, <2>2, <2>3, <2>4 DEF CloseOutcome
<1> QED
  BY <1>1, <1>2, <1>3

LEMMA InitIInv == Init => IInv
<1> SUFFICES ASSUME Init PROVE IInv
  OBVIOUS
<1>1. TypeOK
  BY StrategiesAssumption, MaxIntentsAssumption, MaxStartsAssumption
     DEF Init, TypeOK, IdleLoop, None, Intents, DealStates
<1>2. Active = {}
  BY StatesAreKnown DEF Init, Active
<1> QED
  BY <1>1, <1>2 DEF Init, IInv, OneActiveOwner, DecisionAtHand, TodoAtHand, Tidy,
     DecidedIntentsExist, RunningEngineExists, IdleLoop, Deciding, Working

-----------------------------------------------------------------------------
(* What the steps of a call do to "loop".                                  *)

Labels == {"idle", "deciding", "reviewing", "orchestrating", "executing",
           "writing", "calling", "handling"}
LoopType == loop \in [at : Labels, signals : SUBSET Signals,
                      decisions : Seq(Decisions), todo : Seq(Writes),
                      guarded : BOOLEAN]
LoopInv == LoopType /\ DecisionAtHand /\ TodoAtHand /\ DecidedIntentsExist

\* An intent that exists goes on existing.
KeepsIntents == \A i \in Intents :
                  intents[i].state # Absent => intents'[i].state # Absent

LEMMA DecisionTypes ==
  ASSUME LoopInv, loop.at \in Deciding
  PROVE  /\ loop.decisions \in Seq(Decisions) /\ loop.decisions # <<>>
         /\ Len(loop.decisions) \in Nat \ {0}
         /\ Current \in Decisions
         /\ Current = loop.decisions[1]
         /\ Current.intent # None => intents[Current.intent].state # Absent
<1>1. loop.decisions \in Seq(Decisions) /\ loop.decisions # <<>>
  BY DEF LoopInv, LoopType, DecisionAtHand
<1>2. Len(loop.decisions) \in Nat \ {0} /\ Current = loop.decisions[1]
  BY <1>1 DEF Current
<1>3. Current \in Decisions
  BY <1>1, HeadTailProperties DEF Current
<1> QED
  BY <1>1, <1>2, <1>3 DEF LoopInv, DecidedIntentsExist

LEMMA EscapeKeeps == LoopInv /\ Escape => LoopInv'
BY DEF Escape, IdleLoop, LoopInv, LoopType, DecisionAtHand, TodoAtHand, Tidy,
       DecidedIntentsExist, Labels, Deciding, Working

LEMMA SameLoopKeeps == LoopInv /\ loop' = loop /\ KeepsIntents => LoopInv'
<1> SUFFICES ASSUME LoopInv, loop' = loop, KeepsIntents PROVE LoopInv'
  OBVIOUS
<1>1. LoopType' /\ DecisionAtHand' /\ TodoAtHand'
  BY DEF LoopInv, LoopType, DecisionAtHand, TodoAtHand, Current
<1>2. \A k \in 1 .. Len(loop.decisions) : loop.decisions[k] \in Decisions
  BY ElementOfSeq DEF LoopInv, LoopType
<1>3. DecidedIntentsExist'
  BY <1>2 DEF LoopInv, DecidedIntentsExist, KeepsIntents, Decisions
<1> QED
  BY <1>1, <1>3 DEF LoopInv

LEMMA NextDecisionKeeps ==
  ASSUME LoopInv, loop.at \in Deciding, NextDecision, KeepsIntents
  PROVE  LoopInv'
<1>1. /\ loop'.decisions = Tail(loop.decisions)
      /\ loop'.todo = <<>> /\ loop'.guarded = FALSE
      /\ loop'.signals = loop.signals
      /\ loop'.at = IF Len(loop.decisions) = 1 THEN "idle" ELSE "orchestrating"
      /\ loop' = [at |-> loop'.at, signals |-> loop'.signals,
                  decisions |-> loop'.decisions, todo |-> loop'.todo,
                  guarded |-> loop'.guarded]
  BY DEF NextDecision, LoopInv, LoopType
<1>2. /\ Tail(loop.decisions) \in Seq(Decisions)
      /\ Len(Tail(loop.decisions)) = Len(loop.decisions) - 1
      /\ \A k \in 1 .. Len(Tail(loop.decisions)) :
           /\ k + 1 \in 1 .. Len(loop.decisions)
           /\ Tail(loop.decisions)[k] = loop.decisions[k + 1]
           /\ loop.decisions[k + 1] \in Decisions
  BY DecisionTypes, HeadTailProperties, ElementOfSeq
<1>3. LoopType'
  <2>1. loop'.at \in Labels /\ loop'.todo \in Seq(Writes)
    BY <1>1 DEF Labels
  <2>2. loop'.signals \in SUBSET Signals
    BY <1>1 DEF LoopInv, LoopType
  <2> QED
    BY <1>1, <1>2, <2>1, <2>2 DEF LoopType
<1>4. DecisionAtHand' /\ TodoAtHand'
  <2>1. loop'.at = "orchestrating" => Len(loop'.decisions) # 0
    BY <1>1, <1>2, DecisionTypes
  <2>2. loop'.at \in {"idle", "orchestrating"}
    BY <1>1
  <2>3. DecisionAtHand'
    BY <2>1, <2>2 DEF DecisionAtHand, Working, Deciding
  <2>4. TodoAtHand'
    BY <1>1, <2>2 DEF TodoAtHand, Tidy
  <2> QED
    BY <2>3, <2>4
<1>5. DecidedIntentsExist'
  <2>1. SUFFICES ASSUME NEW k \in 1 .. Len(Tail(loop.decisions)),
                        Tail(loop.decisions)[k].intent # None
                 PROVE  intents'[Tail(loop.decisions)[k].intent].state # Absent
    BY <1>1 DEF DecidedIntentsExist
  <2> DEFINE d == loop.decisions[k + 1]
  <2>2. /\ k + 1 \in 1 .. Len(loop.decisions)
        /\ d = Tail(loop.decisions)[k] /\ d \in Decisions /\ d.intent # None
    BY <1>2, <2>1
  <2>3. d.intent \in Intents
    <3> HIDE DEF d
    <3> QED BY <2>2 DEF Decisions
  <2>4. intents[d.intent].state # Absent
    BY <2>2 DEF LoopInv, DecidedIntentsExist
  <2> QED
    <3> HIDE DEF d
    <3> QED BY <2>2, <2>3, <2>4 DEF KeepsIntents
<1> QED
  BY <1>3, <1>4, <1>5 DEF LoopInv

\* Going on with the same decision, at another label or with other writes.
LEMMA SameDecisionKeeps ==
  ASSUME LoopInv, loop.at \in Deciding, loop'.at \in Deciding,
         LoopType', loop'.decisions = loop.decisions,
         loop'.at \in Working => Current.intent # None,
         loop'.at = "writing" => loop'.todo # <<>>,
         Tidy(loop'.todo), KeepsIntents
  PROVE  LoopInv'
<1>1. \A k \in 1 .. Len(loop.decisions) : loop.decisions[k] \in Decisions
  BY ElementOfSeq DEF LoopInv, LoopType
<1>2. DecidedIntentsExist'
  BY <1>1 DEF LoopInv, DecidedIntentsExist, KeepsIntents, Decisions
<1>3. DecisionAtHand' /\ TodoAtHand'
  BY DEF LoopInv, DecisionAtHand, TodoAtHand, Current
<1> QED
  BY <1>2, <1>3 DEF LoopInv

LEMMA ProceedKeeps ==
  ASSUME LoopInv, loop.at \in Deciding, NEW label \in Deciding \ {"writing"},
         label \in Working => Current.intent # None, Proceed(label), KeepsIntents
  PROVE  LoopInv'
<1>1. /\ loop'.at = label /\ loop'.decisions = loop.decisions
      /\ loop'.todo = loop.todo
  BY DEF Proceed, LoopInv, LoopType
<1>2. LoopType'
  BY DEF Proceed, LoopInv, LoopType, Labels, Deciding
<1>3. Tidy(loop'.todo)
  BY <1>1 DEF LoopInv, TodoAtHand
<1> QED
  BY <1>1, <1>2, <1>3, SameDecisionKeeps

LEMMA WritesKeep ==
  ASSUME LoopInv, loop.at \in Working, KeepsIntents,
         NEW todo \in Seq(Writes), todo # <<>>, Tidy(todo),
         Guarded("writing", todo) \/ Perform(todo)
  PROVE  LoopInv'
<1>1. /\ loop'.at = "writing" /\ loop'.decisions = loop.decisions
      /\ loop'.todo = todo
  BY DEF Guarded, Perform, LoopInv, LoopType
<1>2. LoopType'
  BY DEF Guarded, Perform, LoopInv, LoopType, Labels
<1>3. Current.intent # None /\ loop.at \in Deciding
  BY DEF LoopInv, DecisionAtHand, Working, Deciding
<1> QED
  BY <1>1, <1>2, <1>3, SameDecisionKeeps DEF Deciding

LEMMA RestKeeps ==
  ASSUME LoopInv, loop.at = "writing", KeepsIntents,
         NEW todo \in Seq(Writes), todo # <<>>, Tidy(todo),
         \/ loop' = [loop EXCEPT !.todo = todo]
         \/ loop' = [loop EXCEPT !.todo = todo, !.guarded = FALSE]
  PROVE  LoopInv'
<1>1. /\ loop'.at = "writing" /\ loop'.decisions = loop.decisions
      /\ loop'.todo = todo
  BY DEF LoopInv, LoopType
<1>2. LoopType'
  BY DEF LoopInv, LoopType
<1>3. Current.intent # None
  BY DEF LoopInv, DecisionAtHand, Working
<1> QED
  BY <1>1, <1>2, <1>3, SameDecisionKeeps DEF Deciding

LEMMA NonEmpty ==
  ASSUME NEW S, NEW s \in Seq(S), Len(s) # 0
  PROVE  s # <<>>
BY EmptySeq

LEMMA TodoTypes ==
  ASSUME LoopInv, loop.at = "writing"
  PROVE  /\ loop.todo \in Seq(Writes) /\ loop.todo # <<>> /\ Tidy(loop.todo)
         /\ Len(loop.todo) \in Nat \ {0}
         /\ Head(loop.todo) = loop.todo[1]
         /\ Head(loop.todo) \in Writes
         /\ Tail(loop.todo) \in Seq(Writes) /\ Tidy(Tail(loop.todo))
         /\ Len(Tail(loop.todo)) = Len(loop.todo) - 1
         /\ Len(loop.todo) # 1 => Tail(loop.todo) # <<>>
<1>1. loop.todo \in Seq(Writes) /\ loop.todo # <<>> /\ Tidy(loop.todo)
  BY DEF LoopInv, LoopType, TodoAtHand
<1>2. /\ Len(loop.todo) \in Nat \ {0}
      /\ Head(loop.todo) = loop.todo[1] /\ Head(loop.todo) \in Writes
      /\ Len(Tail(loop.todo)) = Len(loop.todo) - 1
  BY <1>1, HeadTailProperties
<1>3. Tail(loop.todo) \in Seq(Writes) /\ Tidy(Tail(loop.todo))
  BY <1>1, TailOfTodo
<1>4. Len(loop.todo) # 1 => Tail(loop.todo) # <<>>
  <2>1. ASSUME Len(loop.todo) # 1 PROVE Len(Tail(loop.todo)) # 0
    BY <1>2, <2>1
  <2> QED
    BY <1>3, <2>1, NonEmpty
<1> QED
  BY <1>1, <1>2, <1>3, <1>4

LEMMA WrittenKeeps ==
  ASSUME LoopInv, loop.at = "writing", Written, KeepsIntents
  PROVE  LoopInv'
<1>1. CASE Len(loop.todo) = 1
  BY <1>1, NextDecisionKeeps DEF Written, Deciding
<1>2. CASE Len(loop.todo) # 1
  <2>1. loop' = [loop EXCEPT !.todo = Tail(loop.todo)]
    BY <1>2 DEF Written
  <2> QED
    BY <1>2, <2>1, TodoTypes, RestKeeps
<1> QED
  BY <1>1, <1>2

\* The detachment and the skipped closing have a rest to go on with.
LEMMA SkippedKeeps ==
  ASSUME LoopInv, loop.at = "writing", KeepsIntents,
         \/ /\ Head(loop.todo).op = "detach"
            /\ loop' = [loop EXCEPT !.todo = Tail(@), !.guarded = FALSE]
         \/ /\ Head(loop.todo).op = "close_position"
            /\ loop' = [loop EXCEPT !.todo = Tail(Tail(@))]
  PROVE  LoopInv'
<1> DEFINE n == Len(loop.todo)
           next == Tail(loop.todo)
           rest == Tail(next)
<1>1. /\ n \in Nat \ {0} /\ Len(next) = n - 1
      /\ Head(loop.todo) = loop.todo[1]
      /\ next \in Seq(Writes) /\ Tidy(next) /\ Tidy(loop.todo)
  BY TodoTypes
<1>2. /\ Head(loop.todo).op = "detach" => n > 1
      /\ Head(loop.todo).op = "close_position" => n > 2
  BY <1>1 DEF Tidy
<1> HIDE DEF n, next
<1>3. n > 1 => next # <<>>
  <2>1. ASSUME n > 1 PROVE Len(next) # 0
    BY <1>1, <2>1
  <2> QED
    BY <1>1, <2>1, NonEmpty
<1>4. CASE /\ Head(loop.todo).op = "detach"
           /\ loop' = [loop EXCEPT !.todo = Tail(@), !.guarded = FALSE]
  <2>1. loop' = [loop EXCEPT !.todo = next, !.guarded = FALSE]
    BY <1>4 DEF next
  <2>2. next # <<>>
    BY <1>2, <1>3, <1>4
  <2> QED
    BY <1>1, <2>1, <2>2, RestKeeps
<1>5. CASE /\ Head(loop.todo).op = "close_position"
           /\ loop' = [loop EXCEPT !.todo = Tail(Tail(@))]
  <2>1. n > 2 /\ n > 1 /\ next # <<>>
    BY <1>1, <1>2, <1>3, <1>5
  <2>2. rest \in Seq(Writes) /\ Tidy(rest)
    BY <1>1, <2>1, TailOfTodo
  <2>3. Len(rest) = Len(next) - 1
    BY <1>1, <2>1, HeadTailProperties
  <2>4. Len(rest) # 0
    BY <1>1, <2>1, <2>3
  <2>5. loop' = [loop EXCEPT !.todo = rest]
    BY <1>5 DEF next
  <2> HIDE DEF rest
  <2>6. rest # <<>>
    BY <2>2, <2>4, NonEmpty
  <2> QED
    BY <2>2, <2>5, <2>6, RestKeeps
<1> QED
  BY <1>4, <1>5

LEMMA DecidedKeeps ==
  ASSUME LoopInv, NEW signal \in loop.signals, NEW i \in Intents \cup {None},
         i # None => intents'[i].state # Absent,
         loop.at \in {"deciding", "reviewing"}, Decided(signal, i), KeepsIntents
  PROVE  LoopInv'
<1> DEFINE d == [kind |-> signal.kind, strategy |-> signal.strategy,
                 engine |-> signal.engine, position |-> signal.position,
                 intent |-> i]
<1>1. d \in Decisions
  BY DEF LoopInv, LoopType, Signals, Decisions
<1>2. loop.decisions \in Seq(Decisions) /\ loop.todo \in Seq(Writes)
      /\ loop.signals \in SUBSET Signals
  BY DEF LoopInv, LoopType
<1>3. /\ loop'.at = IF loop.signals = {signal} THEN "orchestrating"
                                               ELSE "deciding"
      /\ loop'.signals = loop.signals \ {signal}
      /\ loop'.decisions = Append(loop.decisions, d)
      /\ loop'.todo = loop.todo
  BY DEF Decided, LoopInv, LoopType
<1>4. /\ Append(loop.decisions, d) \in Seq(Decisions)
      /\ Append(loop.decisions, d) # <<>>
      /\ \A k \in 1 .. Len(Append(loop.decisions, d)) :
           Append(loop.decisions, d)[k] =
             IF k = Len(loop.decisions) + 1 THEN d ELSE loop.decisions[k]
      /\ Len(Append(loop.decisions, d)) = Len(loop.decisions) + 1
  BY <1>1, <1>2, AppendProperties
<1>5. d.intent = i
  OBVIOUS
<1> HIDE DEF d
<1>6. LoopType'
  <2>1. loop' = [at |-> loop'.at, signals |-> loop'.signals,
                 decisions |-> loop'.decisions, todo |-> loop'.todo,
                 guarded |-> loop.guarded]
    BY DEF Decided, LoopInv, LoopType
  <2>2. loop'.at \in Labels /\ loop.guarded \in BOOLEAN
    BY <1>3 DEF Labels, LoopInv, LoopType
  <2>3. loop'.signals \in SUBSET Signals
    BY <1>2, <1>3
  <2>4. loop'.decisions \in Seq(Decisions) /\ loop'.todo \in Seq(Writes)
    BY <1>2, <1>3, <1>4
  <2> QED
    BY <2>1, <2>2, <2>3, <2>4 DEF LoopType
<1>7. DecidedIntentsExist'
  <2>1. \A k \in 1 .. Len(loop.decisions) : loop.decisions[k] \in Decisions
    BY <1>2, ElementOfSeq
  <2>2. ASSUME NEW k \in 1 .. Len(Append(loop.decisions, d)),
               Append(loop.decisions, d)[k].intent # None
        PROVE  intents'[Append(loop.decisions, d)[k].intent].state # Absent
    <3>1. CASE k = Len(loop.decisions) + 1
      BY <1>4, <1>5, <2>2, <3>1
    <3>2. CASE k # Len(loop.decisions) + 1
      <4>1. k \in 1 .. Len(loop.decisions)
        BY <1>2, <1>4, <3>2
      <4> QED
        BY <1>4, <2>1, <2>2, <3>2, <4>1
           DEF LoopInv, DecidedIntentsExist, KeepsIntents, Decisions
    <3> QED
      BY <3>1, <3>2
  <2> QED
    BY <1>3, <2>2 DEF DecidedIntentsExist
<1>8. DecisionAtHand' /\ TodoAtHand'
  BY <1>3, <1>4 DEF DecisionAtHand, TodoAtHand, LoopInv, Working
<1> QED
  BY <1>6, <1>7, <1>8 DEF LoopInv

-----------------------------------------------------------------------------
(* The parts of the invariant, for the proofs of the steps.                *)

IntentTypes == intents \in [Intents -> [state : IntentStates \cup {Absent},
                                        strategy : Strategies \cup {"NOBODY"},
                                        reference : Intents \cup {None}]]
RowTypes ==
  /\ entries \in [Strategies -> [status : ExecutionStatuses \cup {Absent},
                                 intent : Intents \cup {None}]]
  /\ closes \in [Intents -> ExecutionStatuses \cup {Absent}]
  /\ positions \in [Intents -> {Absent, "open", "closed"}]
  /\ trades \in [Intents -> Nat]
  /\ deals \in [Intents -> DealStates]
EngineTypes == /\ engines \in [Strategies -> Seq(EngineObjects)]
               /\ running \in [Strategies -> 0 .. MaxStarts]
               /\ up \in BOOLEAN
EngineInv == EngineTypes /\ RunningEngineExists
IntentInv == IntentTypes /\ OneActiveOwner

LEMMA PartsOfIInv ==
  /\ IInv <=> IntentInv /\ RowTypes /\ EngineInv /\ LoopInv
  /\ IInv' <=> IntentInv' /\ RowTypes' /\ EngineInv' /\ LoopInv'
BY DEF IInv, TypeOK, IntentInv, IntentTypes, RowTypes, EngineInv, EngineTypes,
       LoopInv, LoopType, Labels

LEMMA SameIntents ==
  ASSUME IntentInv, intents' = intents
  PROVE  IntentInv' /\ KeepsIntents
BY DEF IntentInv, IntentTypes, OneActiveOwner, Active, KeepsIntents

\* A change of one intent that makes no new owner.
LEMMA ChangedIntent ==
  ASSUME IntentInv, IntentTypes', NEW i \in Intents,
         \A j \in Intents \ {i} : intents'[j] = intents[j],
         intents'[i].state # Absent,
         intents'[i].state \in ActiveOwnershipStates =>
           intents[i].state \in ActiveOwnershipStates
  PROVE  IntentInv' /\ KeepsIntents
<1>1. Active' \subseteq Active
  BY DEF Active
<1> QED
  BY <1>1 DEF IntentInv, OneActiveOwner, KeepsIntents

LEMMA SetIntentKeeps ==
  ASSUME IntentInv, NEW i \in Intents, NEW state \in IntentStates,
         SetIntent(i, state),
         state \in ActiveOwnershipStates =>
           intents[i].state \in ActiveOwnershipStates
  PROVE  IntentInv' /\ KeepsIntents /\ intents'[i].state = state
<1>1. IntentTypes' /\ intents'[i].state = state
  BY DEF SetIntent, IntentInv, IntentTypes
<1>2. \A j \in Intents \ {i} : intents'[j] = intents[j]
  BY DEF SetIntent, IntentInv, IntentTypes
<1> QED
  BY <1>1, <1>2, ChangedIntent, StatesAreKnown

LEMMA SameEngines ==
  ASSUME EngineInv, engines' = engines, running' = running, up' = up
  PROVE  EngineInv'
BY DEF EngineInv, EngineTypes, RunningEngineExists

\* Writing to an engine object keeps the sequence of the objects.
LEMMA ChangedEngine ==
  ASSUME EngineInv, NEW s \in Strategies, NEW k, NEW e,
         k \in 1 .. Len(engines[s]) => e \in EngineObjects,
         engines' = [engines EXCEPT ![s][k] = e], running' = running, up' = up
  PROVE  EngineInv'
<1>1. engines[s] \in Seq(EngineObjects)
  BY DEF EngineInv, EngineTypes
<1>2. /\ [engines[s] EXCEPT ![k] = e] \in Seq(EngineObjects)
      /\ Len([engines[s] EXCEPT ![k] = e]) = Len(engines[s])
  <2>1. CASE k \in 1 .. Len(engines[s])
    BY <1>1, <2>1, ExceptSeq
  <2>2. CASE k \notin 1 .. Len(engines[s])
    <3>1. [engines[s] EXCEPT ![k] = e] = engines[s]
      BY <1>1, <2>2
    <3> QED
      BY <1>1, <3>1
  <2> QED
    BY <2>1, <2>2
<1>3. /\ engines' \in [Strategies -> Seq(EngineObjects)]
      /\ \A t \in Strategies : Len(engines'[t]) = Len(engines[t])
  BY <1>2 DEF EngineInv, EngineTypes
<1> QED
  BY <1>3 DEF EngineInv, EngineTypes, RunningEngineExists

LEMMA ChangedField ==
  ASSUME EngineInv, NEW s \in Strategies, NEW k, NEW v,
         running' = running, up' = up,
         \/ /\ v \in Intents \cup {None}
            /\ engines' = [engines EXCEPT ![s][k].position = v]
         \/ /\ v \in {"NORMAL", "EXITS_ONLY"}
            /\ engines' = [engines EXCEPT ![s][k].mode = v]
  PROVE  EngineInv'
<1>1. k \in 1 .. Len(engines[s]) => engines[s][k] \in EngineObjects
  BY ElementOfSeq DEF EngineInv, EngineTypes
<1>2. CASE /\ v \in Intents \cup {None}
           /\ engines' = [engines EXCEPT ![s][k].position = v]
  <2> DEFINE e == [engines[s][k] EXCEPT !.position = v]
  <2>1. k \in 1 .. Len(engines[s]) => e \in EngineObjects
    BY <1>1, <1>2 DEF EngineObjects
  <2>2. engines' = [engines EXCEPT ![s][k] = e]
    BY <1>2
  <2> HIDE DEF e
  <2> QED
    BY <2>1, <2>2, ChangedEngine
<1>3. CASE /\ v \in {"NORMAL", "EXITS_ONLY"}
           /\ engines' = [engines EXCEPT ![s][k].mode = v]
  <2> DEFINE e == [engines[s][k] EXCEPT !.mode = v]
  <2>1. k \in 1 .. Len(engines[s]) => e \in EngineObjects
    BY <1>1, <1>3 DEF EngineObjects
  <2>2. engines' = [engines EXCEPT ![s][k] = e]
    BY <1>3
  <2> HIDE DEF e
  <2> QED
    BY <2>1, <2>2, ChangedEngine
<1> QED
  BY <1>2, <1>3

LEMMA SetPositionKeeps ==
  ASSUME EngineInv, LoopInv, loop.at \in Deciding, NEW d \in Intents \cup {None},
         engines' = SetPosition(d), running' = running, up' = up
  PROVE  EngineInv'
<1>1. Current.strategy \in Strategies
  BY DecisionTypes DEF Decisions
<1> QED
  BY <1>1, ChangedField DEF SetPosition

-----------------------------------------------------------------------------
(* The steps, one lemma per group of actions.                              *)

LEMMA SameRows ==
  RowTypes /\ UNCHANGED <<entries, closes, positions, trades, deals>> => RowTypes'
BY DEF RowTypes

\* EvaluatePrice takes its signals from the registered engines.
LEMMA SignalTypes ==
  ASSUME EngineInv, NEW s \in Strategies, running[s] # 0
  PROVE  Signal(s) \in Signals
<1>1. running[s] \in 1 .. Len(engines[s]) /\ running[s] \in 1 .. MaxStarts
  <2>1. running[s] \in 0 .. MaxStarts /\ running[s] <= Len(engines[s])
    BY DEF EngineInv, EngineTypes, RunningEngineExists
  <2>2. Len(engines[s]) \in Nat
    BY LenProperties DEF EngineInv, EngineTypes
  <2> QED
    BY <2>1, <2>2, MaxStartsAssumption
<1>2. engines[s][running[s]] \in EngineObjects
  BY <1>1, ElementOfSeq DEF EngineInv, EngineTypes
<1>3. engines[s][running[s]].position \in Intents \cup {None}
  BY <1>2 DEF EngineObjects
<1> QED
  BY <1>1, <1>3 DEF Signal, Signals

LEMMA EvaluateStep == IInv /\ EvaluatePrice => IInv'
<1> SUFFICES ASSUME IInv, EvaluatePrice PROVE IInv'
  OBVIOUS
<1>1. IntentInv /\ RowTypes /\ EngineInv /\ LoopInv
  BY PartsOfIInv
<1>2. IntentInv' /\ KeepsIntents /\ EngineInv' /\ RowTypes'
  BY <1>1, SameIntents, SameEngines, SameRows DEF EvaluatePrice, rows
<1>3. LoopInv'
  <2>1. PICK S \in SUBSET Strategies :
          /\ \A s \in S : running[s] # 0
          /\ loop' = [loop EXCEPT !.at = "deciding",
                                  !.signals = {Signal(s) : s \in S}]
    BY DEF EvaluatePrice
  <2>2. {Signal(s) : s \in S} \in SUBSET Signals
    BY <1>1, <2>1, SignalTypes
  <2>3. /\ loop'.at = "deciding" /\ loop'.decisions = loop.decisions
        /\ loop'.todo = loop.todo
    BY <1>1, <2>1 DEF LoopInv, LoopType
  <2>4. LoopType'
    BY <1>1, <2>1, <2>2 DEF LoopInv, LoopType, Labels
  <2>5. \A k \in 1 .. Len(loop.decisions) : loop.decisions[k] \in Decisions
    BY <1>1, ElementOfSeq DEF LoopInv, LoopType
  <2>6. DecidedIntentsExist'
    BY <1>1, <1>2, <2>3, <2>5
       DEF LoopInv, DecidedIntentsExist, KeepsIntents, Decisions
  <2>7. DecisionAtHand' /\ TodoAtHand'
    BY <1>1, <2>3 DEF DecisionAtHand, TodoAtHand, LoopInv, Deciding, Working
  <2> QED
    BY <2>4, <2>6, <2>7 DEF LoopInv
<1> QED
  BY <1>2, <1>3, PartsOfIInv

LEMMA ReviewingKeeps ==
  ASSUME LoopInv, loop.at = "deciding", Proceed("reviewing"), KeepsIntents
  PROVE  LoopInv'
<1>1. /\ loop'.at = "reviewing" /\ loop'.decisions = loop.decisions
      /\ loop'.todo = loop.todo
  BY DEF Proceed, LoopInv, LoopType
<1>2. LoopType'
  BY DEF Proceed, LoopInv, LoopType, Labels
<1>3. \A k \in 1 .. Len(loop.decisions) : loop.decisions[k] \in Decisions
  BY ElementOfSeq DEF LoopInv, LoopType
<1>4. DecidedIntentsExist'
  BY <1>1, <1>3 DEF LoopInv, DecidedIntentsExist, KeepsIntents, Decisions
<1>5. DecisionAtHand' /\ TodoAtHand'
  BY <1>1 DEF DecisionAtHand, TodoAtHand, LoopInv, Deciding, Working
<1> QED
  BY <1>2, <1>4, <1>5 DEF LoopInv

LEMMA NoneIsNoIntent == None \notin Intents
BY DEF None, Intents

\* find_active_trade_intent_for_instrument and the unique index: a proposal
\* is only made when nobody owns the instrument.
LEMMA ProposeStep ==
  ASSUME IInv, NEW signal \in loop.signals, ProposeEntry(signal)
  PROVE  IInv'
<1>1. IntentInv /\ RowTypes /\ EngineInv /\ LoopInv
  BY PartsOfIInv
<1>2. PICK i \in Unused :
        intents' = [intents EXCEPT ![i].state = "PROPOSED",
                                   ![i].strategy = signal.strategy]
  BY DEF ProposeEntry
<1>3. i \in Intents /\ intents[i].state = Absent
  BY <1>2 DEF Unused
<1>4. signal.strategy \in Strategies
  BY <1>1 DEF LoopInv, LoopType, Signals
<1>5. IntentTypes'
  BY <1>1, <1>2, <1>3, <1>4, StatesAreKnown, ZenonT(30) DEF IntentInv, IntentTypes
<1>6. /\ intents'[i].state = "PROPOSED"
      /\ \A j \in Intents \ {i} : intents'[j] = intents[j]
  BY <1>1, <1>2, <1>3 DEF IntentInv, IntentTypes
<1>7. KeepsIntents
  BY <1>3, <1>6 DEF KeepsIntents
<1>8. OneActiveOwner'
  <2>1. Active = {}
    BY DEF ProposeEntry, Unowned
  <2>2. Active' \subseteq {i}
    BY <1>6, <2>1 DEF Active
  <2> QED
    BY <2>2 DEF OneActiveOwner
<1>9. LoopInv'
  BY <1>1, <1>7, ReviewingKeeps DEF ProposeEntry
<1>10. EngineInv' /\ RowTypes'
  BY <1>1, SameEngines, SameRows DEF ProposeEntry
<1> QED
  BY <1>5, <1>8, <1>9, <1>10, PartsOfIInv DEF IntentInv

LEMMA ReviewStep ==
  ASSUME IInv, NEW signal \in loop.signals, NEW i \in Intents,
         ReviewEntry(signal, i)
  PROVE  IInv'
<1>1. IntentInv /\ RowTypes /\ EngineInv /\ LoopInv
  BY PartsOfIInv
<1>2. EngineInv' /\ RowTypes'
  BY <1>1, SameEngines, SameRows DEF ReviewEntry
<1>3. "PROPOSED" \in ActiveOwnershipStates /\ intents[i].state = "PROPOSED"
  BY DEF ReviewEntry, ActiveOwnershipStates
<1>4. CASE SetIntent(i, "APPROVED") /\ Decided(signal, i)
  <2>1. /\ IntentInv' /\ KeepsIntents
        /\ intents'[i].state = "APPROVED"
    BY <1>1, <1>3, <1>4, SetIntentKeeps, StatesAreKnown
  <2>2. LoopInv'
    BY <1>1, <1>4, <2>1, DecidedKeeps DEF ReviewEntry, Absent
  <2> QED
    BY <1>2, <2>1, <2>2, PartsOfIInv
<1>5. CASE SetIntent(i, "REJECTED") /\ Decided(signal, None)
  <2>1. IntentInv' /\ KeepsIntents
    BY <1>1, <1>5, SetIntentKeeps, StatesAreKnown
  <2>2. LoopInv'
    BY <1>1, <1>5, <2>1, DecidedKeeps DEF ReviewEntry
  <2> QED
    BY <1>2, <2>1, <2>2, PartsOfIInv
<1> QED
  BY <1>4, <1>5 DEF ReviewEntry

LEMMA RefuseStep ==
  ASSUME IInv, NEW signal \in loop.signals, RefuseEntry(signal)
  PROVE  IInv'
<1>1. IntentInv /\ RowTypes /\ EngineInv /\ LoopInv
  BY PartsOfIInv
<1>2. IntentInv' /\ KeepsIntents /\ EngineInv' /\ RowTypes'
  BY <1>1, SameIntents, SameEngines, SameRows DEF RefuseEntry, rows
<1>3. LoopInv'
  BY <1>1, <1>2, DecidedKeeps DEF RefuseEntry
<1> QED
  BY <1>2, <1>3, PartsOfIInv

LEMMA LinkStep ==
  ASSUME IInv, NEW signal \in loop.signals, LinkExit(signal)
  PROVE  IInv'
<1>1. IntentInv /\ RowTypes /\ EngineInv /\ LoopInv
  BY PartsOfIInv
<1>2. IntentInv' /\ KeepsIntents /\ EngineInv' /\ RowTypes' /\ intents' = intents
  BY <1>1, SameIntents, SameEngines, SameRows DEF LinkExit, rows
<1>3. CASE Decided(signal, None)
  BY <1>1, <1>2, <1>3, DecidedKeeps, PartsOfIInv DEF LinkExit
<1>4. ASSUME NEW i \in CloseAdmissible(signal.strategy, signal.position),
             Decided(signal, i)
      PROVE  IInv'
  <2>1. i \in Intents /\ intents'[i].state # Absent
    BY <1>2, <1>4, StatesAreKnown DEF CloseAdmissible
  <2>2. LoopInv'
    BY <1>1, <1>2, <1>4, <2>1, DecidedKeeps DEF LinkExit
  <2> QED
    BY <1>2, <2>2, PartsOfIInv
<1> QED
  BY <1>3, <1>4 DEF LinkExit

\* The decision in progress, with its types.
LEMMA CurrentTypes ==
  ASSUME LoopInv, loop.at \in Deciding
  PROVE  /\ Current.strategy \in Strategies
         /\ Current.kind \in {"entry", "exit"}
         /\ Current.position \in Intents \cup {None}
         /\ Current.intent \in Intents \cup {None}
         /\ Current.intent # None =>
              Current.intent \in Intents /\ intents[Current.intent].state # Absent
         /\ loop.at \in Working => Current.intent # None
<1>1. Current \in Decisions
  BY DecisionTypes
<1>2. loop.at \in Working => Current.intent # None
  BY DEF LoopInv, DecisionAtHand
<1> QED
  BY <1>1, <1>2, DecisionTypes DEF Decisions

LEMMA SkipStep == IInv /\ SkipDecision => IInv'
<1> SUFFICES ASSUME IInv, SkipDecision PROVE IInv'
  OBVIOUS
<1>1. /\ IntentInv /\ RowTypes /\ EngineInv /\ LoopInv
      /\ loop.at \in Deciding
  BY PartsOfIInv DEF SkipDecision, Deciding
<1>2. IntentInv' /\ KeepsIntents /\ RowTypes'
  BY <1>1, SameIntents, SameRows DEF SkipDecision, rows
<1>3. EngineInv'
  BY <1>1, SameEngines, SetPositionKeeps DEF SkipDecision
<1>4. LoopInv'
  BY <1>1, <1>2, NextDecisionKeeps DEF SkipDecision
<1> QED
  BY <1>2, <1>3, <1>4, PartsOfIInv

LEMMA BlockStep == IInv /\ BlockEntry => IInv'
<1> SUFFICES ASSUME IInv, BlockEntry PROVE IInv'
  OBVIOUS
<1>1. /\ IntentInv /\ RowTypes /\ EngineInv /\ LoopInv
      /\ loop.at \in Deciding
  BY PartsOfIInv DEF BlockEntry, Deciding
<1>2. Current.intent \in Intents
  BY <1>1, CurrentTypes DEF BlockEntry
<1>3. IntentInv' /\ KeepsIntents
  BY <1>1, <1>2, SetIntentKeeps, StatesAreKnown DEF BlockEntry
<1>4. LoopInv'
  BY <1>1, <1>3, NextDecisionKeeps DEF BlockEntry
<1>5. RowTypes' /\ EngineInv'
  BY <1>1, SameRows, SameEngines DEF BlockEntry
<1> QED
  BY <1>3, <1>4, <1>5, PartsOfIInv

LEMMA SuppressKeeps ==
  ASSUME LoopInv, loop.at \in Deciding, NEW status, Current.intent # None,
         ExecuteOrSuppress(status), KeepsIntents
  PROVE  LoopInv'
<1>1. CASE NextDecision
  BY <1>1, NextDecisionKeeps
<1>2. CASE Proceed("executing")
  BY <1>2, ProceedKeeps DEF Deciding
<1> QED
  BY <1>1, <1>2 DEF ExecuteOrSuppress

LEMMA PreparedTypes == \A status : Prepared(status) \in ExecutionStatuses
BY StatesInScripts DEF Prepared

LEMMA PrepareEntryStep == IInv /\ PrepareEntry => IInv'
<1> SUFFICES ASSUME IInv, PrepareEntry PROVE IInv'
  OBVIOUS
<1>1. /\ IntentInv /\ RowTypes /\ EngineInv /\ LoopInv
      /\ loop.at \in Deciding /\ Current.intent # None
  BY PartsOfIInv DEF PrepareEntry, Deciding
<1>2. IntentInv' /\ KeepsIntents /\ EngineInv'
  BY <1>1, SameIntents, SameEngines DEF PrepareEntry
<1>3. RowTypes'
  BY <1>1, CurrentTypes, PreparedTypes DEF PrepareEntry, RowTypes
<1>4. LoopInv'
  BY <1>1, <1>2, SuppressKeeps, EscapeKeeps DEF PrepareEntry
<1> QED
  BY <1>2, <1>3, <1>4, PartsOfIInv

LEMMA PrepareExitStep == IInv /\ PrepareExit => IInv'
<1> SUFFICES ASSUME IInv, PrepareExit PROVE IInv'
  OBVIOUS
<1>1. /\ IntentInv /\ RowTypes /\ EngineInv /\ LoopInv
      /\ loop.at \in Deciding /\ Current.intent # None
  BY PartsOfIInv DEF PrepareExit, Deciding
<1>2. IntentInv' /\ KeepsIntents /\ EngineInv'
  BY <1>1, SameIntents, SameEngines DEF PrepareExit
<1>3. RowTypes'
  BY <1>1, CurrentTypes, PreparedTypes DEF PrepareExit, RowTypes
<1>4. LoopInv'
  BY <1>1, <1>2, SuppressKeeps, EscapeKeeps DEF PrepareExit
<1> QED
  BY <1>2, <1>3, <1>4, PartsOfIInv

LEMMA HandlingKeeps ==
  ASSUME LoopInv, loop.at \in Working, Guarded("handling", <<>>), KeepsIntents
  PROVE  LoopInv'
<1>1. /\ loop'.at = "handling" /\ loop'.decisions = loop.decisions
      /\ loop'.todo = <<>>
  BY DEF Guarded, LoopInv, LoopType
<1>2. LoopType'
  <2> DEFINE empty == <<>>
  <2>1. empty \in Seq(Writes)
    OBVIOUS
  <2>2. loop' = [loop EXCEPT !.at = "handling", !.todo = empty, !.guarded = TRUE]
    BY DEF Guarded
  <2> HIDE DEF empty
  <2> QED
    BY <2>1, <2>2 DEF LoopInv, LoopType, Labels
<1>3. Current.intent # None /\ loop.at \in Deciding
  BY DEF LoopInv, DecisionAtHand, Working, Deciding
<1>4. Tidy(loop'.todo)
  BY <1>1 DEF Tidy
<1> QED
  BY <1>1, <1>2, <1>3, <1>4, SameDecisionKeeps DEF Deciding

LEMMA ExecuteStep == IInv /\ Execute => IInv'
<1> SUFFICES ASSUME IInv, Execute PROVE IInv'
  OBVIOUS
<1>1. /\ IntentInv /\ RowTypes /\ EngineInv /\ LoopInv
      /\ loop.at \in Working
  BY PartsOfIInv DEF Execute, ExecuteEntry, ExecuteExit, Working
<1>2. /\ intents' = intents /\ engines' = engines /\ running' = running
      /\ up' = up /\ UNCHANGED <<entries, closes, positions, trades, deals>>
  BY DEF Execute, ExecuteEntry, ExecuteExit, rows
<1>3. IntentInv' /\ KeepsIntents /\ EngineInv' /\ RowTypes'
  BY <1>1, <1>2, SameIntents, SameEngines, SameRows
<1>4. ASSUME NEW todo \in Seq(Plain), todo # <<>>, Guarded("writing", todo)
      PROVE  LoopInv'
  BY <1>1, <1>3, <1>4, PlainIsTidy, WritesKeep
<1>5. \/ Guarded("handling", <<>>)
      \/ \E todo \in {BlockedEntry, SubmitEntry, BlockedExit, SubmitExit} :
           Guarded("writing", todo)
  BY DEF Execute, ExecuteEntry, ExecuteExit
<1>6. LoopInv'
  BY <1>1, <1>3, <1>4, <1>5, HandlingKeeps, EntryScripts, CloseScripts
<1> QED
  BY <1>3, <1>6, PartsOfIInv

LEMMA RaiseKeeps ==
  ASSUME LoopInv, loop.at = "writing", RaiseFrom, KeepsIntents
  PROVE  LoopInv'
<1>1. loop.at \in Deciding /\ loop.at \in Working
  BY DEF Deciding, Working
<1>2. Current.intent # None
  BY <1>1, CurrentTypes
<1>3. CASE Proceed("handling")
  BY <1>1, <1>2, <1>3, ProceedKeeps DEF Deciding
<1>4. CASE Escape
  BY <1>4, EscapeKeeps
<1> QED
  BY <1>3, <1>4 DEF RaiseFrom

LEMMA ArgTypes ==
  ASSUME LoopInv, loop.at = "writing"
  PROVE  /\ Writing("execution") => Arg \in ExecutionStatuses
         /\ Writing("intent") \/ Writing("referenced") => Arg \in IntentStates
BY TodoTypes DEF Writing, Arg, Writes

LEMMA WriteExecutionStep == IInv /\ WriteExecution => IInv'
<1> SUFFICES ASSUME IInv, WriteExecution PROVE IInv'
  OBVIOUS
<1>1. /\ IntentInv /\ RowTypes /\ EngineInv /\ LoopInv
      /\ loop.at = "writing" /\ loop.at \in Deciding
  BY PartsOfIInv DEF WriteExecution, Writing, Deciding
<1>2. IntentInv' /\ KeepsIntents /\ EngineInv'
  BY <1>1, SameIntents, SameEngines DEF WriteExecution
<1>3. RowTypes'
  <2>1. Arg \in ExecutionStatuses
    BY <1>1, ArgTypes DEF WriteExecution
  <2> QED
    BY <1>1, <2>1, CurrentTypes DEF WriteExecution, SetExecution, RowTypes
<1>4. LoopInv'
  BY <1>1, <1>2, WrittenKeeps, RaiseKeeps DEF WriteExecution
<1> QED
  BY <1>2, <1>3, <1>4, PartsOfIInv

\* transition_trade_intent: the table admits no new owner.
LEMMA WriteIntentStep == IInv /\ WriteIntent => IInv'
<1> SUFFICES ASSUME IInv, WriteIntent PROVE IInv'
  OBVIOUS
<1>1. /\ IntentInv /\ RowTypes /\ EngineInv /\ LoopInv
      /\ loop.at = "writing" /\ loop.at \in Deciding /\ loop.at \in Working
  BY PartsOfIInv DEF WriteIntent, Writing, Deciding, Working
<1>2. RowTypes' /\ EngineInv'
  BY <1>1, SameRows, SameEngines DEF WriteIntent
<1> DEFINE i == Current.intent
<1>3. i \in Intents /\ intents[i].state \in IntentStates
  BY <1>1, CurrentTypes DEF IntentInv, IntentTypes
<1>4. Arg \in IntentStates
  BY <1>1, ArgTypes DEF WriteIntent
<1>5. CASE MayBecome(i, Arg)
  <2>1. intents' = [intents EXCEPT
                      ![i].state = Arg,
                      ![i].reference = IF Writing("referenced") THEN i ELSE @]
        /\ Written
    BY <1>5 DEF WriteIntent
  <2> HIDE DEF i
  <2> DEFINE reference == IF Writing("referenced") THEN i
                                                   ELSE intents[i].reference
             row == [state |-> Arg, strategy |-> intents[i].strategy,
                     reference |-> reference]
  <2>2. IntentTypes'
    <3>1. intents[i] \in [state : IntentStates \cup {Absent},
                          strategy : Strategies \cup {"NOBODY"},
                          reference : Intents \cup {None}]
      BY <1>1, <1>3 DEF IntentInv, IntentTypes
    <3>2. reference \in Intents \cup {None}
      BY <1>3, <3>1
    <3>3. intents' = [intents EXCEPT ![i] = row]
      <4> DEFINE moved == [intents EXCEPT ![i].state = Arg]
      <4>1. /\ moved[i] = [state |-> Arg, strategy |-> intents[i].strategy,
                           reference |-> intents[i].reference]
            /\ \A j \in Intents \ {i} : moved[j] = intents[j]
            /\ DOMAIN moved = Intents /\ DOMAIN intents = Intents
        BY <1>1, <1>3, <3>1 DEF IntentInv, IntentTypes
      <4>2. intents' = [moved EXCEPT ![i].reference =
                          IF Writing("referenced") THEN i ELSE @]
        BY <2>1
      <4> HIDE DEF moved
      <4>3. intents' = [moved EXCEPT ![i] = row]
        <5>1. CASE Writing("referenced")
          <6>1. intents' = [moved EXCEPT ![i].reference = i]
            BY <4>2, <5>1
          <6>2. [moved[i] EXCEPT !.reference = i] = row
            BY <4>1, <5>1
          <6> HIDE DEF row
          <6> QED
            BY <6>1, <6>2
        <5>2. CASE ~Writing("referenced")
          <6>1. intents' = [moved EXCEPT ![i].reference = @]
            BY <4>2, <5>2
          <6>2. [moved[i] EXCEPT !.reference = moved[i].reference] = row
            BY <4>1, <5>2
          <6> HIDE DEF row
          <6> QED
            BY <6>1, <6>2
        <5> QED
          BY <5>1, <5>2
      <4> HIDE DEF row
      <4> QED
        BY <1>1, <1>3, <4>1, <4>3 DEF IntentInv, IntentTypes
    <3> HIDE DEF reference
    <3>4. row \in [state : IntentStates \cup {Absent},
                   strategy : Strategies \cup {"NOBODY"},
                   reference : Intents \cup {None}]
      BY <1>4, <3>1, <3>2
    <3> HIDE DEF row
    <3> QED
      BY <1>1, <1>3, <3>3, <3>4 DEF IntentInv, IntentTypes
  <2>3. /\ intents'[i].state = Arg
        /\ \A j \in Intents \ {i} : intents'[j] = intents[j]
    BY <1>1, <1>3, <2>1 DEF IntentInv, IntentTypes
  <2>4. Arg \in ActiveOwnershipStates =>
          intents[i].state \in ActiveOwnershipStates
    BY <1>3, <1>5, EndedStaysEnded DEF MayBecome
  <2>5. IntentInv' /\ KeepsIntents
    BY <1>1, <1>3, <1>4, <2>2, <2>3, <2>4, ChangedIntent, StatesAreKnown
  <2>6. LoopInv'
    BY <1>1, <2>1, <2>5, WrittenKeeps
  <2> QED
    BY <1>2, <2>5, <2>6, PartsOfIInv
<1>6. CASE ~MayBecome(i, Arg)
  <2>1. IntentInv' /\ KeepsIntents
    BY <1>1, <1>6, SameIntents DEF WriteIntent
  <2>2. LoopInv'
    BY <1>1, <1>6, <2>1, RaiseKeeps DEF WriteIntent
  <2> QED
    BY <1>2, <2>1, <2>2, PartsOfIInv
<1> QED
  BY <1>5, <1>6

LEMMA WriteEngineStep == IInv /\ WriteEngine => IInv'
<1> SUFFICES ASSUME IInv, WriteEngine PROVE IInv'
  OBVIOUS
<1>1. /\ IntentInv /\ RowTypes /\ EngineInv /\ LoopInv
      /\ loop.at = "writing" /\ loop.at \in Deciding
  BY PartsOfIInv DEF WriteEngine, Writing, Deciding
<1>2. IntentInv' /\ KeepsIntents /\ RowTypes' /\ running' = running /\ up' = up
  BY <1>1, SameIntents, SameRows DEF WriteEngine, rows
<1>3. CASE Writing("attach") /\ engines' = SetPosition(CurrentPosition) /\ Written
  <2>1. CurrentPosition \in Intents \cup {None}
    BY <1>1, CurrentTypes DEF CurrentPosition
  <2>2. EngineInv'
    BY <1>1, <1>2, <1>3, <2>1, SetPositionKeeps
  <2>3. LoopInv'
    BY <1>1, <1>2, <1>3, WrittenKeeps
  <2> QED
    BY <1>2, <2>2, <2>3, PartsOfIInv
<1>4. CASE /\ Writing("exits_only")
           /\ engines' = [engines EXCEPT
                ![Current.strategy][Current.engine].mode = "EXITS_ONLY"]
           /\ Written
  <2>1. EngineInv'
    BY <1>1, <1>2, <1>4, CurrentTypes, ChangedField
  <2>2. LoopInv'
    BY <1>1, <1>2, <1>4, WrittenKeeps
  <2> QED
    BY <1>2, <2>1, <2>2, PartsOfIInv
<1>5. CASE /\ Writing("detach") /\ engines' = SetPosition(None)
           /\ loop' = [loop EXCEPT !.todo = Tail(@), !.guarded = FALSE]
  <2>1. EngineInv'
    BY <1>1, <1>2, <1>5, SetPositionKeeps
  <2>2. LoopInv'
    BY <1>1, <1>2, <1>5, SkippedKeeps DEF Writing
  <2> QED
    BY <1>2, <2>1, <2>2, PartsOfIInv
<1> QED
  BY <1>3, <1>4, <1>5 DEF WriteEngine

LEMMA WritePositionStep == IInv /\ WritePosition => IInv'
<1> SUFFICES ASSUME IInv, WritePosition PROVE IInv'
  OBVIOUS
<1>1. /\ IntentInv /\ RowTypes /\ EngineInv /\ LoopInv
      /\ loop.at = "writing"
  BY PartsOfIInv DEF WritePosition, Writing
<1>2. IntentInv' /\ KeepsIntents /\ EngineInv'
  BY <1>1, SameIntents, SameEngines DEF WritePosition
<1>3. RowTypes'
  BY <1>1 DEF WritePosition, RowTypes
<1>4. LoopInv'
  <2>1. CASE Written
    BY <1>1, <1>2, <2>1, WrittenKeeps
  <2>2. CASE /\ Writing("close_position")
             /\ loop' = [loop EXCEPT !.todo = Tail(Tail(@))]
    BY <1>1, <1>2, <2>2, SkippedKeeps DEF Writing
  <2> QED
    BY <2>1, <2>2 DEF WritePosition
<1> QED
  BY <1>2, <1>3, <1>4, PartsOfIInv

LEMMA WriteTradeStep == IInv /\ WriteTrade => IInv'
<1> SUFFICES ASSUME IInv, WriteTrade PROVE IInv'
  OBVIOUS
<1>1. /\ IntentInv /\ RowTypes /\ EngineInv /\ LoopInv
      /\ loop.at = "writing"
  BY PartsOfIInv DEF WriteTrade, Writing
<1>2. IntentInv' /\ KeepsIntents /\ EngineInv'
  BY <1>1, SameIntents, SameEngines DEF WriteTrade
<1>3. RowTypes'
  <2>1. \A d \in Intents : trades[d] + 1 \in Nat
    BY <1>1 DEF RowTypes
  <2>2. trades' \in [Intents -> Nat]
    BY <1>1, <2>1 DEF WriteTrade, RowTypes
  <2> QED
    BY <1>1, <2>2 DEF WriteTrade, RowTypes
<1>4. LoopInv'
  BY <1>1, <1>2, WrittenKeeps DEF WriteTrade
<1> QED
  BY <1>2, <1>3, <1>4, PartsOfIInv

LEMMA RaiseStep == IInv /\ RaiseException => IInv'
<1> SUFFICES ASSUME IInv, RaiseException PROVE IInv'
  OBVIOUS
<1>1. /\ IntentInv /\ RowTypes /\ EngineInv /\ LoopInv
      /\ loop.at = "writing"
  BY PartsOfIInv DEF RaiseException, Writing
<1>2. IntentInv' /\ KeepsIntents /\ EngineInv' /\ RowTypes'
  BY <1>1, SameIntents, SameEngines, SameRows DEF RaiseException, rows
<1>3. LoopInv'
  BY <1>1, <1>2, RaiseKeeps DEF RaiseException
<1> QED
  BY <1>2, <1>3, PartsOfIInv

\* The handlers either leave the intent alone or fail it.
LEMMA FailKeeps ==
  ASSUME IntentInv, LoopInv, loop.at = "handling",
         \/ FailOrEscape(Current.intent)
         \/ intents' = intents /\ NextDecision
  PROVE  IntentInv' /\ LoopInv'
<1>1. /\ loop.at \in Deciding
      /\ Current.intent \in Intents
  BY CurrentTypes DEF Deciding, Working
<1>2. CASE SetIntent(Current.intent, "FAILED") /\ NextDecision
  <2>1. IntentInv' /\ KeepsIntents
    BY <1>1, <1>2, SetIntentKeeps, StatesAreKnown
  <2> QED
    BY <1>1, <1>2, <2>1, NextDecisionKeeps
<1>3. CASE intents' = intents /\ (NextDecision \/ Escape)
  BY <1>1, <1>3, SameIntents, NextDecisionKeeps, EscapeKeeps
<1> QED
  BY <1>2, <1>3 DEF FailOrEscape

LEMMA HandleStep == IInv /\ Handle => IInv'
<1> SUFFICES ASSUME IInv, Handle PROVE IInv'
  OBVIOUS
<1>1. /\ IntentInv /\ RowTypes /\ EngineInv /\ LoopInv
      /\ loop.at = "handling" /\ loop.at \in Deciding
  BY PartsOfIInv DEF Handle, HandleEntry, HandleExit, Deciding
<1>2. IntentInv' /\ LoopInv'
  BY <1>1, FailKeeps DEF Handle, HandleEntry, HandleExit
<1>3. RowTypes'
  BY <1>1, SameRows DEF Handle, HandleEntry, HandleExit
<1>4. EngineInv'
  BY <1>1, SameEngines, SetPositionKeeps DEF Handle, HandleEntry, HandleExit
<1> QED
  BY <1>2, <1>3, <1>4, PartsOfIInv

LEMMA StartCallStep == IInv /\ StartCall => IInv'
<1> SUFFICES ASSUME IInv, StartCall PROVE IInv'
  OBVIOUS
<1>1. /\ IntentInv /\ RowTypes /\ EngineInv /\ LoopInv
      /\ loop.at = "writing" /\ loop.at \in Deciding /\ loop.at \in Working
  BY PartsOfIInv DEF StartCall, Writing, Deciding, Working
<1>2. IntentInv' /\ KeepsIntents /\ EngineInv'
  BY <1>1, SameIntents, SameEngines DEF StartCall, rows
<1>3. RowTypes'
  BY <1>1 DEF StartCall, rows, RowTypes, DealStates
<1>4. LoopInv'
  <2>1. Current.intent # None
    BY <1>1, CurrentTypes
  <2> QED
    BY <1>1, <1>2, <2>1, ProceedKeeps DEF StartCall, Deciding
<1> QED
  BY <1>2, <1>3, <1>4, PartsOfIInv

LEMMA AnswerStep == IInv /\ Answer => IInv'
<1> SUFFICES ASSUME IInv, Answer PROVE IInv'
  OBVIOUS
<1>1. /\ IntentInv /\ RowTypes /\ EngineInv /\ LoopInv
      /\ loop.at \in Working
  BY PartsOfIInv DEF Answer, AnswerEntry, AnswerExit, Working
<1>2. IntentInv' /\ KeepsIntents /\ EngineInv' /\ RowTypes'
  BY <1>1, SameIntents, SameEngines, SameRows
     DEF Answer, AnswerEntry, AnswerExit, rows
<1>3. \E todo \in Seq(Writes) : todo # <<>> /\ Tidy(todo) /\ Perform(todo)
  <2>1. CASE AnswerEntry
    BY <2>1, EntryScripts, PlainIsTidy DEF AnswerEntry
  <2>2. CASE AnswerExit
    BY <2>2, CloseScripts DEF AnswerExit
  <2> QED
    BY <2>1, <2>2 DEF Answer
<1>4. LoopInv'
  BY <1>1, <1>2, <1>3, WritesKeep
<1> QED
  BY <1>2, <1>4, PartsOfIInv

LEMMA BrokerStep == IInv /\ BrokerActs => IInv'
<1> SUFFICES ASSUME IInv, BrokerActs PROVE IInv'
  OBVIOUS
<1>1. IntentInv /\ RowTypes /\ EngineInv /\ LoopInv
  BY PartsOfIInv
<1>2. IntentInv' /\ KeepsIntents /\ EngineInv'
  BY <1>1, SameIntents, SameEngines DEF BrokerActs, rows
<1>3. RowTypes'
  BY <1>1 DEF BrokerActs, rows, RowTypes, DealStates
<1>4. LoopInv'
  BY <1>1, <1>2, SameLoopKeeps DEF BrokerActs
<1> QED
  BY <1>2, <1>3, <1>4, PartsOfIInv

LEMMA OperatorStep ==
  ASSUME IInv, NEW s \in Strategies,
         StartEngine(s) \/ StopEngine(s) \/ RestrictToExits(s)
  PROVE  IInv'
<1>1. IntentInv /\ RowTypes /\ EngineInv /\ LoopInv
  BY PartsOfIInv
<1>2. intents' = intents /\ loop' = loop /\ UNCHANGED rows /\ UNCHANGED deals
      /\ up' = up
  BY DEF StartEngine, StopEngine, RestrictToExits, rows
<1>3. IntentInv' /\ RowTypes' /\ LoopInv'
  BY <1>1, <1>2, SameIntents, SameRows, SameLoopKeeps DEF rows
<1>4. CASE StartEngine(s)
  <2>1. PICK mode \in {"NORMAL", "EXITS_ONLY"} :
          engines' = [engines EXCEPT ![s] =
                        Append(@, [position |-> None, mode |-> mode])]
    BY <1>4 DEF StartEngine
  <2> DEFINE e == [position |-> None, mode |-> mode]
  <2>2. e \in EngineObjects
    BY DEF EngineObjects
  <2>3. engines[s] \in Seq(EngineObjects) /\ Len(engines[s]) \in Nat
    BY <1>1, LenProperties DEF EngineInv, EngineTypes
  <2>4. /\ Append(engines[s], e) \in Seq(EngineObjects)
        /\ Len(Append(engines[s], e)) = Len(engines[s]) + 1
    BY <2>2, <2>3, AppendProperties
  <2> HIDE DEF e
  <2>5. Len(engines[s]) + 1 \in 0 .. MaxStarts
    BY <1>4, <2>3, MaxStartsAssumption DEF StartEngine
  <2>6. running' = [running EXCEPT ![s] = Len(engines[s]) + 1]
    BY <1>4 DEF StartEngine
  <2>7. engines' = [engines EXCEPT ![s] = Append(engines[s], e)]
    BY <2>1 DEF e
  <2>8. EngineTypes'
    BY <1>1, <1>2, <2>4, <2>5, <2>6, <2>7 DEF EngineInv, EngineTypes
  <2>9. RunningEngineExists'
    BY <1>1, <2>3, <2>4, <2>5, <2>6, <2>7
       DEF EngineInv, EngineTypes, RunningEngineExists
  <2> QED
    BY <1>3, <2>8, <2>9, PartsOfIInv DEF EngineInv
<1>5. CASE StopEngine(s)
  <2>1. 0 \in 0 .. MaxStarts /\ \A t \in Strategies : 0 <= Len(engines[t])
    BY <1>1, MaxStartsAssumption, LenProperties DEF EngineInv, EngineTypes
  <2>2. EngineInv'
    BY <1>1, <1>5, <2>1 DEF StopEngine, EngineInv, EngineTypes,
       RunningEngineExists
  <2> QED
    BY <1>3, <2>2, PartsOfIInv
<1>6. CASE RestrictToExits(s)
  <2>1. EngineInv'
    BY <1>1, <1>6, ChangedField DEF RestrictToExits
  <2> QED
    BY <1>3, <2>1, PartsOfIInv
<1> QED
  BY <1>4, <1>5, <1>6

LEMMA CrashStep == IInv /\ Crash => IInv'
<1> SUFFICES ASSUME IInv, Crash PROVE IInv'
  OBVIOUS
<1>1. IntentInv /\ RowTypes /\ EngineInv /\ LoopInv
  BY PartsOfIInv
<1>2. IntentInv' /\ RowTypes'
  BY <1>1, SameIntents, SameRows DEF Crash, rows
<1>3. LoopInv'
  BY <1>1, EscapeKeeps DEF Crash, Escape
<1>4. EngineInv'
  <2> DEFINE none == <<>>
  <2>1. none \in Seq(EngineObjects) /\ Len(none) = 0
    OBVIOUS
  <2>2. engines' = [s \in Strategies |-> none]
    BY DEF Crash
  <2> HIDE DEF none
  <2>3. running' = [s \in Strategies |-> 0] /\ up' = FALSE
    BY DEF Crash
  <2>4. \A s \in Strategies : engines'[s] = none /\ running'[s] = 0
    BY <2>2, <2>3
  <2>5. engines' \in [Strategies -> Seq(EngineObjects)]
    BY <2>1, <2>2
  <2>6. running' \in [Strategies -> 0 .. MaxStarts]
    <3>1. 0 \in 0 .. MaxStarts
      BY MaxStartsAssumption
    <3> QED
      BY <2>3, <3>1
  <2>7. RunningEngineExists'
    BY <2>1, <2>4 DEF RunningEngineExists
  <2> QED
    BY <2>3, <2>5, <2>6, <2>7 DEF EngineInv, EngineTypes
<1> QED
  BY <1>2, <1>3, <1>4, PartsOfIInv

-----------------------------------------------------------------------------
(* Every step of the pipeline, the broker, the operator and the process.   *)

LEMMA NextIInv == IInv /\ [Next]_vars => IInv'
<1> SUFFICES ASSUME IInv, [Next]_vars PROVE IInv'
  OBVIOUS
<1>1. CASE EvaluatePrice
  BY <1>1, EvaluateStep
<1>2. CASE Pipeline
  <2>1. CASE Decide
    BY <2>1, RefuseStep, ProposeStep, LinkStep, ReviewStep DEF Decide
  <2>2. CASE Orchestrate
    BY <2>2, SkipStep, BlockStep, PrepareEntryStep, PrepareExitStep
       DEF Orchestrate
  <2>3. CASE Execute
    BY <2>3, ExecuteStep
  <2>4. CASE WriteRow
    BY <2>4, WriteExecutionStep, WriteIntentStep, WriteEngineStep,
       WritePositionStep, WriteTradeStep, RaiseStep DEF WriteRow
  <2>5. CASE Handle
    BY <2>5, HandleStep
  <2>6. CASE StartCall
    BY <2>6, StartCallStep
  <2>7. CASE Answer
    BY <2>7, AnswerStep
  <2> QED
    BY <1>2, <2>1, <2>2, <2>3, <2>4, <2>5, <2>6, <2>7 DEF Pipeline
<1>3. CASE BrokerActs
  BY <1>3, BrokerStep
<1>4. CASE \E s \in Strategies :
             StartEngine(s) \/ StopEngine(s) \/ RestrictToExits(s)
  BY <1>4, OperatorStep
<1>5. CASE Crash
  BY <1>5, CrashStep
<1>6. CASE UNCHANGED vars
  <2>1. IntentInv /\ RowTypes /\ EngineInv /\ LoopInv
    BY PartsOfIInv
  <2>2. IntentInv' /\ RowTypes' /\ EngineInv' /\ LoopInv'
    BY <1>6, <2>1, SameIntents, SameRows, SameEngines, SameLoopKeeps DEF vars
  <2> QED
    BY <2>2, PartsOfIInv
<1> QED
  BY <1>1, <1>2, <1>3, <1>4, <1>5, <1>6 DEF Next

(* The inductive invariant holds in every state of the pipeline.           *)
THEOREM LifecycleInvariant == Spec => []IInv
BY InitIInv, NextIInv, PTL DEF Spec

(* Every row, engine and pending write has its type: no call plans to      *)
(* write a status the tables of lifecycle_rules.py do not know.            *)
THEOREM LifecycleTypes == Spec => []TypeOK
BY LifecycleInvariant, PTL DEF IInv

(* At most one intent owns the instrument, whatever the strategies, the    *)
(* broker's answers and the operator do and wherever the process ends      *)
(* (the promise of uq_trade_intent_active_instrument).                     *)
THEOREM SingleOwner == Spec => []OneActiveOwner
BY LifecycleInvariant, PTL DEF IInv

-----------------------------------------------------------------------------
(* What is at risk with the broker is owned, recorded and visible, and the *)
(* refinement of InstrumentOwnership.                                      *)
(*                                                                         *)
(* The argument follows one intent through the call that works on it.  A   *)
(* call writes one of the scripts of TradeLifecycle; a "plan" sets beside  *)
(* each write of the script what is on record when its turn comes.  That   *)
(* the tables of lifecycle_rules.py admit every write of every plan is a   *)
(* lemma about data; the invariant says that the call in progress is       *)
(* somewhere on one of the plans, that any other intent is at rest, and    *)
(* that the engine objects and the decisions in the queue agree with both. *)

-----------------------------------------------------------------------------
(* The rows of one intent, at any time and so after a crash.               *)

\* The states of an intent whose position row is open.
OpenStates == {"SUBMITTED", "ACKNOWLEDGED", "PARTIALLY_FILLED", "FILLED",
               "POSITION_OPENED", "CLOSE_REQUESTED"}
Unsent == {Absent, "PROPOSED", "APPROVED", "REJECTED"}
Closeable == {"PARTIALLY_FILLED", "POSITION_OPENED", "CLOSE_REQUESTED"}

\* An intent of no strategy that runs (reconciliation adopts positions under
\* the name of its own): it has sent no order and has no row.
Foreign(i) ==
  /\ intents[i].strategy \notin Strategies
  /\ intents[i].state \in ProvenanceStates
       \cup {"POSITION_OPENED", "FORCED_RECONCILIATION_CLOSE"}
  /\ deals[i] = "none" /\ positions[i] = Absent /\ trades[i] = 0

RowsAgreeOwn(i) ==
  LET state == intents[i].state IN
  /\ state # Absent => intents[i].strategy \in Strategies
  /\ state \in Unsent \cup OpenStates
       \cup {"FAILED", "CANCELLED", "CLOSED", "FORCED_RECONCILIATION_CLOSE"}
  /\ intents[i].reference \in {None, i}
  /\ state \in Unsent => deals[i] = "none" /\ intents[i].reference = None
  /\ state \in {"FAILED", "CANCELLED"} =>
       deals[i] \in {"none", "void"} \/ LostAnswersRaise
  /\ positions[i] = "open" => state \in OpenStates
  /\ positions[i] = "open" => deals[i] \in {"open", "closing", "closed"}
  /\ positions[i] = "closed" =>
       /\ deals[i] = "closed"
       /\ state \in {"FILLED", "CLOSED", "FORCED_RECONCILIATION_CLOSE"}
  /\ trades[i] \in {0, 1}
  /\ trades[i] = 1 => positions[i] = "closed"
  /\ state = "CLOSED" => trades[i] = 1
  /\ state = "FORCED_RECONCILIATION_CLOSE" =>
       trades[i] = 0 /\ positions[i] = "closed"
RowsAgree(i) == Foreign(i) \/ RowsAgreeOwn(i)
RowInv == \A i \in Intents : RowsAgree(i)

\* No call is working on the intent: it never sent an order, or its outcome
\* is on record.
Reviewed(i) ==
  /\ intents[i].state = "ACKNOWLEDGED" /\ intents[i].reference = None
  /\ intents[i].strategy \in Strategies
  /\ entries[intents[i].strategy] =
       [status |-> "NEEDS_MANUAL_REVIEW", intent |-> i]
OpenRow(i) ==
  /\ intents[i].state \in Closeable /\ intents[i].reference = i
  /\ positions[i] = "open"
AtRest(i) ==
  \/ intents[i].strategy \notin Strategies
  \/ intents[i].state \in Unsent
       \cup {"FAILED", "CANCELLED", "CLOSED", "FORCED_RECONCILIATION_CLOSE"}
  \/ Reviewed(i)
  \/ OpenRow(i)

InFlight == loop.at \in {"writing", "calling"}
RestInv ==
  up => \A i \in Intents : AtRest(i) \/ (InFlight /\ i = Current.intent)

-----------------------------------------------------------------------------
(* The engine objects.                                                     *)

\* An engine object that runs, or that the call in progress began with.
InQueue(s, n) ==
  \/ \E g \in loop.signals : g.strategy = s /\ g.engine = n
  \/ \E k \in 1 .. Len(loop.decisions) :
       loop.decisions[k].strategy = s /\ loop.decisions[k].engine = n
InUse(s, n) == running[s] = n \/ InQueue(s, n)

\* One in use holds a position of its own strategy, with an open row, or the
\* one that the entry in progress is about to record.
HoldInv ==
  /\ \A s \in Strategies : \A n \in 1 .. Len(engines[s]) :
       LET d == engines[s][n].position IN
       InUse(s, n) /\ d # None =>
         /\ intents[d].strategy = s
         /\ \/ positions[d] = "open"
            \/ /\ loop.at = "writing" /\ Current.kind = "entry"
               /\ Current.intent = d
               /\ Current.strategy = s /\ Current.engine = n
  /\ \A s \in Strategies : \A m, n \in 1 .. Len(engines[s]) :
       InUse(s, m) /\ InUse(s, n)
         /\ engines[s][m].position = engines[s][n].position
         /\ engines[s][m].position # None => m = n

\* An engine object that is done with is never taken up again.
NoneRevived ==
  \A s \in Strategies : \A n \in 1 .. Len(engines[s]) :
    InUse(s, n)' => InUse(s, n)

-----------------------------------------------------------------------------
(* The signals and decisions of a call.                                    *)

Faithful(g) ==
  /\ g.engine \in 1 .. Len(engines[g.strategy])
  /\ g.position = engines[g.strategy][g.engine].position
  /\ g.kind = "exit" => g.position # None

\* What a decision with an intent relies on until it is worked on.
Promised(d) ==
  d.intent # None =>
    /\ intents[d.intent].strategy = d.strategy
    /\ d.kind = "entry" => intents[d.intent].state = "APPROVED"
    /\ d.kind = "exit" => /\ d.position = d.intent
                          /\ OpenRow(d.intent)
                          /\ engines[d.strategy][d.engine].position = d.intent

Begun == loop.at \in {"writing", "calling", "handling"}
SignalInv ==
  /\ loop.at \notin {"deciding", "reviewing"} => loop.signals = {}
  /\ \A g \in loop.signals : Faithful(g)
  /\ \A g, h \in loop.signals : g.strategy = h.strategy => g = h
  /\ \A g \in loop.signals : \A k \in 1 .. Len(loop.decisions) :
       loop.decisions[k].strategy # g.strategy
QueueInv ==
  /\ ~up => loop.at = "idle"
  /\ loop.at = "idle" => loop.decisions = <<>>
  /\ \A k \in 1 .. Len(loop.decisions) :
       /\ loop.decisions[k].engine \in
            1 .. Len(engines[loop.decisions[k].strategy])
       /\ (k = 1 /\ Begun) \/ Promised(loop.decisions[k])
  /\ \A k, l \in 1 .. Len(loop.decisions) :
       \/ loop.decisions[k].strategy = loop.decisions[l].strategy
       \/ /\ loop.decisions[k].intent # None
          /\ loop.decisions[l].intent # None
       => k = l

-----------------------------------------------------------------------------
(* The plans.                                                              *)

\* What is on record: the status of the execution, the states the intent may
\* be in, and how far the position has come.  Of an entry: 0 nothing, 1 the
\* broker's reference, 2 in the engine, 3 in an open row.  Of an exit: 0 all
\* of it, 1 no longer in the engine, 2 nor in an open row, 3 in a trade.
Stage(status, states, progress) ==
  [status |-> status, states |-> states, progress |-> progress]

Held == {"open", "closed"}   \* what an order that was filled leads to
Sent == {"pending", "open", "closed", "void"}

BlockedEntryPlan ==
  [script |-> BlockedEntry, deals |-> {"none"}, trace |->
    <<Stage("SUBMISSION_PENDING", {"APPROVED"}, 0),
      Stage("FAILED", {"APPROVED"}, 0),
      Stage("FAILED", {"FAILED"}, 0), Stage("FAILED", {"FAILED"}, 0)>>]
SubmitEntryPlan ==
  [script |-> SubmitEntry, deals |-> {"none"}, trace |->
    <<Stage("SUBMISSION_PENDING", {"APPROVED"}, 0),
      Stage("ORDER_SUBMITTED", {"APPROVED"}, 0),
      Stage("ORDER_SUBMITTED", {"SUBMITTED"}, 0),
      Stage("ORDER_SUBMITTED", {"SUBMITTED"}, 0)>>]

\* Where every answer of the broker finds the call.
Called == Stage("ORDER_SUBMITTED", {"SUBMITTED"}, 0)
FilledEntryPlan ==
  [script |-> EntryOutcome["FILLED"], deals |-> Held, trace |->
    <<Called, Stage("ORDER_ACKNOWLEDGED", {"SUBMITTED"}, 0),
      Stage("ORDER_ACKNOWLEDGED", {"ACKNOWLEDGED"}, 1),
      Stage("FILL_FULL", {"ACKNOWLEDGED"}, 1), Stage("FILL_FULL", {"FILLED"}, 1),
      Stage("FILL_FULL", {"FILLED"}, 2), Stage("FILL_FULL", {"FILLED"}, 3),
      Stage("POSITION_OPENED", {"FILLED"}, 3),
      Stage("POSITION_OPENED", {"POSITION_OPENED"}, 3),
      Stage("POSITION_OPENED", {"POSITION_OPENED"}, 3)>>]
PartialEntryPlan ==
  [script |-> EntryOutcome["PARTIALLY_FILLED"], deals |-> Held, trace |->
    <<Called, Stage("ORDER_ACKNOWLEDGED", {"SUBMITTED"}, 0),
      Stage("ORDER_ACKNOWLEDGED", {"ACKNOWLEDGED"}, 1),
      Stage("FILL_PARTIAL", {"ACKNOWLEDGED"}, 1),
      Stage("FILL_PARTIAL", {"PARTIALLY_FILLED"}, 1),
      Stage("FILL_PARTIAL", {"PARTIALLY_FILLED"}, 2),
      Stage("FILL_PARTIAL", {"PARTIALLY_FILLED"}, 3),
      Stage("FILL_PARTIAL", {"PARTIALLY_FILLED"}, 3),
      Stage("NEEDS_MANUAL_REVIEW", {"PARTIALLY_FILLED"}, 3),
      Stage("NEEDS_MANUAL_REVIEW", {"PARTIALLY_FILLED"}, 3),
      Stage("NEEDS_MANUAL_REVIEW", {"PARTIALLY_FILLED"}, 3)>>]
RejectedEntryPlan ==
  [script |-> EntryOutcome["REJECTED"], deals |-> {"void"}, trace |->
    <<Called, Stage("ORDER_ACKNOWLEDGED", {"SUBMITTED"}, 0),
      Stage("ORDER_ACKNOWLEDGED", {"ACKNOWLEDGED"}, 1),
      Stage("FAILED", {"ACKNOWLEDGED"}, 1), Stage("FAILED", {"FAILED"}, 1),
      Stage("FAILED", {"FAILED"}, 1)>>]
CancelledEntryPlan ==
  [script |-> EntryOutcome["CANCELLED"], deals |-> {"void"}, trace |->
    <<Called, Stage("ORDER_ACKNOWLEDGED", {"SUBMITTED"}, 0),
      Stage("ORDER_ACKNOWLEDGED", {"ACKNOWLEDGED"}, 1),
      Stage("CANCELLED", {"ACKNOWLEDGED"}, 1),
      Stage("CANCELLED", {"CANCELLED"}, 1),
      Stage("CANCELLED", {"CANCELLED"}, 1)>>]
AmbiguousEntryPlan ==
  [script |-> EntryOutcome["AMBIGUOUS"], deals |-> Sent, trace |->
    <<Called, Stage("ORDER_ACKNOWLEDGED", {"SUBMITTED"}, 0),
      Stage("ORDER_ACKNOWLEDGED", {"ACKNOWLEDGED"}, 0),
      Stage("NEEDS_MANUAL_REVIEW", {"ACKNOWLEDGED"}, 0),
      Stage("NEEDS_MANUAL_REVIEW", {"ACKNOWLEDGED"}, 0),
      Stage("NEEDS_MANUAL_REVIEW", {"ACKNOWLEDGED"}, 0)>>]
TimedOutEntryPlan ==
  [script |-> EntryOutcome["TimeoutError"], deals |-> Sent, trace |->
    <<Called, Stage("NEEDS_MANUAL_REVIEW", {"SUBMITTED"}, 0),
      Stage("NEEDS_MANUAL_REVIEW", {"ACKNOWLEDGED"}, 0),
      Stage("NEEDS_MANUAL_REVIEW", {"ACKNOWLEDGED"}, 0)>>]
RaisedEntryPlan ==
  [script |-> EntryOutcome["raised"],
   deals |-> IF LostAnswersRaise THEN Sent ELSE {"void"}, trace |->
    <<Called, Stage("FAILED", {"SUBMITTED"}, 0),
      Stage("FAILED", {"FAILED"}, 0), Stage("FAILED", {"FAILED"}, 0)>>]
EntryPlans ==
  {BlockedEntryPlan, SubmitEntryPlan, FilledEntryPlan, PartialEntryPlan,
   RejectedEntryPlan, CancelledEntryPlan, AmbiguousEntryPlan,
   TimedOutEntryPlan, RaisedEntryPlan}

BlockedExitPlan ==
  [script |-> BlockedExit, deals |-> DealStates, trace |->
    <<Stage("SUBMISSION_PENDING", Closeable, 0), Stage("FAILED", Closeable, 0),
      Stage("FAILED", Closeable, 0)>>]
SubmitExitPlan ==
  [script |-> SubmitExit, deals |-> DealStates, trace |->
    <<Stage("SUBMISSION_PENDING", Closeable, 0),
      Stage("SUBMISSION_PENDING", {"CLOSE_REQUESTED"}, 0),
      Stage("ORDER_SUBMITTED", {"CLOSE_REQUESTED"}, 0),
      Stage("ORDER_SUBMITTED", {"SUBMITTED"}, 0),
      Stage("ORDER_SUBMITTED", {"SUBMITTED"}, 0)>>]
FilledExitPlan ==
  [script |-> CloseOutcome["FILLED"], deals |-> {"closed"}, trace |->
    <<Called, Stage("ORDER_ACKNOWLEDGED", {"SUBMITTED"}, 0),
      Stage("ORDER_ACKNOWLEDGED", {"ACKNOWLEDGED"}, 0),
      Stage("FILL_FULL", {"ACKNOWLEDGED"}, 0), Stage("FILL_FULL", {"FILLED"}, 0),
      Stage("FILL_FULL", {"FILLED"}, 1), Stage("FILL_FULL", {"FILLED"}, 2),
      Stage("CLOSE_CONFIRMED", {"FILLED"}, 2),
      Stage("CLOSE_CONFIRMED", {"FILLED"}, 3),
      Stage("CLOSE_CONFIRMED", {"CLOSED"}, 3),
      Stage("CLOSE_CONFIRMED", {"CLOSED"}, 3)>>]
PartialExitPlan ==
  [script |-> CloseOutcome["PARTIALLY_FILLED"], deals |-> DealStates, trace |->
    <<Called, Stage("ORDER_ACKNOWLEDGED", {"SUBMITTED"}, 0),
      Stage("ORDER_ACKNOWLEDGED", {"ACKNOWLEDGED"}, 0),
      Stage("FILL_PARTIAL", {"ACKNOWLEDGED"}, 0),
      Stage("NEEDS_MANUAL_REVIEW", {"ACKNOWLEDGED"}, 0),
      Stage("NEEDS_MANUAL_REVIEW", {"CLOSE_REQUESTED"}, 0),
      Stage("NEEDS_MANUAL_REVIEW", {"CLOSE_REQUESTED"}, 0)>>]
AmbiguousExitPlan ==
  [script |-> CloseOutcome["AMBIGUOUS"], deals |-> DealStates, trace |->
    <<Called, Stage("ORDER_ACKNOWLEDGED", {"SUBMITTED"}, 0),
      Stage("ORDER_ACKNOWLEDGED", {"ACKNOWLEDGED"}, 0),
      Stage("NEEDS_MANUAL_REVIEW", {"ACKNOWLEDGED"}, 0),
      Stage("NEEDS_MANUAL_REVIEW", {"CLOSE_REQUESTED"}, 0),
      Stage("NEEDS_MANUAL_REVIEW", {"CLOSE_REQUESTED"}, 0)>>]
RaisedExitPlan ==
  [script |-> CloseOutcome["raised"], deals |-> DealStates, trace |->
    <<Called, Stage("NEEDS_MANUAL_REVIEW", {"SUBMITTED"}, 0),
      Stage("NEEDS_MANUAL_REVIEW", {"CLOSE_REQUESTED"}, 0),
      Stage("NEEDS_MANUAL_REVIEW", {"CLOSE_REQUESTED"}, 0)>>]
ExitPlans ==
  {BlockedExitPlan, SubmitExitPlan, FilledExitPlan, PartialExitPlan,
   AmbiguousExitPlan, RaisedExitPlan}

-----------------------------------------------------------------------------
(* The call in progress is on one of the plans.                            *)

Rest(script, k) == SubSeq(script, k, Len(script))

\* No engine object in use holds the position.
Dropped(i) ==
  \A t \in Strategies : \A m \in 1 .. Len(engines[t]) :
    InUse(t, m) => engines[t][m].position # i

\* Of intent i and the n-th engine object of strategy s.
EntryStage(stage, i, s, n) ==
  /\ entries[s] = [status |-> stage.status, intent |-> i]
  /\ intents[i].state \in stage.states /\ intents[i].strategy = s
  /\ intents[i].reference = IF stage.progress = 0 THEN None ELSE i
  /\ engines[s][n].position = i <=> stage.progress \in {2, 3}
  /\ positions[i] = IF stage.progress = 3 THEN "open" ELSE Absent
  /\ trades[i] = 0

ExitStage(stage, i, s, n) ==
  /\ closes[i] = stage.status
  /\ intents[i].state \in stage.states
  /\ intents[i].reference = i
  /\ IF stage.progress = 0
       THEN engines[s][n].position = i
       ELSE Dropped(i)
  /\ positions[i] = IF stage.progress \in {0, 1} THEN "open" ELSE "closed"
  /\ trades[i] = IF stage.progress = 3 THEN 1 ELSE 0

EntryAt(stage) ==
  EntryStage(stage, Current.intent, Current.strategy, Current.engine)
ExitAt(stage) ==
  /\ Current.position = Current.intent
  /\ ExitStage(stage, Current.intent, Current.strategy, Current.engine)

OnPlan(plan, k) == /\ k \in 1 .. Len(plan.script)
                   /\ loop.todo = Rest(plan.script, k)
                   /\ deals[Current.intent] \in plan.deals
At(stage) == IF Current.kind = "entry" THEN EntryAt(stage) ELSE ExitAt(stage)
Plans == IF Current.kind = "entry" THEN EntryPlans ELSE ExitPlans

WorkInv ==
  /\ loop.at = "executing" =>
       IF Current.kind = "entry"
         THEN entries[Current.strategy] = [status |-> "SUBMISSION_PENDING",
                                           intent |-> Current.intent]
         ELSE closes[Current.position] = "SUBMISSION_PENDING"
  /\ loop.at = "writing" =>
       \E plan \in Plans : \E k \in 1 .. Len(plan.script) :
         OnPlan(plan, k) /\ At(plan.trace[k])
  /\ loop.at = "calling" =>
       /\ At(Called)
       /\ Current.kind = "entry" => deals[Current.intent] \in Sent
  /\ loop.at = "handling" =>
       IF Current.kind = "entry"
         THEN intents[Current.intent].strategy = Current.strategy
         ELSE /\ intents[Current.intent].state # "ACKNOWLEDGED"
              /\ intents[Current.intent].strategy \in Strategies

RiskInv == RowInv /\ RestInv /\ HoldInv /\ SignalInv /\ QueueInv /\ WorkInv

-----------------------------------------------------------------------------
(* The plans are sound: the tables of lifecycle_rules.py admit each write,  *)
(* which leads to the next stage, and every way out leaves the intent at    *)
(* rest.                                                                    *)

Lost == {"FAILED", "CANCELLED"}
EntrySettled(stage) ==
  \/ stage.states \subseteq Lost /\ stage.progress \in {0, 1}
  \/ /\ stage.states \subseteq {"PARTIALLY_FILLED", "POSITION_OPENED"}
     /\ stage.progress = 3
  \/ stage = Stage("NEEDS_MANUAL_REVIEW", {"ACKNOWLEDGED"}, 0)
ExitSettled(stage) ==
  \/ stage.states \subseteq Closeable /\ stage.progress = 0
  \/ stage.states = {"CLOSED"}

\* Every state the intent may be in leads to the one written.
Admits(states, to) == \A state \in states : to \in IntentTransitions[state]

\* The broker holds nothing, unless a lost answer was taken for a refusal.
NothingHeld(facts) == LostAnswersRaise \/ facts \subseteq {"none", "void"}

\* One write of an entry, from one stage to the next.
EntryWrite(write, from, to, facts) ==
  /\ write.op = "execution" =>
       /\ write.arg \in ExecutionTransitions[from.status]
       /\ to = Stage(write.arg, from.states, from.progress)
  /\ write.op = "intent" =>
       /\ Admits(from.states, write.arg)
       /\ to = Stage(from.status, {write.arg}, from.progress)
       /\ from.progress < 2
       /\ \/ write.arg \in {"SUBMITTED", "ACKNOWLEDGED"}
          \/ write.arg \in Lost /\ NothingHeld(facts)
  /\ write.op = "referenced" =>
       /\ Admits(from.states, write.arg)
       /\ to = Stage(from.status, {write.arg},
                     IF from.progress = 0 THEN 1 ELSE from.progress)
       /\ write.arg \in OpenStates
  /\ write.op = "attach" =>
       /\ from.progress \in {1, 3}
       /\ to = Stage(from.status, from.states,
                     IF from.progress = 1 THEN 2 ELSE 3)
  /\ write.op = "record_position" =>
       /\ from.progress = 2 /\ from.states \subseteq OpenStates
       /\ facts = Held
       /\ to = Stage(from.status, from.states, 3)
  /\ write.op = "exits_only" => to = from
  /\ write.op = "raise" => EntrySettled(from)
  /\ write.op = "call_broker" => from = Called /\ facts = {"none"}

ExitWrite(write, from, to, facts) ==
  /\ write.op = "execution" =>
       /\ write.arg \in ExecutionTransitions[from.status]
       /\ to = Stage(write.arg, from.states, from.progress)
  /\ write.op = "intent" =>
       /\ Admits(from.states, write.arg) \/ from.states \subseteq Closeable
       /\ to = Stage(from.status, {write.arg}, from.progress)
       /\ \/ write.arg \in OpenStates /\ from.progress = 0
          \/ write.arg = "CLOSED" /\ from.progress = 3
  /\ write.op = "detach" =>
       from.progress = 0 /\ to = Stage(from.status, from.states, 1)
  /\ write.op = "close_position" =>
       /\ from.progress = 1 /\ from.states = {"FILLED"} /\ facts = {"closed"}
       /\ to = Stage(from.status, from.states, 2)
  /\ write.op = "record_trade" =>
       /\ from.progress = 2 /\ from.states = {"FILLED"}
       /\ to = Stage(from.status, from.states, 3)
  /\ write.op = "raise" =>
       from.states \subseteq Closeable /\ from.progress = 0
  /\ write.op = "call_broker" => from = Called

Leaves(write) == write.op \in {"raise", "call_broker"}
EntryOps == {"execution", "intent", "referenced", "attach", "record_position",
             "exits_only", "raise", "call_broker"}
ExitOps == {"execution", "intent", "detach", "close_position", "record_trade",
            "raise", "call_broker"}

SoundEntry(plan) ==
  \A k \in 1 .. Len(plan.script) :
    LET write == plan.script[k]
        from == plan.trace[k]
        to == plan.trace[k + 1]
    IN  /\ write.op \in EntryOps
        /\ EntryWrite(write, from, to, plan.deals)
        /\ k = Len(plan.script) => Leaves(write) \/ EntrySettled(to)
SoundExit(plan) ==
  \A k \in 1 .. Len(plan.script) :
    LET write == plan.script[k]
        from == plan.trace[k]
        to == plan.trace[k + 1]
    IN  /\ write.op \in ExitOps
        /\ ExitWrite(write, from, to, plan.deals)
        /\ k = Len(plan.script) => Leaves(write) \/ ExitSettled(to)

LEMMA ExecutionMoves ==
  /\ "ORDER_SUBMITTED" \in ExecutionTransitions["SUBMISSION_PENDING"]
  /\ "FAILED" \in ExecutionTransitions["SUBMISSION_PENDING"]
  /\ "ORDER_ACKNOWLEDGED" \in ExecutionTransitions["ORDER_SUBMITTED"]
  /\ "NEEDS_MANUAL_REVIEW" \in ExecutionTransitions["ORDER_SUBMITTED"]
  /\ "FAILED" \in ExecutionTransitions["ORDER_SUBMITTED"]
  /\ "FILL_FULL" \in ExecutionTransitions["ORDER_ACKNOWLEDGED"]
  /\ "FILL_PARTIAL" \in ExecutionTransitions["ORDER_ACKNOWLEDGED"]
  /\ "NEEDS_MANUAL_REVIEW" \in ExecutionTransitions["ORDER_ACKNOWLEDGED"]
  /\ "FAILED" \in ExecutionTransitions["ORDER_ACKNOWLEDGED"]
  /\ "CANCELLED" \in ExecutionTransitions["ORDER_ACKNOWLEDGED"]
  /\ "NEEDS_MANUAL_REVIEW" \in ExecutionTransitions["FILL_PARTIAL"]
  /\ "POSITION_OPENED" \in ExecutionTransitions["FILL_FULL"]
  /\ "CLOSE_CONFIRMED" \in ExecutionTransitions["FILL_FULL"]
  /\ "CLOSE_CONFIRMED" \in ExecutionTransitions["CLOSE_CONFIRMED"]
BY DEF ExecutionTransitions, ExecutionStatuses, ExecutionTerminalStatuses,
       Unfilled

LEMMA IntentMoves ==
  /\ Admits({"APPROVED"}, "SUBMITTED")
  /\ Admits({"APPROVED"}, "FAILED")
  /\ Admits({"SUBMITTED"}, "ACKNOWLEDGED")
  /\ Admits({"SUBMITTED"}, "FAILED")
  /\ Admits({"SUBMITTED"}, "CLOSE_REQUESTED")
  /\ Admits({"ACKNOWLEDGED"}, "ACKNOWLEDGED")
  /\ Admits({"ACKNOWLEDGED"}, "FILLED")
  /\ Admits({"ACKNOWLEDGED"}, "PARTIALLY_FILLED")
  /\ Admits({"ACKNOWLEDGED"}, "FAILED")
  /\ Admits({"ACKNOWLEDGED"}, "CANCELLED")
  /\ Admits({"ACKNOWLEDGED"}, "CLOSE_REQUESTED")
  /\ Admits({"FILLED"}, "POSITION_OPENED")
  /\ Admits({"FILLED"}, "CLOSED")
  /\ Admits({"PARTIALLY_FILLED"}, "PARTIALLY_FILLED")
  /\ Admits({"CLOSE_REQUESTED"}, "SUBMITTED")
BY DEF Admits, IntentTransitions, IntentStates,
       IntentTerminalStates, ActiveOwnershipStates, Reclosable, ProvenanceStates

LEMMA StatesWithRow ==
  /\ "SUBMITTED" \in OpenStates
  /\ "ACKNOWLEDGED" \in OpenStates
  /\ "PARTIALLY_FILLED" \in OpenStates
  /\ "FILLED" \in OpenStates
  /\ "POSITION_OPENED" \in OpenStates
  /\ "CLOSE_REQUESTED" \in OpenStates
  /\ {"FILLED"} \subseteq OpenStates /\ {"PARTIALLY_FILLED"} \subseteq OpenStates
BY DEF OpenStates

LEMMA NothingHeldThere ==
  /\ NothingHeld({"none"}) /\ NothingHeld({"void"})
  /\ NothingHeld(IF LostAnswersRaise THEN Sent ELSE {"void"})
BY LostAnswersAssumption DEF NothingHeld

\* The reference comes first, whatever the broker acknowledged.
LEMMA AcknowledgedElements ==
  ASSUME NEW rest \in Seq(Writes)
  PROVE  /\ Len(Acknowledged(rest)) = Len(rest) + 2
         /\ Acknowledged(rest)[1] = Execution("ORDER_ACKNOWLEDGED")
         /\ Acknowledged(rest)[2] = Referenced("ACKNOWLEDGED")
         /\ \A k \in 1 .. Len(rest) : Acknowledged(rest)[k + 2] = rest[k]
<1> DEFINE first == <<Execution("ORDER_ACKNOWLEDGED"),
                      Referenced("ACKNOWLEDGED")>>
<1>1. first \in Seq(Writes) /\ Len(first) = 2
  BY WriteTypes, StatesInScripts
<1>2. /\ first[1] = Execution("ORDER_ACKNOWLEDGED")
      /\ first[2] = Referenced("ACKNOWLEDGED")
  OBVIOUS
<1>3. Acknowledged(rest) = first \o rest
  BY DEF Acknowledged
<1>4. Len(rest) \in Nat
  BY LenProperties
<1> HIDE DEF first
<1>5. /\ Len(first \o rest) = Len(first) + Len(rest)
      /\ \A k \in 1 .. Len(first) + Len(rest) :
           (first \o rest)[k] = IF k <= Len(first) THEN first[k]
                                                   ELSE rest[k - Len(first)]
  BY <1>1, ConcatProperties
<1>6. ASSUME NEW k \in 1 .. Len(rest)
      PROVE  Acknowledged(rest)[k + 2] = rest[k]
  <2>1. k + 2 \in 1 .. 2 + Len(rest) /\ ~(k + 2 <= 2) /\ k + 2 - 2 = k
    BY <1>4
  <2> QED
    BY <1>1, <1>3, <1>5, <2>1
<1>7. 1 \in 1 .. 2 + Len(rest) /\ 2 \in 1 .. 2 + Len(rest)
  BY <1>4
<1>8. /\ Acknowledged(rest)[1] = first[1]
      /\ Acknowledged(rest)[2] = first[2]
  BY <1>1, <1>3, <1>5, <1>7
<1>9. Len(Acknowledged(rest)) = Len(rest) + 2
  BY <1>1, <1>3, <1>4, <1>5
<1> QED
  BY <1>2, <1>6, <1>8, <1>9

LEMMA EntryExecution ==
  ASSUME NEW from, NEW to \in ExecutionTransitions[from], NEW states,
         NEW progress, NEW facts
  PROVE  /\ Execution(to).op \in EntryOps
         /\ EntryWrite(Execution(to), Stage(from, states, progress),
                       Stage(to, states, progress), facts)
BY DEF EntryOps, EntryWrite, Execution, Write, Stage

LEMMA EntryIntent ==
  ASSUME NEW states, NEW to, Admits(states, to), NEW status,
         NEW progress \in {0, 1}, NEW facts,
         \/ to \in {"SUBMITTED", "ACKNOWLEDGED"}
         \/ to \in {"FAILED", "CANCELLED"} /\ NothingHeld(facts)
  PROVE  /\ Intent(to).op \in EntryOps
         /\ EntryWrite(Intent(to), Stage(status, states, progress),
                       Stage(status, {to}, progress), facts)
BY DEF EntryOps, EntryWrite, Intent, Write, Stage, Lost

LEMMA EntryReferenced ==
  ASSUME NEW states, NEW to \in OpenStates, Admits(states, to), NEW status,
         NEW facts
  PROVE  /\ Referenced(to).op \in EntryOps
         /\ EntryWrite(Referenced(to), Stage(status, states, 0),
                       Stage(status, {to}, 1), facts)
         /\ EntryWrite(Referenced(to), Stage(status, states, 1),
                       Stage(status, {to}, 1), facts)
         /\ EntryWrite(Referenced(to), Stage(status, states, 3),
                       Stage(status, {to}, 3), facts)
BY DEF EntryOps, EntryWrite, Referenced, Write, Stage

LEMMA EntryAttach ==
  ASSUME NEW states, NEW status, NEW facts
  PROVE  /\ Attach.op \in EntryOps
         /\ EntryWrite(Attach, Stage(status, states, 1),
                       Stage(status, states, 2), facts)
         /\ EntryWrite(Attach, Stage(status, states, 3),
                       Stage(status, states, 3), facts)
BY DEF EntryOps, EntryWrite, Attach, Write, Stage

LEMMA EntryRecord ==
  ASSUME NEW states, states \subseteq OpenStates, NEW status
  PROVE  /\ RecordPosition.op \in EntryOps
         /\ EntryWrite(RecordPosition, Stage(status, states, 2),
                       Stage(status, states, 3), Held)
BY DEF EntryOps, EntryWrite, RecordPosition, Write, Stage

LEMMA EntryExitsOnly ==
  ASSUME NEW stage, NEW facts
  PROVE  ExitsOnly.op \in EntryOps /\ EntryWrite(ExitsOnly, stage, stage, facts)
BY DEF EntryOps, EntryWrite, ExitsOnly, Write

LEMMA EntryRaise ==
  ASSUME NEW stage, EntrySettled(stage), NEW next, NEW facts
  PROVE  Raise.op \in EntryOps /\ EntryWrite(Raise, stage, next, facts)
BY DEF EntryOps, EntryWrite, Raise, Write

LEMMA EntryCall ==
  ASSUME NEW next
  PROVE  /\ CallBroker.op \in EntryOps
         /\ EntryWrite(CallBroker, Stage("ORDER_SUBMITTED", {"SUBMITTED"}, 0),
                       next, {"none"})
BY DEF EntryOps, EntryWrite, CallBroker, Write, Called

LEMMA BlockedEntryElements ==
  LET script == BlockedEntry IN
  /\ Len(script) = 3
  /\ script[1] = Execution("FAILED") /\ script[2] = Intent("FAILED")
  /\ script[3] = Raise
BY DEF BlockedEntry

LEMMA BlockedEntrySound == SoundEntry(BlockedEntryPlan)
<1> DEFINE script == BlockedEntryPlan.script
           trace == BlockedEntryPlan.trace
           Good(k) == /\ script[k].op \in EntryOps
                      /\ EntryWrite(script[k], trace[k], trace[k + 1],
                                    BlockedEntryPlan.deals)
<1>1. Good(1)
  BY BlockedEntryElements, ExecutionMoves, EntryExecution
     DEF BlockedEntryPlan, Called
<1>2. /\ EntryWrite(Intent("FAILED"), Stage("FAILED", {"APPROVED"}, 0),
                    Stage("FAILED", {"FAILED"}, 0), {"none"})
  BY IntentMoves, NothingHeldThere, EntryIntent
<1>3. Good(2)
  BY <1>2, BlockedEntryElements
     DEF BlockedEntryPlan, Called, EntryOps, Write, Intent
<1>4. EntrySettled(trace[3])
  BY DEF BlockedEntryPlan, EntrySettled, Lost, Stage
<1>5. Good(3)
  BY <1>4, BlockedEntryElements, EntryRaise DEF BlockedEntryPlan
<1>6. Leaves(script[3]) /\ Len(script) = 3
  BY BlockedEntryElements DEF BlockedEntryPlan, Leaves, Raise, Write
<1> QED
  BY <1>1, <1>2, <1>3, <1>4, <1>5, <1>6 DEF SoundEntry

LEMMA SubmitEntryElements ==
  LET script == SubmitEntry IN
  /\ Len(script) = 3
  /\ script[1] = Execution("ORDER_SUBMITTED")
  /\ script[2] = Intent("SUBMITTED") /\ script[3] = CallBroker
BY DEF SubmitEntry

LEMMA SubmitEntrySound == SoundEntry(SubmitEntryPlan)
<1> DEFINE script == SubmitEntryPlan.script
           trace == SubmitEntryPlan.trace
           Good(k) == /\ script[k].op \in EntryOps
                      /\ EntryWrite(script[k], trace[k], trace[k + 1],
                                    SubmitEntryPlan.deals)
<1>1. Good(1)
  BY SubmitEntryElements, ExecutionMoves, EntryExecution
     DEF SubmitEntryPlan, Called
<1>2. /\ EntryWrite(Intent("SUBMITTED"),
                    Stage("ORDER_SUBMITTED", {"APPROVED"}, 0),
                    Stage("ORDER_SUBMITTED", {"SUBMITTED"}, 0), {"none"})
  BY IntentMoves, NothingHeldThere, EntryIntent
<1>3. Good(2)
  BY <1>2, SubmitEntryElements
     DEF SubmitEntryPlan, Called, EntryOps, Write, Intent
<1>4. Good(3)
  BY SubmitEntryElements, EntryCall DEF SubmitEntryPlan, Called
<1>5. Leaves(script[3]) /\ Len(script) = 3
  BY SubmitEntryElements DEF SubmitEntryPlan, Leaves, CallBroker, Write
<1> QED
  BY <1>1, <1>2, <1>3, <1>4, <1>5 DEF SoundEntry

LEMMA FilledEntryElements ==
  LET script == EntryOutcome["FILLED"] IN
  /\ Len(script) = 9
  /\ script[1] = Execution("ORDER_ACKNOWLEDGED")
  /\ script[2] = Referenced("ACKNOWLEDGED")
  /\ script[3] = Execution("FILL_FULL") /\ script[4] = Referenced("FILLED")
  /\ script[5] = Attach /\ script[6] = RecordPosition
  /\ script[7] = Execution("POSITION_OPENED")
  /\ script[8] = Referenced("POSITION_OPENED") /\ script[9] = Attach
<1> DEFINE rest == <<Execution("FILL_FULL"), Referenced("FILLED"), Attach,
                       RecordPosition, Execution("POSITION_OPENED"),
                       Referenced("POSITION_OPENED"), Attach>>
<1>1. EntryOutcome["FILLED"] = Acknowledged(rest)
  BY DEF EntryOutcome
<1>2. rest \in Seq(Writes) /\ Len(rest) = 7
  BY WriteTypes, StatesInScripts
<1>3. /\ Len(Acknowledged(rest)) = Len(rest) + 2
      /\ Acknowledged(rest)[1] = Execution("ORDER_ACKNOWLEDGED")
      /\ Acknowledged(rest)[2] = Referenced("ACKNOWLEDGED")
      /\ \A k \in 1 .. Len(rest) : Acknowledged(rest)[k + 2] = rest[k]
  BY <1>2, AcknowledgedElements
<1> QED
  BY <1>1, <1>2, <1>3

LEMMA FilledEntrySound == SoundEntry(FilledEntryPlan)
<1> DEFINE script == FilledEntryPlan.script
           trace == FilledEntryPlan.trace
           Good(k) == /\ script[k].op \in EntryOps
                      /\ EntryWrite(script[k], trace[k], trace[k + 1],
                                    FilledEntryPlan.deals)
<1>1. Good(1) /\ Good(3) /\ Good(7)
  BY FilledEntryElements, ExecutionMoves, EntryExecution
     DEF FilledEntryPlan, Called
<1>2. /\ EntryWrite(Referenced("ACKNOWLEDGED"),
                    Stage("ORDER_ACKNOWLEDGED", {"SUBMITTED"}, 0),
                    Stage("ORDER_ACKNOWLEDGED", {"ACKNOWLEDGED"}, 1),
                    Held)
      /\ EntryWrite(Referenced("FILLED"),
                    Stage("FILL_FULL", {"ACKNOWLEDGED"}, 1),
                    Stage("FILL_FULL", {"FILLED"}, 1), Held)
      /\ EntryWrite(Referenced("POSITION_OPENED"),
                    Stage("POSITION_OPENED", {"FILLED"}, 3),
                    Stage("POSITION_OPENED", {"POSITION_OPENED"}, 3),
                    Held)
  BY IntentMoves, StatesWithRow, EntryReferenced
<1>3. Good(2) /\ Good(4) /\ Good(8)
  BY <1>2, FilledEntryElements
     DEF FilledEntryPlan, Called, EntryOps, Write, Referenced
<1>4. Good(5) /\ Good(6) /\ Good(9)
  BY FilledEntryElements, StatesWithRow, EntryAttach, EntryRecord,
     EntryExitsOnly
     DEF FilledEntryPlan
<1>5. EntrySettled(trace[10]) /\ Len(script) = 9
  BY FilledEntryElements DEF FilledEntryPlan, EntrySettled, Stage
<1> QED
  BY <1>1, <1>2, <1>3, <1>4, <1>5 DEF SoundEntry

LEMMA PartialEntryElements ==
  LET script == EntryOutcome["PARTIALLY_FILLED"] IN
  /\ Len(script) = 10
  /\ script[1] = Execution("ORDER_ACKNOWLEDGED")
  /\ script[2] = Referenced("ACKNOWLEDGED")
  /\ script[3] = Execution("FILL_PARTIAL")
  /\ script[4] = Referenced("PARTIALLY_FILLED") /\ script[5] = Attach
  /\ script[6] = RecordPosition /\ script[7] = ExitsOnly
  /\ script[8] = Execution("NEEDS_MANUAL_REVIEW")
  /\ script[9] = Referenced("PARTIALLY_FILLED") /\ script[10] = Attach
<1> DEFINE rest == <<Execution("FILL_PARTIAL"),
                       Referenced("PARTIALLY_FILLED"), Attach,
                       RecordPosition, ExitsOnly,
                       Execution("NEEDS_MANUAL_REVIEW"),
                       Referenced("PARTIALLY_FILLED"), Attach>>
<1>1. EntryOutcome["PARTIALLY_FILLED"] = Acknowledged(rest)
  BY DEF EntryOutcome
<1>2. rest \in Seq(Writes) /\ Len(rest) = 8
  BY WriteTypes, StatesInScripts
<1>3. /\ Len(Acknowledged(rest)) = Len(rest) + 2
      /\ Acknowledged(rest)[1] = Execution("ORDER_ACKNOWLEDGED")
      /\ Acknowledged(rest)[2] = Referenced("ACKNOWLEDGED")
      /\ \A k \in 1 .. Len(rest) : Acknowledged(rest)[k + 2] = rest[k]
  BY <1>2, AcknowledgedElements
<1> QED
  BY <1>1, <1>2, <1>3

LEMMA PartialEntrySound == SoundEntry(PartialEntryPlan)
<1> DEFINE script == PartialEntryPlan.script
           trace == PartialEntryPlan.trace
           Good(k) == /\ script[k].op \in EntryOps
                      /\ EntryWrite(script[k], trace[k], trace[k + 1],
                                    PartialEntryPlan.deals)
<1>1. Good(1) /\ Good(3) /\ Good(8)
  BY PartialEntryElements, ExecutionMoves, EntryExecution
     DEF PartialEntryPlan, Called
<1>2. /\ EntryWrite(Referenced("ACKNOWLEDGED"),
                    Stage("ORDER_ACKNOWLEDGED", {"SUBMITTED"}, 0),
                    Stage("ORDER_ACKNOWLEDGED", {"ACKNOWLEDGED"}, 1),
                    Held)
      /\ EntryWrite(Referenced("PARTIALLY_FILLED"),
                    Stage("FILL_PARTIAL", {"ACKNOWLEDGED"}, 1),
                    Stage("FILL_PARTIAL", {"PARTIALLY_FILLED"}, 1), Held)
      /\ EntryWrite(Referenced("PARTIALLY_FILLED"),
                    Stage("NEEDS_MANUAL_REVIEW", {"PARTIALLY_FILLED"}, 3),
                    Stage("NEEDS_MANUAL_REVIEW", {"PARTIALLY_FILLED"}, 3),
                    Held)
  BY IntentMoves, StatesWithRow, EntryReferenced
<1>3. Good(2) /\ Good(4) /\ Good(9)
  BY <1>2, PartialEntryElements
     DEF PartialEntryPlan, Called, EntryOps, Write, Referenced
<1>4. Good(5) /\ Good(6) /\ Good(7) /\ Good(10)
  BY PartialEntryElements, StatesWithRow, EntryAttach, EntryRecord,
     EntryExitsOnly
     DEF PartialEntryPlan
<1>5. EntrySettled(trace[11]) /\ Len(script) = 10
  BY PartialEntryElements DEF PartialEntryPlan, EntrySettled, Stage
<1> QED
  BY <1>1, <1>2, <1>3, <1>4, <1>5 DEF SoundEntry

LEMMA RejectedEntryElements ==
  LET script == EntryOutcome["REJECTED"] IN
  /\ Len(script) = 5
  /\ script[1] = Execution("ORDER_ACKNOWLEDGED")
  /\ script[2] = Referenced("ACKNOWLEDGED") /\ script[3] = Execution("FAILED")
  /\ script[4] = Intent("FAILED") /\ script[5] = Raise
<1> DEFINE rest == <<Execution("FAILED"), Intent("FAILED"), Raise>>
<1>1. EntryOutcome["REJECTED"] = Acknowledged(rest)
  BY DEF EntryOutcome
<1>2. rest \in Seq(Writes) /\ Len(rest) = 3
  BY WriteTypes, StatesInScripts
<1>3. /\ Len(Acknowledged(rest)) = Len(rest) + 2
      /\ Acknowledged(rest)[1] = Execution("ORDER_ACKNOWLEDGED")
      /\ Acknowledged(rest)[2] = Referenced("ACKNOWLEDGED")
      /\ \A k \in 1 .. Len(rest) : Acknowledged(rest)[k + 2] = rest[k]
  BY <1>2, AcknowledgedElements
<1> QED
  BY <1>1, <1>2, <1>3

LEMMA RejectedEntrySound == SoundEntry(RejectedEntryPlan)
<1> DEFINE script == RejectedEntryPlan.script
           trace == RejectedEntryPlan.trace
           Good(k) == /\ script[k].op \in EntryOps
                      /\ EntryWrite(script[k], trace[k], trace[k + 1],
                                    RejectedEntryPlan.deals)
<1>1. Good(1) /\ Good(3)
  BY RejectedEntryElements, ExecutionMoves, EntryExecution
     DEF RejectedEntryPlan, Called
<1>2. /\ EntryWrite(Intent("FAILED"), Stage("FAILED", {"ACKNOWLEDGED"}, 1),
                    Stage("FAILED", {"FAILED"}, 1), {"void"})
  BY IntentMoves, NothingHeldThere, EntryIntent
<1>3. Good(4)
  BY <1>2, RejectedEntryElements
     DEF RejectedEntryPlan, Called, EntryOps, Write, Intent
<1>4. /\ EntryWrite(Referenced("ACKNOWLEDGED"),
                    Stage("ORDER_ACKNOWLEDGED", {"SUBMITTED"}, 0),
                    Stage("ORDER_ACKNOWLEDGED", {"ACKNOWLEDGED"}, 1),
                    {"void"})
  BY IntentMoves, StatesWithRow, EntryReferenced
<1>5. Good(2)
  BY <1>4, RejectedEntryElements
     DEF RejectedEntryPlan, Called, EntryOps, Write, Referenced
<1>6. EntrySettled(trace[5])
  BY DEF RejectedEntryPlan, EntrySettled, Lost, Stage
<1>7. Good(5)
  BY <1>6, RejectedEntryElements, EntryRaise DEF RejectedEntryPlan
<1>8. Leaves(script[5]) /\ Len(script) = 5
  BY RejectedEntryElements DEF RejectedEntryPlan, Leaves, Raise, Write
<1> QED
  BY <1>1, <1>2, <1>3, <1>4, <1>5, <1>6, <1>7, <1>8 DEF SoundEntry

LEMMA CancelledEntryElements ==
  LET script == EntryOutcome["CANCELLED"] IN
  /\ Len(script) = 5
  /\ script[1] = Execution("ORDER_ACKNOWLEDGED")
  /\ script[2] = Referenced("ACKNOWLEDGED")
  /\ script[3] = Execution("CANCELLED") /\ script[4] = Intent("CANCELLED")
  /\ script[5] = Raise
<1> DEFINE rest == <<Execution("CANCELLED"), Intent("CANCELLED"), Raise>>
<1>1. EntryOutcome["CANCELLED"] = Acknowledged(rest)
  BY DEF EntryOutcome
<1>2. rest \in Seq(Writes) /\ Len(rest) = 3
  BY WriteTypes, StatesInScripts
<1>3. /\ Len(Acknowledged(rest)) = Len(rest) + 2
      /\ Acknowledged(rest)[1] = Execution("ORDER_ACKNOWLEDGED")
      /\ Acknowledged(rest)[2] = Referenced("ACKNOWLEDGED")
      /\ \A k \in 1 .. Len(rest) : Acknowledged(rest)[k + 2] = rest[k]
  BY <1>2, AcknowledgedElements
<1> QED
  BY <1>1, <1>2, <1>3

LEMMA CancelledEntrySound == SoundEntry(CancelledEntryPlan)
<1> DEFINE script == CancelledEntryPlan.script
           trace == CancelledEntryPlan.trace
           Good(k) == /\ script[k].op \in EntryOps
                      /\ EntryWrite(script[k], trace[k], trace[k + 1],
                                    CancelledEntryPlan.deals)
<1>1. Good(1) /\ Good(3)
  BY CancelledEntryElements, ExecutionMoves, EntryExecution
     DEF CancelledEntryPlan, Called
<1>2. /\ EntryWrite(Intent("CANCELLED"),
                    Stage("CANCELLED", {"ACKNOWLEDGED"}, 1),
                    Stage("CANCELLED", {"CANCELLED"}, 1), {"void"})
  BY IntentMoves, NothingHeldThere, EntryIntent
<1>3. Good(4)
  BY <1>2, CancelledEntryElements
     DEF CancelledEntryPlan, Called, EntryOps, Write, Intent
<1>4. /\ EntryWrite(Referenced("ACKNOWLEDGED"),
                    Stage("ORDER_ACKNOWLEDGED", {"SUBMITTED"}, 0),
                    Stage("ORDER_ACKNOWLEDGED", {"ACKNOWLEDGED"}, 1),
                    {"void"})
  BY IntentMoves, StatesWithRow, EntryReferenced
<1>5. Good(2)
  BY <1>4, CancelledEntryElements
     DEF CancelledEntryPlan, Called, EntryOps, Write, Referenced
<1>6. EntrySettled(trace[5])
  BY DEF CancelledEntryPlan, EntrySettled, Lost, Stage
<1>7. Good(5)
  BY <1>6, CancelledEntryElements, EntryRaise DEF CancelledEntryPlan
<1>8. Leaves(script[5]) /\ Len(script) = 5
  BY CancelledEntryElements DEF CancelledEntryPlan, Leaves, Raise, Write
<1> QED
  BY <1>1, <1>2, <1>3, <1>4, <1>5, <1>6, <1>7, <1>8 DEF SoundEntry

LEMMA AmbiguousEntryElements ==
  LET script == EntryOutcome["AMBIGUOUS"] IN
  /\ Len(script) = 5
  /\ script[1] = Execution("ORDER_ACKNOWLEDGED")
  /\ script[2] = Intent("ACKNOWLEDGED")
  /\ script[3] = Execution("NEEDS_MANUAL_REVIEW")
  /\ script[4] = Intent("ACKNOWLEDGED") /\ script[5] = Raise
BY DEF EntryOutcome

LEMMA AmbiguousEntrySound == SoundEntry(AmbiguousEntryPlan)
<1> DEFINE script == AmbiguousEntryPlan.script
           trace == AmbiguousEntryPlan.trace
           Good(k) == /\ script[k].op \in EntryOps
                      /\ EntryWrite(script[k], trace[k], trace[k + 1],
                                    AmbiguousEntryPlan.deals)
<1>1. Good(1) /\ Good(3)
  BY AmbiguousEntryElements, ExecutionMoves, EntryExecution
     DEF AmbiguousEntryPlan, Called
<1>2. /\ EntryWrite(Intent("ACKNOWLEDGED"),
                    Stage("ORDER_ACKNOWLEDGED", {"SUBMITTED"}, 0),
                    Stage("ORDER_ACKNOWLEDGED", {"ACKNOWLEDGED"}, 0), Sent)
      /\ EntryWrite(Intent("ACKNOWLEDGED"),
                    Stage("NEEDS_MANUAL_REVIEW", {"ACKNOWLEDGED"}, 0),
                    Stage("NEEDS_MANUAL_REVIEW", {"ACKNOWLEDGED"}, 0), Sent)
  BY IntentMoves, NothingHeldThere, EntryIntent
<1>3. Good(2) /\ Good(4)
  BY <1>2, AmbiguousEntryElements
     DEF AmbiguousEntryPlan, Called, EntryOps, Write, Intent
<1>4. EntrySettled(trace[5])
  BY DEF AmbiguousEntryPlan, EntrySettled, Lost, Stage
<1>5. Good(5)
  BY <1>4, AmbiguousEntryElements, EntryRaise DEF AmbiguousEntryPlan
<1>6. Leaves(script[5]) /\ Len(script) = 5
  BY AmbiguousEntryElements DEF AmbiguousEntryPlan, Leaves, Raise, Write
<1> QED
  BY <1>1, <1>2, <1>3, <1>4, <1>5, <1>6 DEF SoundEntry

LEMMA TimedOutEntryElements ==
  LET script == EntryOutcome["TimeoutError"] IN
  /\ Len(script) = 3
  /\ script[1] = Execution("NEEDS_MANUAL_REVIEW")
  /\ script[2] = Intent("ACKNOWLEDGED") /\ script[3] = Raise
BY DEF EntryOutcome, TimedOutEntry

LEMMA TimedOutEntrySound == SoundEntry(TimedOutEntryPlan)
<1> DEFINE script == TimedOutEntryPlan.script
           trace == TimedOutEntryPlan.trace
           Good(k) == /\ script[k].op \in EntryOps
                      /\ EntryWrite(script[k], trace[k], trace[k + 1],
                                    TimedOutEntryPlan.deals)
<1>1. Good(1)
  BY TimedOutEntryElements, ExecutionMoves, EntryExecution
     DEF TimedOutEntryPlan, Called
<1>2. /\ EntryWrite(Intent("ACKNOWLEDGED"),
                    Stage("NEEDS_MANUAL_REVIEW", {"SUBMITTED"}, 0),
                    Stage("NEEDS_MANUAL_REVIEW", {"ACKNOWLEDGED"}, 0), Sent)
  BY IntentMoves, NothingHeldThere, EntryIntent
<1>3. Good(2)
  BY <1>2, TimedOutEntryElements
     DEF TimedOutEntryPlan, Called, EntryOps, Write, Intent
<1>4. EntrySettled(trace[3])
  BY DEF TimedOutEntryPlan, EntrySettled, Lost, Stage
<1>5. Good(3)
  BY <1>4, TimedOutEntryElements, EntryRaise DEF TimedOutEntryPlan
<1>6. Leaves(script[3]) /\ Len(script) = 3
  BY TimedOutEntryElements DEF TimedOutEntryPlan, Leaves, Raise, Write
<1> QED
  BY <1>1, <1>2, <1>3, <1>4, <1>5, <1>6 DEF SoundEntry

LEMMA RaisedEntryElements ==
  LET script == EntryOutcome["raised"] IN
  /\ Len(script) = 3
  /\ script[1] = Execution("FAILED") /\ script[2] = Intent("FAILED")
  /\ script[3] = Raise
BY DEF EntryOutcome

LEMMA RaisedEntrySound == SoundEntry(RaisedEntryPlan)
<1> DEFINE script == RaisedEntryPlan.script
           trace == RaisedEntryPlan.trace
           Good(k) == /\ script[k].op \in EntryOps
                      /\ EntryWrite(script[k], trace[k], trace[k + 1],
                                    RaisedEntryPlan.deals)
<1>1. Good(1)
  BY RaisedEntryElements, ExecutionMoves, EntryExecution
     DEF RaisedEntryPlan, Called
<1>2. /\ EntryWrite(Intent("FAILED"), Stage("FAILED", {"SUBMITTED"}, 0),
                    Stage("FAILED", {"FAILED"}, 0),
                    IF LostAnswersRaise THEN Sent ELSE {"void"})
  BY IntentMoves, NothingHeldThere, EntryIntent
<1>3. Good(2)
  BY <1>2, RaisedEntryElements
     DEF RaisedEntryPlan, Called, EntryOps, Write, Intent
<1>4. EntrySettled(trace[3])
  BY DEF RaisedEntryPlan, EntrySettled, Lost, Stage
<1>5. Good(3)
  BY <1>4, RaisedEntryElements, EntryRaise DEF RaisedEntryPlan
<1>6. Leaves(script[3]) /\ Len(script) = 3
  BY RaisedEntryElements DEF RaisedEntryPlan, Leaves, Raise, Write
<1> QED
  BY <1>1, <1>2, <1>3, <1>4, <1>5, <1>6 DEF SoundEntry

LEMMA ExitExecution ==
  ASSUME NEW from, NEW to \in ExecutionTransitions[from], NEW states,
         NEW progress, NEW facts
  PROVE  /\ Execution(to).op \in ExitOps
         /\ ExitWrite(Execution(to), Stage(from, states, progress),
                      Stage(to, states, progress), facts)
BY DEF ExitOps, ExitWrite, Execution, Write, Stage

LEMMA ExitIntent ==
  ASSUME NEW states, NEW to, Admits(states, to), NEW status, NEW facts
  PROVE  /\ Intent(to).op \in ExitOps
         /\ to \in OpenStates =>
              ExitWrite(Intent(to), Stage(status, states, 0),
                        Stage(status, {to}, 0), facts)
         /\ to = "CLOSED" =>
              ExitWrite(Intent(to), Stage(status, states, 3),
                        Stage(status, {to}, 3), facts)
BY DEF ExitOps, ExitWrite, Intent, Write, Stage

\* A close requested before stays requested: the table has no such move, and
\* the exception leaves the intent as it is.
LEMMA ExitRequest ==
  ASSUME NEW status, NEW facts
  PROVE  /\ Intent("CLOSE_REQUESTED").op \in ExitOps
         /\ ExitWrite(Intent("CLOSE_REQUESTED"), Stage(status, Closeable, 0),
                      Stage(status, {"CLOSE_REQUESTED"}, 0), facts)
BY StatesWithRow DEF ExitOps, ExitWrite, Intent, Write, Stage

LEMMA ExitOtherWrites ==
  ASSUME NEW status, NEW states, NEW facts
  PROVE  /\ Detach.op \in ExitOps /\ ClosePosition.op \in ExitOps
         /\ RecordTrade.op \in ExitOps
         /\ ExitWrite(Detach, Stage(status, states, 0),
                      Stage(status, states, 1), facts)
         /\ ExitWrite(ClosePosition, Stage(status, {"FILLED"}, 1),
                      Stage(status, {"FILLED"}, 2), {"closed"})
         /\ ExitWrite(RecordTrade, Stage(status, {"FILLED"}, 2),
                      Stage(status, {"FILLED"}, 3), facts)
BY DEF ExitOps, ExitWrite, Detach, ClosePosition, RecordTrade, Write, Stage

LEMMA ExitRaise ==
  ASSUME NEW stage, stage.states \subseteq Closeable, stage.progress = 0,
         NEW next, NEW facts
  PROVE  Raise.op \in ExitOps /\ ExitWrite(Raise, stage, next, facts)
BY DEF ExitOps, ExitWrite, Raise, Write

LEMMA ExitCall ==
  ASSUME NEW next, NEW facts
  PROVE  /\ CallBroker.op \in ExitOps
         /\ ExitWrite(CallBroker, Stage("ORDER_SUBMITTED", {"SUBMITTED"}, 0),
                      next, facts)
BY DEF ExitOps, ExitWrite, CallBroker, Write, Called

LEMMA BlockedExitElements ==
  LET script == BlockedExit IN
  /\ Len(script) = 2
  /\ script[1] = Execution("FAILED") /\ script[2] = Raise
BY DEF BlockedExit

LEMMA BlockedExitSound == SoundExit(BlockedExitPlan)
<1> DEFINE script == BlockedExitPlan.script
           trace == BlockedExitPlan.trace
           Good(k) == /\ script[k].op \in ExitOps
                      /\ ExitWrite(script[k], trace[k], trace[k + 1],
                                    BlockedExitPlan.deals)
<1>1. Good(1)
  BY BlockedExitElements, ExecutionMoves, ExitExecution
     DEF BlockedExitPlan, Called
<1>2. trace[2].states \subseteq Closeable /\ trace[2].progress = 0
  BY DEF BlockedExitPlan, Closeable, Stage
<1>3. Good(2)
  BY <1>2, BlockedExitElements, ExitRaise DEF BlockedExitPlan
<1>4. Leaves(script[2]) /\ Len(script) = 2
  BY BlockedExitElements DEF BlockedExitPlan, Leaves, Raise, Write
<1> QED
  BY <1>1, <1>2, <1>3, <1>4 DEF SoundExit

LEMMA SubmitExitElements ==
  LET script == SubmitExit IN
  /\ Len(script) = 4
  /\ script[1] = Intent("CLOSE_REQUESTED")
  /\ script[2] = Execution("ORDER_SUBMITTED")
  /\ script[3] = Intent("SUBMITTED") /\ script[4] = CallBroker
BY DEF SubmitExit

LEMMA SubmitExitSound == SoundExit(SubmitExitPlan)
<1> DEFINE script == SubmitExitPlan.script
           trace == SubmitExitPlan.trace
           Good(k) == /\ script[k].op \in ExitOps
                      /\ ExitWrite(script[k], trace[k], trace[k + 1],
                                    SubmitExitPlan.deals)
<1>1. Good(2)
  BY SubmitExitElements, ExecutionMoves, ExitExecution
     DEF SubmitExitPlan, Called
<1>2. Good(1)
  BY SubmitExitElements, StatesWithRow, ExitRequest DEF SubmitExitPlan
<1>3. /\ ExitWrite(Intent("SUBMITTED"),
                   Stage("ORDER_SUBMITTED", {"CLOSE_REQUESTED"}, 0),
                   Stage("ORDER_SUBMITTED", {"SUBMITTED"}, 0), DealStates)
  BY IntentMoves, StatesWithRow, ExitIntent
<1>4. Good(3)
  BY <1>3, SubmitExitElements
     DEF SubmitExitPlan, Called, ExitOps, Write, Intent
<1>5. Good(4)
  BY SubmitExitElements, ExitCall DEF SubmitExitPlan, Called
<1>6. Leaves(script[4]) /\ Len(script) = 4
  BY SubmitExitElements DEF SubmitExitPlan, Leaves, CallBroker, Write
<1> QED
  BY <1>1, <1>2, <1>3, <1>4, <1>5, <1>6 DEF SoundExit

LEMMA FilledExitElements ==
  LET script == CloseOutcome["FILLED"] IN
  /\ Len(script) = 10
  /\ script[1] = Execution("ORDER_ACKNOWLEDGED")
  /\ script[2] = Intent("ACKNOWLEDGED") /\ script[3] = Execution("FILL_FULL")
  /\ script[4] = Intent("FILLED") /\ script[5] = Detach
  /\ script[6] = ClosePosition /\ script[7] = Execution("CLOSE_CONFIRMED")
  /\ script[8] = RecordTrade /\ script[9] = Intent("CLOSED")
  /\ script[10] = Execution("CLOSE_CONFIRMED")
<1> DEFINE first == <<Execution("ORDER_ACKNOWLEDGED"),
                      Intent("ACKNOWLEDGED"), Execution("FILL_FULL"),
                      Intent("FILLED")>>
           last == <<Detach, ClosePosition, Execution("CLOSE_CONFIRMED"),
                     RecordTrade, Intent("CLOSED"),
                     Execution("CLOSE_CONFIRMED")>>
<1>1. CloseOutcome["FILLED"] = first \o last
  BY DEF CloseOutcome, Settlement
<1>2. /\ first \in Seq(Writes) /\ Len(first) = 4
      /\ last \in Seq(Writes) /\ Len(last) = 6
  BY WriteTypes, StatesInScripts
<1>3. /\ Len(first \o last) = Len(first) + Len(last)
      /\ \A k \in 1 .. Len(first) + Len(last) :
           (first \o last)[k] = IF k <= Len(first) THEN first[k]
                                                   ELSE last[k - Len(first)]
  BY <1>2, ConcatProperties
<1>4. /\ Len(first \o last) = 10
      /\ \A k \in 1 .. 4 : (first \o last)[k] = first[k]
      /\ \A k \in 5 .. 10 : (first \o last)[k] = last[k - 4]
  BY <1>2, <1>3
<1> QED
  BY <1>1, <1>4

LEMMA FilledExitSound == SoundExit(FilledExitPlan)
<1> DEFINE script == FilledExitPlan.script
           trace == FilledExitPlan.trace
           Good(k) == /\ script[k].op \in ExitOps
                      /\ ExitWrite(script[k], trace[k], trace[k + 1],
                                    FilledExitPlan.deals)
<1>1. Good(1) /\ Good(3) /\ Good(7) /\ Good(10)
  BY FilledExitElements, ExecutionMoves, ExitExecution
     DEF FilledExitPlan, Called
<1>2. /\ ExitWrite(Intent("ACKNOWLEDGED"),
                   Stage("ORDER_ACKNOWLEDGED", {"SUBMITTED"}, 0),
                   Stage("ORDER_ACKNOWLEDGED", {"ACKNOWLEDGED"}, 0),
                   {"closed"})
      /\ ExitWrite(Intent("FILLED"), Stage("FILL_FULL", {"ACKNOWLEDGED"}, 0),
                   Stage("FILL_FULL", {"FILLED"}, 0), {"closed"})
      /\ ExitWrite(Intent("CLOSED"), Stage("CLOSE_CONFIRMED", {"FILLED"}, 3),
                   Stage("CLOSE_CONFIRMED", {"CLOSED"}, 3), {"closed"})
  BY IntentMoves, StatesWithRow, ExitIntent
<1>3. Good(2) /\ Good(4) /\ Good(9)
  BY <1>2, FilledExitElements
     DEF FilledExitPlan, Called, ExitOps, Write, Intent
<1>4. Good(5) /\ Good(6) /\ Good(8)
  BY FilledExitElements, ExitOtherWrites DEF FilledExitPlan
<1>5. ExitSettled(trace[11]) /\ Len(script) = 10
  BY FilledExitElements DEF FilledExitPlan, ExitSettled, Stage
<1> QED
  BY <1>1, <1>2, <1>3, <1>4, <1>5 DEF SoundExit

LEMMA PartialExitElements ==
  LET script == CloseOutcome["PARTIALLY_FILLED"] IN
  /\ Len(script) = 6
  /\ script[1] = Execution("ORDER_ACKNOWLEDGED")
  /\ script[2] = Intent("ACKNOWLEDGED")
  /\ script[3] = Execution("FILL_PARTIAL")
  /\ script[4] = Execution("NEEDS_MANUAL_REVIEW")
  /\ script[5] = Intent("CLOSE_REQUESTED") /\ script[6] = Raise
BY DEF CloseOutcome

LEMMA PartialExitSound == SoundExit(PartialExitPlan)
<1> DEFINE script == PartialExitPlan.script
           trace == PartialExitPlan.trace
           Good(k) == /\ script[k].op \in ExitOps
                      /\ ExitWrite(script[k], trace[k], trace[k + 1],
                                    PartialExitPlan.deals)
<1>1. Good(1) /\ Good(3) /\ Good(4)
  BY PartialExitElements, ExecutionMoves, ExitExecution
     DEF PartialExitPlan, Called
<1>2. /\ ExitWrite(Intent("ACKNOWLEDGED"),
                   Stage("ORDER_ACKNOWLEDGED", {"SUBMITTED"}, 0),
                   Stage("ORDER_ACKNOWLEDGED", {"ACKNOWLEDGED"}, 0),
                   DealStates)
      /\ ExitWrite(Intent("CLOSE_REQUESTED"),
                   Stage("NEEDS_MANUAL_REVIEW", {"ACKNOWLEDGED"}, 0),
                   Stage("NEEDS_MANUAL_REVIEW", {"CLOSE_REQUESTED"}, 0),
                   DealStates)
  BY IntentMoves, StatesWithRow, ExitIntent
<1>3. Good(2) /\ Good(5)
  BY <1>2, PartialExitElements
     DEF PartialExitPlan, Called, ExitOps, Write, Intent
<1>4. trace[6].states \subseteq Closeable /\ trace[6].progress = 0
  BY DEF PartialExitPlan, Closeable, Stage
<1>5. Good(6)
  BY <1>4, PartialExitElements, ExitRaise DEF PartialExitPlan
<1>6. Leaves(script[6]) /\ Len(script) = 6
  BY PartialExitElements DEF PartialExitPlan, Leaves, Raise, Write
<1> QED
  BY <1>1, <1>2, <1>3, <1>4, <1>5, <1>6 DEF SoundExit

LEMMA AmbiguousExitElements ==
  LET script == CloseOutcome["AMBIGUOUS"] IN
  /\ Len(script) = 5
  /\ script[1] = Execution("ORDER_ACKNOWLEDGED")
  /\ script[2] = Intent("ACKNOWLEDGED")
  /\ script[3] = Execution("NEEDS_MANUAL_REVIEW")
  /\ script[4] = Intent("CLOSE_REQUESTED") /\ script[5] = Raise
BY DEF CloseOutcome

LEMMA AmbiguousExitSound == SoundExit(AmbiguousExitPlan)
<1> DEFINE script == AmbiguousExitPlan.script
           trace == AmbiguousExitPlan.trace
           Good(k) == /\ script[k].op \in ExitOps
                      /\ ExitWrite(script[k], trace[k], trace[k + 1],
                                    AmbiguousExitPlan.deals)
<1>1. Good(1) /\ Good(3)
  BY AmbiguousExitElements, ExecutionMoves, ExitExecution
     DEF AmbiguousExitPlan, Called
<1>2. /\ ExitWrite(Intent("ACKNOWLEDGED"),
                   Stage("ORDER_ACKNOWLEDGED", {"SUBMITTED"}, 0),
                   Stage("ORDER_ACKNOWLEDGED", {"ACKNOWLEDGED"}, 0),
                   DealStates)
      /\ ExitWrite(Intent("CLOSE_REQUESTED"),
                   Stage("NEEDS_MANUAL_REVIEW", {"ACKNOWLEDGED"}, 0),
                   Stage("NEEDS_MANUAL_REVIEW", {"CLOSE_REQUESTED"}, 0),
                   DealStates)
  BY IntentMoves, StatesWithRow, ExitIntent
<1>3. Good(2) /\ Good(4)
  BY <1>2, AmbiguousExitElements
     DEF AmbiguousExitPlan, Called, ExitOps, Write, Intent
<1>4. trace[5].states \subseteq Closeable /\ trace[5].progress = 0
  BY DEF AmbiguousExitPlan, Closeable, Stage
<1>5. Good(5)
  BY <1>4, AmbiguousExitElements, ExitRaise DEF AmbiguousExitPlan
<1>6. Leaves(script[5]) /\ Len(script) = 5
  BY AmbiguousExitElements DEF AmbiguousExitPlan, Leaves, Raise, Write
<1> QED
  BY <1>1, <1>2, <1>3, <1>4, <1>5, <1>6 DEF SoundExit

LEMMA RaisedExitElements ==
  LET script == CloseOutcome["raised"] IN
  /\ Len(script) = 3
  /\ script[1] = Execution("NEEDS_MANUAL_REVIEW")
  /\ script[2] = Intent("CLOSE_REQUESTED") /\ script[3] = Raise
BY DEF CloseOutcome

LEMMA RaisedExitSound == SoundExit(RaisedExitPlan)
<1> DEFINE script == RaisedExitPlan.script
           trace == RaisedExitPlan.trace
           Good(k) == /\ script[k].op \in ExitOps
                      /\ ExitWrite(script[k], trace[k], trace[k + 1],
                                    RaisedExitPlan.deals)
<1>1. Good(1)
  BY RaisedExitElements, ExecutionMoves, ExitExecution
     DEF RaisedExitPlan, Called
<1>2. /\ ExitWrite(Intent("CLOSE_REQUESTED"),
                   Stage("NEEDS_MANUAL_REVIEW", {"SUBMITTED"}, 0),
                   Stage("NEEDS_MANUAL_REVIEW", {"CLOSE_REQUESTED"}, 0),
                   DealStates)
  BY IntentMoves, StatesWithRow, ExitIntent
<1>3. Good(2)
  BY <1>2, RaisedExitElements
     DEF RaisedExitPlan, Called, ExitOps, Write, Intent
<1>4. trace[3].states \subseteq Closeable /\ trace[3].progress = 0
  BY DEF RaisedExitPlan, Closeable, Stage
<1>5. Good(3)
  BY <1>4, RaisedExitElements, ExitRaise DEF RaisedExitPlan
<1>6. Leaves(script[3]) /\ Len(script) = 3
  BY RaisedExitElements DEF RaisedExitPlan, Leaves, Raise, Write
<1> QED
  BY <1>1, <1>2, <1>3, <1>4, <1>5, <1>6 DEF SoundExit

LEMMA PlansAreSound ==
  /\ \A plan \in EntryPlans : SoundEntry(plan)
  /\ \A plan \in ExitPlans : SoundExit(plan)
BY BlockedEntrySound, SubmitEntrySound, FilledEntrySound, PartialEntrySound,
   RejectedEntrySound, CancelledEntrySound, AmbiguousEntrySound,
   TimedOutEntrySound, RaisedEntrySound, BlockedExitSound, SubmitExitSound,
   FilledExitSound, PartialExitSound, AmbiguousExitSound, RaisedExitSound
   DEF EntryPlans, ExitPlans

-----------------------------------------------------------------------------
(* What the steps do to the queue of decisions.                            *)

\* The scripts of the plans are sequences of writes.
LEMMA PlanScripts ==
  \A plan \in EntryPlans \cup ExitPlans :
    plan.script \in Seq(Writes) /\ plan.script # <<>>
<1>1. \A plan \in EntryPlans : plan.script \in Seq(Plain) /\ plan.script # <<>>
  <2>1. \A plan \in EntryPlans :
          \/ plan.script \in {BlockedEntry, SubmitEntry}
          \/ \E answer \in {"FILLED", "PARTIALLY_FILLED", "REJECTED",
                            "CANCELLED", "AMBIGUOUS", "TimeoutError",
                            "raised"} : plan.script = EntryOutcome[answer]
    BY DEF EntryPlans, BlockedEntryPlan, SubmitEntryPlan, FilledEntryPlan,
           PartialEntryPlan, RejectedEntryPlan, CancelledEntryPlan,
           AmbiguousEntryPlan, TimedOutEntryPlan, RaisedEntryPlan
  <2>2. DOMAIN EntryOutcome = {"FILLED", "PARTIALLY_FILLED", "REJECTED",
                               "CANCELLED", "AMBIGUOUS", "TimeoutError",
                               "raised"}
    BY DEF EntryOutcome
  <2> QED
    BY <2>1, <2>2, EntryScripts
<1>2. \A plan \in ExitPlans : plan.script \in Seq(Writes) /\ plan.script # <<>>
  <2>1. \A plan \in ExitPlans :
          \/ plan.script \in {BlockedExit, SubmitExit}
          \/ \E answer \in {"FILLED", "PARTIALLY_FILLED", "AMBIGUOUS",
                            "raised"} : plan.script = CloseOutcome[answer]
    BY DEF ExitPlans, BlockedExitPlan, SubmitExitPlan, FilledExitPlan,
           PartialExitPlan, AmbiguousExitPlan, RaisedExitPlan
  <2>2. DOMAIN CloseOutcome = {"FILLED", "PARTIALLY_FILLED", "AMBIGUOUS",
                               "raised"}
    BY DEF CloseOutcome
  <2> QED
    BY <2>1, <2>2, CloseScripts, PlainIsTidy
<1> QED
  BY <1>1, <1>2, PlainIsTidy

\* What is left of a script, after one more write.
LEMMA RestProperties ==
  ASSUME NEW script \in Seq(Writes), NEW k \in 1 .. Len(script)
  PROVE  /\ Rest(script, k) \in Seq(Writes)
         /\ Len(Rest(script, k)) = Len(script) - k + 1
         /\ Head(Rest(script, k)) = script[k]
         /\ Tail(Rest(script, k)) = Rest(script, k + 1)
<1>1. /\ Len(script) \in Nat /\ k \in Int /\ k <= Len(script)
      /\ Len(script) \in k .. Len(script)
      /\ \A i \in k .. Len(script) : i \in 1 .. Len(script)
  BY LenProperties
<1>2. \A i \in k .. Len(script) : script[i] \in Writes
  BY <1>1, ElementOfSeq
<1> QED
  BY <1>1, <1>2, SubSeqProperties, HeadTailOfSubSeq DEF Rest

LEMMA WholeScript ==
  ASSUME NEW script \in Seq(Writes), script # <<>>
  PROVE  1 \in 1 .. Len(script) /\ Rest(script, 1) = script
<1>1. Len(script) \in Nat /\ Len(script) # 0
  BY LenProperties, EmptySeq
<1> QED
  BY <1>1, SubSeqFull DEF Rest

LEMMA QueueTypes ==
  ASSUME LoopInv
  PROVE  /\ loop.decisions \in Seq(Decisions) /\ Len(loop.decisions) \in Nat
         /\ loop.signals \in SUBSET Signals
         /\ \A k \in 1 .. Len(loop.decisions) :
              loop.decisions[k] \in Decisions
<1>1. loop.decisions \in Seq(Decisions) /\ loop.signals \in SUBSET Signals
  BY DEF LoopInv, LoopType
<1> QED
  BY <1>1, ElementOfSeq, LenProperties

\* The engine objects of every strategy stay where they are.
KeepsObjects == \A s \in Strategies : Len(engines'[s]) = Len(engines[s])

\* Nothing else is promised while an admitted decision is at hand.
LEMMA AdmittedAlone ==
  ASSUME LoopInv, QueueInv, loop.at \in Deciding, Current.intent # None,
         NEW k \in 2 .. Len(loop.decisions)
  PROVE  loop.decisions[k].intent = None
<1>1. Current = loop.decisions[1] /\ Len(loop.decisions) \in Nat \ {0}
  BY DecisionTypes
<1>2. 1 \in 1 .. Len(loop.decisions) /\ k \in 1 .. Len(loop.decisions) /\ k # 1
  BY <1>1
<1> QED
  BY <1>1, <1>2 DEF QueueInv

\* Going on to the next decision.
LEMMA NextQueue ==
  ASSUME LoopInv, SignalInv, QueueInv, loop.at \in Deciding, NextDecision,
         up' = up, KeepsObjects,
         \A k \in 2 .. Len(loop.decisions) : \A d :
           d = loop.decisions[k] => Promised(d)'
  PROVE  SignalInv' /\ QueueInv' /\ WorkInv'
<1> DEFINE n == Len(loop.decisions)
           next == Tail(loop.decisions)
<1>1. /\ loop'.at = IF n = 1 THEN "idle" ELSE "orchestrating"
      /\ loop'.decisions = next /\ loop'.signals = loop.signals
  BY DEF NextDecision, LoopInv, LoopType
<1>2. /\ n \in Nat \ {0} /\ Len(next) = n - 1
      /\ \A k \in 1 .. Len(next) :
           /\ k + 1 \in 2 .. n
           /\ next[k] = loop.decisions[k + 1]
      /\ next \in Seq(Decisions)
  BY DecisionTypes, HeadTailProperties
<1>3. loop.signals = {} /\ up
  BY DEF SignalInv, QueueInv, Deciding
<1> HIDE DEF next
<1>4. SignalInv'
  BY <1>1, <1>3 DEF SignalInv
<1>5. WorkInv'
  BY <1>1 DEF WorkInv
<1>6. loop'.at = "idle" => loop'.decisions = <<>>
  <2>1. n = 1 => Len(next) = 0
    BY <1>2
  <2> QED
    BY <1>1, <1>2, <2>1, EmptySeq
<1>7. ASSUME NEW k \in 1 .. Len(next)
      PROVE  /\ next[k].engine \in 1 .. Len(engines'[next[k].strategy])
             /\ \A d : d = next[k] => Promised(d)'
  <2>1. k + 1 \in 1 .. n /\ k + 1 \in 2 .. n /\ next[k] = loop.decisions[k + 1]
    BY <1>2
  <2>2. /\ loop.decisions[k + 1].strategy \in Strategies
        /\ loop.decisions[k + 1].engine \in
             1 .. Len(engines[loop.decisions[k + 1].strategy])
    BY <2>1, QueueTypes DEF QueueInv, Decisions
  <2> QED
    BY <2>1, <2>2 DEF KeepsObjects
<1>8. \A k, l \in 1 .. Len(next) :
        \/ next[k].strategy = next[l].strategy
        \/ next[k].intent # None /\ next[l].intent # None
        => k = l
  <2> SUFFICES ASSUME NEW k \in 1 .. Len(next), NEW l \in 1 .. Len(next),
                      \/ next[k].strategy = next[l].strategy
                      \/ next[k].intent # None /\ next[l].intent # None
               PROVE  k = l
    OBVIOUS
  <2>1. /\ k + 1 \in 1 .. n /\ next[k] = loop.decisions[k + 1]
        /\ l + 1 \in 1 .. n /\ next[l] = loop.decisions[l + 1]
    BY <1>2
  <2>2. k + 1 = l + 1
    BY <2>1 DEF QueueInv
  <2> QED
    BY <1>2, <2>2
<1>9. \A k \in 1 .. Len(loop'.decisions) : Promised(loop.decisions[k])'
  BY <1>1, <1>7
<1>10. QueueInv'
  BY <1>1, <1>3, <1>6, <1>7, <1>8, <1>9 DEF QueueInv
<1> QED
  BY <1>4, <1>5, <1>10

\* An exception that escapes leaves no decision behind, a crash neither.
LEMMA EscapeQueue ==
  ASSUME loop' = IdleLoop
  PROVE  SignalInv' /\ QueueInv' /\ WorkInv'
<1>1. /\ loop'.at = "idle" /\ loop'.signals = {} /\ loop'.decisions = <<>>
      /\ Len(loop'.decisions) = 0
  BY DEF IdleLoop
<1> QED
  BY <1>1 DEF SignalInv, QueueInv, WorkInv

\* Going on with the same decision.
LEMMA SameQueue ==
  ASSUME LoopInv, SignalInv, QueueInv, loop.at \in Deciding, up' = up,
         KeepsObjects, loop'.decisions = loop.decisions,
         loop'.signals = loop.signals, loop'.at \in Deciding,
         Current.intent # None,
         \/ loop'.at \in {"writing", "calling", "handling"}
         \/ \A d : d = Current => Promised(d)'
  PROVE  SignalInv' /\ QueueInv'
<1>1. loop.signals = {} /\ up
  BY DEF SignalInv, QueueInv, Deciding
<1>2. SignalInv'
  BY <1>1 DEF SignalInv
<1>3. ASSUME NEW k \in 1 .. Len(loop.decisions)
      PROVE  /\ loop.decisions[k].engine \in
                  1 .. Len(engines'[loop.decisions[k].strategy])
             /\ (k = 1 /\ Begun') \/ \A d : d = loop.decisions[k] => Promised(d)'
  <2>1. /\ loop.decisions[k].strategy \in Strategies
        /\ loop.decisions[k].engine \in
             1 .. Len(engines[loop.decisions[k].strategy])
    BY QueueTypes DEF QueueInv, Decisions
  <2>2. CASE k = 1
    <3>1. loop.decisions[k] = Current
      BY <2>2, DecisionTypes
    <3> QED
      BY <2>1, <2>2, <3>1 DEF KeepsObjects, Begun
  <2>3. CASE k # 1
    <3>1. k \in 2 .. Len(loop.decisions)
      BY <2>3, QueueTypes
    <3>2. loop.decisions[k].intent = None
      BY <3>1, AdmittedAlone
    <3> QED
      BY <2>1, <3>2 DEF KeepsObjects, Promised
  <2> QED
    BY <2>2, <2>3
<1>4. \A k \in 1 .. Len(loop'.decisions) :
        (k = 1 /\ Begun') \/ Promised(loop.decisions[k])'
  BY <1>3
<1>5. loop'.at # "idle"
  BY DEF Deciding
<1> QED
  BY <1>1, <1>2, <1>3, <1>4, <1>5 DEF QueueInv

\* With an admitted decision at hand nothing else is promised.
LEMMA NextAfterAdmitted ==
  ASSUME LoopInv, SignalInv, QueueInv, loop.at \in Deciding, NextDecision,
         up' = up, KeepsObjects, Current.intent # None
  PROVE  SignalInv' /\ QueueInv' /\ WorkInv'
<1>1. \A k \in 2 .. Len(loop.decisions) : loop.decisions[k].intent = None
  BY AdmittedAlone
<1>2. \A d : d.intent = None => Promised(d)'
  BY DEF Promised
<1> QED
  BY <1>1, <1>2, NextQueue

-----------------------------------------------------------------------------
(* What the steps do to the rows and the engine objects.                   *)

Same(j) == /\ intents'[j] = intents[j] /\ positions'[j] = positions[j]
           /\ trades'[j] = trades[j] /\ deals'[j] = deals[j]

\* Only an adopted intent is not a strategy's own.
LEMMA OwnRow ==
  ASSUME RowInv, NEW i \in Intents,
         \/ intents[i].strategy \in Strategies
         \/ intents[i].state \in Unsent
         \/ positions[i] # Absent
  PROVE  RowsAgreeOwn(i)
BY DEF RowInv, RowsAgree, Foreign, Unsent, ProvenanceStates, Absent

LEMMA SameRow ==
  ASSUME NEW j \in Intents, RowsAgree(j), Same(j)
  PROVE  RowsAgree(j)'
BY DEF RowsAgree, RowsAgreeOwn, Foreign, Same

LEMMA SameRest ==
  ASSUME NEW j \in Intents, AtRest(j), intents'[j] = intents[j],
         positions'[j] = positions[j],
         Reviewed(j) =>
           entries'[intents[j].strategy] = entries[intents[j].strategy]
  PROVE  AtRest(j)'
BY DEF AtRest, Reviewed, OpenRow

LEMMA OneRow ==
  ASSUME RowInv, NEW i \in Intents, \A j \in Intents \ {i} : Same(j),
         RowsAgree(i)'
  PROVE  RowInv'
<1>1. ASSUME NEW j \in Intents PROVE RowsAgree(j)'
  <2>1. CASE j = i
    BY <2>1
  <2>2. CASE j # i
    BY <1>1, <2>2, SameRow DEF RowInv
  <2> QED
    BY <2>1, <2>2
<1> QED
  BY <1>1 DEF RowInv

LEMMA AllRows ==
  ASSUME RowInv, UNCHANGED <<intents, positions, trades, deals>>
  PROVE  RowInv'
BY DEF RowInv, RowsAgree, RowsAgreeOwn, Foreign

LEMMA EngineAtHand ==
  ASSUME EngineInv, LoopInv, QueueInv, loop.at \in Deciding
  PROVE  /\ Current.strategy \in Strategies
         /\ Current.engine \in 1 .. Len(engines[Current.strategy])
         /\ Engine \in EngineObjects
         /\ Current = loop.decisions[1] /\ 1 \in 1 .. Len(loop.decisions)
         /\ up
<1>1. Current = loop.decisions[1] /\ 1 \in 1 .. Len(loop.decisions)
  BY DecisionTypes
<1>2. Current.strategy \in Strategies
  BY CurrentTypes
<1>3. Current.engine \in 1 .. Len(engines[Current.strategy])
  BY <1>1 DEF QueueInv
<1>4. Engine \in EngineObjects
  BY <1>2, <1>3, ElementOfSeq DEF Engine, EngineInv, EngineTypes
<1> QED
  BY <1>1, <1>2, <1>3, <1>4 DEF QueueInv, Deciding

\* The call in progress uses the engine objects of its decisions.
LEMMA QueueUses ==
  ASSUME NEW k \in 1 .. Len(loop.decisions)
  PROVE  InUse(loop.decisions[k].strategy, loop.decisions[k].engine)
BY DEF InUse, InQueue

LEMMA InUseAtHand ==
  ASSUME EngineInv, LoopInv, QueueInv, loop.at \in Deciding
  PROVE  InUse(Current.strategy, Current.engine)
BY EngineAtHand, QueueUses

LEMMA PositionTypes ==
  ASSUME EngineInv, NEW s \in Strategies, NEW n \in 1 .. Len(engines[s])
  PROVE  /\ engines[s][n] \in EngineObjects
         /\ engines[s][n].position \in Intents \cup {None}
<1>1. engines[s][n] \in EngineObjects
  BY ElementOfSeq DEF EngineInv, EngineTypes
<1> QED
  BY <1>1 DEF EngineObjects

\* What a write to the position of the current engine changes.
LEMMA PositionSet ==
  ASSUME EngineInv, LoopInv, QueueInv, loop.at \in Deciding, NEW d,
         engines' = SetPosition(d)
  PROVE  /\ KeepsObjects
         /\ engines'[Current.strategy][Current.engine].position = d
         /\ \A s \in Strategies : \A n \in 1 .. Len(engines[s]) :
              s # Current.strategy \/ n # Current.engine =>
                engines'[s][n] = engines[s][n]
<1> DEFINE s == Current.strategy
           n == Current.engine
           e == [engines[s][n] EXCEPT !.position = d]
           object == [engines[s] EXCEPT ![n] = e]
<1>1. s \in Strategies /\ n \in 1 .. Len(engines[s])
      /\ engines[s][n] \in EngineObjects
  BY EngineAtHand DEF Engine
<1>2. engines' = [engines EXCEPT ![s] = object]
  BY DEF SetPosition
<1>3. engines[s] \in Seq(EngineObjects) /\ engines \in [Strategies -> Seq(EngineObjects)]
  BY <1>1 DEF EngineInv, EngineTypes
<1>4. e.position = d
  BY <1>1 DEF EngineObjects
<1> HIDE DEF e
<1>5. Len(object) = Len(engines[s]) /\ object[n] = e
      /\ \A m \in 1 .. Len(engines[s]) : m # n => object[m] = engines[s][m]
  BY <1>1, <1>3
<1> HIDE DEF s, n, object
<1>6. engines'[s] = object /\ \A t \in Strategies : t # s => engines'[t] = engines[t]
  BY <1>1, <1>2, <1>3
<1> QED
  BY <1>1, <1>4, <1>5, <1>6 DEF KeepsObjects, s, n

\* No engine object has taken up a position.
NoNewHolds ==
  \A s \in Strategies : \A n \in 1 .. Len(engines'[s]) :
    engines'[s][n].position # None =>
      /\ n \in 1 .. Len(engines[s])
      /\ engines'[s][n].position = engines[s][n].position
OpenKept ==
  \A d \in Intents : positions[d] = "open" =>
    positions'[d] = "open" /\ intents'[d].strategy = intents[d].strategy
\* An entry has its position in the engine and not yet in a row.
InHand == /\ loop.at = "writing" /\ Current.kind = "entry"
          /\ Engine.position = Current.intent
          /\ positions[Current.intent] # "open"

LEMMA HoldKeeps ==
  ASSUME EngineInv, HoldInv, NoneRevived, NoNewHolds, OpenKept,
         InHand => loop' = loop /\ intents' = intents
  PROVE  HoldInv'
<1>1. ASSUME NEW s \in Strategies, NEW n \in 1 .. Len(engines'[s]),
             InUse(s, n)', engines'[s][n].position # None
      PROVE  LET d == engines'[s][n].position IN
             /\ intents'[d].strategy = s
             /\ \/ positions'[d] = "open"
                \/ /\ loop'.at = "writing" /\ Current'.kind = "entry"
                   /\ Current'.intent = d
                   /\ Current'.strategy = s /\ Current'.engine = n
  <2> DEFINE d == engines[s][n].position
  <2>1. /\ n \in 1 .. Len(engines[s]) /\ engines'[s][n].position = d /\ d # None
    BY <1>1 DEF NoNewHolds
  <2>2. d \in Intents
    BY <2>1, PositionTypes
  <2>6. InUse(s, n)
    BY <1>1, <2>1 DEF NoneRevived
  <2>3. /\ intents[d].strategy = s
        /\ \/ positions[d] = "open"
           \/ /\ loop.at = "writing" /\ Current.kind = "entry"
              /\ Current.intent = d
              /\ Current.strategy = s /\ Current.engine = n
    BY <2>1, <2>6 DEF HoldInv
  <2>4. CASE positions[d] = "open"
    BY <2>1, <2>2, <2>3, <2>4 DEF OpenKept
  <2>5. CASE positions[d] # "open"
    <3>1. InHand
      BY <2>3, <2>5 DEF InHand, Engine
    <3>2. loop' = loop /\ intents' = intents /\ Current' = Current
      BY <3>1 DEF Current
    <3> QED
      BY <2>1, <2>3, <2>5, <3>2
  <2> QED
    BY <2>4, <2>5
<1>2. ASSUME NEW s \in Strategies, NEW m \in 1 .. Len(engines'[s]),
             NEW n \in 1 .. Len(engines'[s]), InUse(s, m)', InUse(s, n)',
             engines'[s][m].position = engines'[s][n].position,
             engines'[s][m].position # None
      PROVE  m = n
  <2>1. /\ m \in 1 .. Len(engines[s]) /\ n \in 1 .. Len(engines[s])
        /\ engines[s][m].position = engines[s][n].position
        /\ engines[s][m].position # None
    BY <1>2 DEF NoNewHolds
  <2>2. InUse(s, m) /\ InUse(s, n)
    BY <1>2, <2>1 DEF NoneRevived
  <2> QED
    BY <2>1, <2>2 DEF HoldInv
<1> QED
  BY <1>1, <1>2 DEF HoldInv

\* The call in progress goes on with signals and decisions it has.
QueueShrinks ==
  /\ loop'.signals \subseteq loop.signals
  /\ \A k \in 1 .. Len(loop'.decisions) :
       \E l \in 1 .. Len(loop.decisions) :
         loop'.decisions[k] = loop.decisions[l]

LEMMA ShrinksRevivesNone ==
  ASSUME QueueShrinks, running' = running
  PROVE  NoneRevived
BY DEF QueueShrinks, NoneRevived, InUse, InQueue

LEMMA NextShrinks ==
  ASSUME LoopInv, loop.at \in Deciding, NextDecision
  PROVE  QueueShrinks
<1> DEFINE next == Tail(loop.decisions)
<1>1. loop'.decisions = next /\ loop'.signals = loop.signals
  BY DEF NextDecision, LoopInv, LoopType
<1>2. /\ Len(loop.decisions) \in Nat \ {0}
      /\ Len(next) = Len(loop.decisions) - 1
      /\ \A k \in 1 .. Len(next) : next[k] = loop.decisions[k + 1]
  BY DecisionTypes, HeadTailProperties
<1> HIDE DEF next
<1>3. \A k \in 1 .. Len(next) : k + 1 \in 1 .. Len(loop.decisions)
  BY <1>2
<1> QED
  BY <1>1, <1>2, <1>3 DEF QueueShrinks

LEMMA EscapeShrinks == loop' = IdleLoop => QueueShrinks
<1> SUFFICES ASSUME loop' = IdleLoop PROVE QueueShrinks
  OBVIOUS
<1>1. loop'.signals = {} /\ Len(loop'.decisions) = 0
  BY DEF IdleLoop
<1> QED
  BY <1>1 DEF QueueShrinks

LEMMA SameShrinks ==
  loop'.signals = loop.signals /\ loop'.decisions = loop.decisions
    => QueueShrinks
BY DEF QueueShrinks

\* An admitted or a refused signal becomes a decision for the same engine.
LEMMA DecidedRevivesNone ==
  ASSUME LoopInv, NEW signal \in loop.signals, NEW i \in Intents \cup {None},
         Decided(signal, i), running' = running
  PROVE  NoneRevived
<1> DEFINE new == [kind |-> signal.kind, strategy |-> signal.strategy,
                   engine |-> signal.engine, position |-> signal.position,
                   intent |-> i]
           n == Len(loop.decisions)
           next == Append(loop.decisions, new)
<1>1. loop'.signals = loop.signals \ {signal} /\ loop'.decisions = next
  BY DEF Decided, LoopInv, LoopType
<1>2. new.strategy = signal.strategy /\ new.engine = signal.engine
  OBVIOUS
<1>3. loop.decisions \in Seq(Decisions) /\ n \in Nat /\ new \in Decisions
  BY QueueTypes DEF LoopInv, LoopType, Signals, Decisions
<1> HIDE DEF new
<1>4. /\ Len(next) = n + 1 /\ next[n + 1] = new
      /\ \A k \in 1 .. n : next[k] = loop.decisions[k]
  BY <1>3, AppendProperties
<1> HIDE DEF next, n
<1>5. \A k \in 1 .. n + 1 : k = n + 1 \/ k \in 1 .. n
  BY <1>3
<1> SUFFICES ASSUME NEW s \in Strategies, NEW m \in 1 .. Len(engines[s]),
                    InQueue(s, m)'
             PROVE  InQueue(s, m)
  BY DEF NoneRevived, InUse
<1>6. CASE \E g \in loop'.signals : g.strategy = s /\ g.engine = m
  BY <1>1, <1>6 DEF InQueue
<1>7. ASSUME NEW k \in 1 .. Len(loop'.decisions),
             loop'.decisions[k].strategy = s, loop'.decisions[k].engine = m
      PROVE  InQueue(s, m)
  <2>1. k = n + 1 \/ k \in 1 .. n
    BY <1>1, <1>4, <1>5
  <2> QED
    BY <1>1, <1>2, <1>4, <1>7, <2>1 DEF InQueue, n
<1> QED
  BY <1>6, <1>7 DEF InQueue

LEMMA SameHolds == engines' = engines => NoNewHolds /\ KeepsObjects
BY DEF NoNewHolds, KeepsObjects

LEMMA DroppedKept ==
  ASSUME NoneRevived, KeepsObjects, NoNewHolds, NEW i \in Intents
  PROVE  Dropped(i) => Dropped(i)'
<1> SUFFICES ASSUME Dropped(i), NEW t \in Strategies,
                    NEW m \in 1 .. Len(engines'[t]), InUse(t, m)'
             PROVE  engines'[t][m].position # i
  BY DEF Dropped
<1>1. m \in 1 .. Len(engines[t]) /\ InUse(t, m)
  BY DEF KeepsObjects, NoneRevived
<1>2. engines[t][m].position # i /\ i # None
  BY <1>1, NoneIsNoIntent DEF Dropped
<1> QED
  BY <1>2 DEF NoNewHolds

LEMMA LetGo ==
  ASSUME EngineInv, LoopInv, QueueInv, loop.at \in Deciding,
         engines' = SetPosition(None)
  PROVE  NoNewHolds /\ KeepsObjects
BY PositionSet DEF NoNewHolds, KeepsObjects

LEMMA KeptRest ==
  ASSUME RestInv, UNCHANGED <<intents, entries, positions>>, up' = up,
         ~InFlight
  PROVE  RestInv'
<1>1. \A i \in Intents : AtRest(i) => AtRest(i)'
  BY DEF AtRest, Reviewed, OpenRow
<1> QED
  BY <1>1 DEF RestInv

LEMMA KeptHolds ==
  ASSUME EngineInv, HoldInv, NoneRevived, UNCHANGED engines, OpenKept,
         loop.at # "writing"
  PROVE  HoldInv'
BY HoldKeeps, SameHolds DEF InHand

-----------------------------------------------------------------------------
(* From a price to the decisions.                                          *)

LEMMA InitRisk == Init => RiskInv
<1> SUFFICES ASSUME Init PROVE RiskInv
  OBVIOUS
<1>1. RowInv
  BY NoneIsNoIntent
     DEF Init, RowInv, RowsAgree, RowsAgreeOwn, Foreign, Unsent, OpenStates, Absent
<1>2. RestInv
  BY DEF Init, RestInv, AtRest, Unsent
<1>3. \A s \in Strategies : Len(engines[s]) = 0
  BY DEF Init
<1>4. HoldInv
  BY <1>3 DEF HoldInv
<1>5. loop.at = "idle" /\ loop.signals = {} /\ Len(loop.decisions) = 0
      /\ loop.decisions = <<>>
  BY DEF Init, IdleLoop
<1>6. SignalInv /\ QueueInv /\ WorkInv
  BY <1>5 DEF SignalInv, QueueInv, WorkInv
<1> QED
  BY <1>1, <1>2, <1>4, <1>6 DEF RiskInv

LEMMA EvaluateRisk ==
  IInv /\ RiskInv /\ NoneRevived /\ EvaluatePrice => RiskInv'
<1> SUFFICES ASSUME IInv, RiskInv, NoneRevived, EvaluatePrice PROVE RiskInv'
  OBVIOUS
<1> USE PartsOfIInv DEF RiskInv
<1>1. /\ loop.at = "idle" /\ up /\ ~InFlight
      /\ UNCHANGED <<rows, deals, engines, running, up>>
  BY DEF EvaluatePrice, InFlight
<1>2. RowInv' /\ RestInv' /\ HoldInv'
  BY <1>1, AllRows, KeptRest, KeptHolds DEF rows, OpenKept
<1>3. PICK S \in SUBSET {s \in Strategies :
             /\ running[s] # 0
             /\ \/ MayEnter(engines[s][running[s]])
                \/ MayExit(engines[s][running[s]])} :
        loop' = [loop EXCEPT !.at = "deciding",
                             !.signals = {Signal(s) : s \in S}]
  BY DEF EvaluatePrice
<1>4. /\ loop'.at = "deciding" /\ loop'.signals = {Signal(s) : s \in S}
      /\ loop'.decisions = <<>> /\ Len(loop'.decisions) = 0
  BY <1>1, <1>3 DEF LoopInv, LoopType, QueueInv
<1>5. ASSUME NEW s \in S
      PROVE  Faithful(Signal(s)) /\ Signal(s).strategy = s
  <2>1. /\ s \in Strategies /\ running[s] # 0
        /\ \/ MayEnter(engines[s][running[s]])
           \/ MayExit(engines[s][running[s]])
    BY <1>3
  <2>2. running[s] \in 1 .. Len(engines[s])
    BY <2>1, LenProperties
       DEF EngineInv, EngineTypes, RunningEngineExists
  <2> QED
    BY <2>1, <2>2 DEF Faithful, Signal, MayExit
<1>6. \A g \in loop'.signals : Faithful(g)'
  BY <1>1, <1>4, <1>5 DEF Faithful
<1>7. \A g, h \in loop'.signals : g.strategy = h.strategy => g = h
  BY <1>4, <1>5
<1>8. SignalInv'
  BY <1>4, <1>6, <1>7 DEF SignalInv
<1>9. QueueInv' /\ WorkInv'
  BY <1>1, <1>4 DEF QueueInv, WorkInv
<1> QED
  BY <1>2, <1>8, <1>9

\* What becomes of a decision when nothing it relies on has changed.
LEMMA PromiseKept ==
  ASSUME NEW d, Promised(d), engines' = engines, positions' = positions,
         d.intent # None => intents'[d.intent] = intents[d.intent]
  PROVE  \A e : e = d => Promised(e)'
BY DEF Promised, OpenRow

LEMMA DecidedQueue ==
  ASSUME LoopInv, SignalInv, QueueInv, loop.at \in {"deciding", "reviewing"},
         NEW signal \in loop.signals, NEW i \in Intents \cup {None},
         Decided(signal, i), UNCHANGED <<engines, up>>,
         \A k \in 1 .. Len(loop.decisions) : \A e :
           e = loop.decisions[k] => Promised(e)',
         \A e : e.strategy = signal.strategy /\ e.kind = signal.kind
                  /\ e.engine = signal.engine /\ e.position = signal.position
                  /\ e.intent = i => Promised(e)',
         i # None => \A k \in 1 .. Len(loop.decisions) :
                       loop.decisions[k].intent = None
  PROVE  SignalInv' /\ QueueInv' /\ WorkInv'
<1> DEFINE new == [kind |-> signal.kind, strategy |-> signal.strategy,
                   engine |-> signal.engine, position |-> signal.position,
                   intent |-> i]
           n == Len(loop.decisions)
           next == Append(loop.decisions, new)
<1>1. /\ loop'.signals = loop.signals \ {signal}
      /\ loop'.decisions = next
      /\ loop'.at = IF loop.signals = {signal} THEN "orchestrating"
                                               ELSE "deciding"
  BY DEF Decided, LoopInv, LoopType
<1>2. /\ new.strategy = signal.strategy /\ new.kind = signal.kind
      /\ new.engine = signal.engine /\ new.position = signal.position
      /\ new.intent = i
  OBVIOUS
<1> HIDE DEF new
<1>3. loop.decisions \in Seq(Decisions) /\ n \in Nat
  BY QueueTypes
<1>4. signal \in Signals
  BY DEF LoopInv, LoopType
<1>5. new \in Decisions
  BY <1>4 DEF new, Signals, Decisions
<1>6. /\ Len(next) = n + 1 /\ next[n + 1] = new
      /\ \A k \in 1 .. n : next[k] = loop.decisions[k]
  BY <1>3, <1>5, AppendProperties
<1> HIDE DEF next, n
<1>7. \A k \in 1 .. n + 1 : k = n + 1 \/ k \in 1 .. n
  BY <1>3
<1>8. /\ Faithful(signal)
      /\ \A k \in 1 .. n : loop.decisions[k].strategy # signal.strategy
      /\ \A g \in loop.signals : g.strategy = signal.strategy => g = signal
  BY DEF SignalInv, n
<1>9. SignalInv'
  <2>1. loop'.at # "deciding" => loop'.signals = {}
    BY <1>1
  <2>2. \A g \in loop'.signals : g \in loop.signals /\ g # signal
    BY <1>1
  <2>3. \A g \in loop'.signals : Faithful(g)'
    BY <2>2 DEF SignalInv, Faithful
  <2>4. \A g, h \in loop'.signals : g.strategy = h.strategy => g = h
    BY <2>2 DEF SignalInv
  <2>5. ASSUME NEW g \in loop'.signals, NEW k \in 1 .. Len(loop'.decisions)
        PROVE  loop'.decisions[k].strategy # g.strategy
    <3>1. k = n + 1 \/ k \in 1 .. n
      BY <1>1, <1>6, <1>7
    <3>2. CASE k = n + 1
      BY <1>1, <1>2, <1>6, <1>8, <2>2, <3>2
    <3>3. CASE k \in 1 .. n
      BY <1>1, <1>6, <2>2, <3>3 DEF SignalInv, n
    <3> QED
      BY <3>1, <3>2, <3>3
  <2> QED
    BY <2>1, <2>3, <2>4, <2>5 DEF SignalInv
<1>10. WorkInv'
  BY <1>1 DEF WorkInv
<1>11. ASSUME NEW k \in 1 .. Len(next)
       PROVE  /\ next[k].engine \in 1 .. Len(engines'[next[k].strategy])
              /\ \A e : e = next[k] => Promised(e)'
  <2>1. k = n + 1 \/ k \in 1 .. n
    BY <1>6, <1>7
  <2>2. CASE k = n + 1
    BY <1>2, <1>6, <1>8, <2>2 DEF Faithful
  <2>3. CASE k \in 1 .. n
    BY <1>6, <2>3 DEF QueueInv, n
  <2> QED
    BY <2>1, <2>2, <2>3
<1>12. ASSUME NEW k \in 1 .. Len(next), NEW l \in 1 .. Len(next),
              \/ next[k].strategy = next[l].strategy
              \/ next[k].intent # None /\ next[l].intent # None
       PROVE  k = l
  <2>1. (k = n + 1 \/ k \in 1 .. n) /\ (l = n + 1 \/ l \in 1 .. n)
    BY <1>6, <1>7
  <2>2. CASE k \in 1 .. n /\ l \in 1 .. n
    BY <1>6, <1>12, <2>2 DEF QueueInv, n
  <2>3. ASSUME NEW m \in 1 .. n
        PROVE  /\ next[m].strategy # next[n + 1].strategy
               /\ next[m].intent = None \/ next[n + 1].intent = None
    BY <1>2, <1>6, <1>8 DEF n
  <2> QED
    BY <1>12, <2>1, <2>2, <2>3
<1>13. up /\ up' /\ loop'.at # "idle"
  BY <1>1 DEF QueueInv
<1>14. \A k \in 1 .. Len(loop'.decisions) : Promised(loop.decisions[k])'
  BY <1>1, <1>11
<1>15. QueueInv'
  BY <1>1, <1>11, <1>12, <1>13, <1>14 DEF QueueInv
<1> QED
  BY <1>9, <1>10, <1>15

\* Between two decisions every intent is at rest, and every decision in the
\* queue is promised.
LEMMA Deliberating ==
  ASSUME LoopInv, RestInv, SignalInv, QueueInv,
         loop.at \in {"deciding", "reviewing"}
  PROVE  /\ up /\ ~InFlight /\ \A i \in Intents : AtRest(i)
         /\ \A k \in 1 .. Len(loop.decisions) : Promised(loop.decisions[k])
BY DEF QueueInv, RestInv, InFlight, Begun

LEMMA RefuseRisk ==
  ASSUME IInv, RiskInv, NoneRevived,
         NEW signal \in loop.signals, RefuseEntry(signal)
  PROVE  RiskInv'
<1> USE PartsOfIInv DEF RiskInv
<1>1. /\ loop.at = "deciding" /\ Decided(signal, None)
      /\ UNCHANGED <<rows, deals, engines, running, up>>
  BY DEF RefuseEntry
<1>2. RowInv' /\ RestInv' /\ HoldInv'
  BY <1>1, Deliberating, AllRows, KeptRest, KeptHolds DEF rows, OpenKept
<1>3. \A k \in 1 .. Len(loop.decisions) : \A e :
        e = loop.decisions[k] => Promised(e)'
  BY <1>1, Deliberating, PromiseKept DEF rows
<1>4. \A e : e.intent = None => Promised(e)'
  BY DEF Promised
<1> QED
  BY <1>1, <1>2, <1>3, <1>4, DecidedQueue

\* An open row has an owner, and so has what was approved.
LEMMA PromisedOwns ==
  ASSUME NEW d \in Decisions, Promised(d), d.intent \in Intents
  PROVE  d.intent \in Active
BY NoneIsNoIntent DEF Promised, OpenRow, Closeable, Active,
                      ActiveOwnershipStates, Decisions

LEMMA ProposeRisk ==
  ASSUME IInv, RiskInv, NoneRevived,
         NEW signal \in loop.signals, ProposeEntry(signal)
  PROVE  RiskInv'
<1> USE PartsOfIInv DEF RiskInv
<1>1. /\ loop.at = "deciding" /\ Active = {} /\ Proceed("reviewing")
      /\ UNCHANGED <<entries, closes, positions, trades, deals, engines,
                     running, up>>
  BY DEF ProposeEntry, Unowned
<1>2. PICK i \in Unused :
        intents' = [intents EXCEPT ![i].state = "PROPOSED",
                                   ![i].strategy = signal.strategy]
  BY DEF ProposeEntry
<1>3. /\ i \in Intents /\ intents[i].state = Absent
      /\ intents'[i].state = "PROPOSED"
      /\ intents'[i].strategy = signal.strategy
      /\ intents'[i].reference = intents[i].reference
      /\ \A j \in Intents \ {i} : intents'[j] = intents[j]
      /\ signal.strategy \in Strategies
  BY <1>2 DEF Unused, IntentInv, IntentTypes, LoopInv, LoopType, Signals
<1>4. RowsAgreeOwn(i) /\ positions[i] # "open"
  BY <1>3, OwnRow DEF RowsAgreeOwn, OpenStates, Unsent, Absent
<1>5. RowsAgree(i)'
  BY <1>1, <1>3, <1>4 DEF RowsAgree, RowsAgreeOwn, Unsent, OpenStates, Absent
<1>6. RowInv'
  BY <1>1, <1>3, <1>5, OneRow DEF Same
<1>7. RestInv'
  <2>1. ASSUME NEW j \in Intents PROVE AtRest(j)'
    <3>1. CASE j = i
      BY <1>3, <3>1 DEF AtRest, Unsent
    <3>2. CASE j # i
      BY <1>1, <1>3, <3>2, Deliberating, SameRest
    <3> QED
      BY <3>1, <3>2
  <2> QED
    BY <2>1 DEF RestInv
<1>8. HoldInv'
  BY <1>1, <1>3, <1>4, KeptHolds DEF OpenKept
<1>9. /\ loop'.at = "reviewing" /\ loop'.signals = loop.signals
      /\ loop'.decisions = loop.decisions
  BY <1>1 DEF Proceed, LoopInv, LoopType
<1>10. SignalInv'
  BY <1>1, <1>9 DEF SignalInv, Faithful
<1>11. \A k \in 1 .. Len(loop.decisions) : loop.decisions[k].intent = None
  BY <1>1, Deliberating, PromisedOwns, QueueTypes DEF Decisions
<1>12. \A k \in 1 .. Len(loop'.decisions) : Promised(loop.decisions[k])'
  BY <1>9, <1>11 DEF Promised
<1>13. QueueInv' /\ WorkInv'
  BY <1>1, <1>9, <1>12, Deliberating DEF QueueInv, WorkInv
<1> QED
  BY <1>6, <1>7, <1>8, <1>10, <1>13

LEMMA ReviewRisk ==
  ASSUME IInv, RiskInv, NoneRevived,
         NEW signal \in loop.signals, NEW i \in Intents,
         ReviewEntry(signal, i)
  PROVE  RiskInv'
<1> USE PartsOfIInv DEF RiskInv
<1>1. /\ loop.at = "reviewing" /\ signal.kind = "entry"
      /\ intents[i].state = "PROPOSED"
      /\ intents[i].strategy = signal.strategy
      /\ UNCHANGED <<entries, closes, positions, trades, deals, engines,
                     running, up>>
  BY DEF ReviewEntry, Signalled
<1>2. PICK to \in {"APPROVED", "REJECTED"} :
        /\ SetIntent(i, to)
        /\ \/ to = "APPROVED" /\ Active = {i} /\ Decided(signal, i)
           \/ to = "REJECTED" /\ Decided(signal, None)
  BY <1>1 DEF ReviewEntry
<1>3. /\ intents'[i].state = to
      /\ intents'[i].strategy = intents[i].strategy
      /\ intents'[i].reference = intents[i].reference
      /\ \A j \in Intents \ {i} : intents'[j] = intents[j]
  BY <1>2 DEF SetIntent, IntentInv, IntentTypes
<1>4. RowsAgreeOwn(i) /\ positions[i] # "open"
  BY <1>1, OwnRow DEF RowsAgreeOwn, OpenStates, Unsent
<1>5. RowsAgree(i)'
  BY <1>1, <1>3, <1>4 DEF RowsAgree, RowsAgreeOwn, Unsent, OpenStates, Absent
<1>6. RowInv'
  BY <1>1, <1>3, <1>5, OneRow DEF Same
<1>7. RestInv'
  <2>1. ASSUME NEW j \in Intents PROVE AtRest(j)'
    <3>1. CASE j = i
      BY <1>3, <3>1 DEF AtRest, Unsent
    <3>2. CASE j # i
      BY <1>1, <1>3, <3>2, Deliberating, SameRest
    <3> QED
      BY <3>1, <3>2
  <2> QED
    BY <2>1 DEF RestInv
<1>8. HoldInv'
  BY <1>1, <1>3, <1>4, KeptHolds DEF OpenKept
<1>9. ASSUME NEW k \in 1 .. Len(loop.decisions)
      PROVE  /\ Promised(loop.decisions[k])
             /\ loop.decisions[k] \in Decisions
             /\ loop.decisions[k].intent # i
  <2>1. Promised(loop.decisions[k]) /\ loop.decisions[k] \in Decisions
    BY <1>1, Deliberating, QueueTypes
  <2>2. loop.decisions[k].intent # i
    BY <1>1, <2>1, NoneIsNoIntent
       DEF Promised, Decisions, OpenRow, Closeable
  <2> QED
    BY <2>1, <2>2
<1>10. \A k \in 1 .. Len(loop.decisions) : \A e :
         e = loop.decisions[k] => Promised(e)'
  BY <1>1, <1>3, <1>9, PromiseKept DEF Decisions
<1>11. CASE to = "APPROVED" /\ Active = {i} /\ Decided(signal, i)
  <2>1. \A e : e.strategy = signal.strategy /\ e.kind = signal.kind
                 /\ e.intent = i => Promised(e)'
    BY <1>1, <1>3, <1>11 DEF Promised
  <2>2. \A k \in 1 .. Len(loop.decisions) : loop.decisions[k].intent = None
    BY <1>9, <1>11, PromisedOwns DEF Decisions
  <2> QED
    BY <1>1, <1>6, <1>7, <1>8, <1>10, <1>11, <2>1, <2>2, DecidedQueue
<1>12. CASE to = "REJECTED" /\ Decided(signal, None)
  <2>1. \A e : e.intent = None => Promised(e)'
    BY DEF Promised
  <2> QED
    BY <1>1, <1>6, <1>7, <1>8, <1>10, <1>12, <2>1, DecidedQueue
<1> QED
  BY <1>2, <1>11, <1>12

LEMMA LinkRisk ==
  ASSUME IInv, RiskInv, NoneRevived,
         NEW signal \in loop.signals, LinkExit(signal)
  PROVE  RiskInv'
<1> USE PartsOfIInv DEF RiskInv
<1>1. /\ loop.at = "deciding" /\ signal.kind = "exit"
      /\ UNCHANGED <<rows, deals, engines, running, up>>
  BY DEF LinkExit, Signalled
<1>2. RowInv' /\ RestInv' /\ HoldInv'
  BY <1>1, Deliberating, AllRows, KeptRest, KeptHolds DEF rows, OpenKept
<1>3. \A k \in 1 .. Len(loop.decisions) : \A e :
        e = loop.decisions[k] => Promised(e)'
  BY <1>1, Deliberating, PromiseKept DEF rows
<1>4. CASE Decided(signal, None)
  <2>1. \A e : e.intent = None => Promised(e)'
    BY DEF Promised
  <2> QED
    BY <1>1, <1>2, <1>3, <1>4, <2>1, DecidedQueue
<1>5. ASSUME NEW i \in CloseAdmissible(signal.strategy, signal.position),
             Decided(signal, i)
      PROVE  RiskInv'
  <2>1. /\ i \in Intents /\ intents[i].state \in CloseAdmissibleStates
        /\ intents[i].strategy = signal.strategy
        /\ intents[i].reference = signal.position
    BY <1>5 DEF CloseAdmissible
  <2>2. /\ Faithful(signal) /\ signal.position # None
    BY <1>1 DEF SignalInv, Faithful
  <2>8. signal.strategy \in Strategies
    BY DEF LoopInv, LoopType, Signals
  <2>3. signal.position = i
    BY <2>1, <2>2, <2>8, OwnRow DEF RowsAgreeOwn
  <2>4. OpenRow(i)
    <3>1. AtRest(i) /\ i # None
      BY <1>1, <2>1, Deliberating, NoneIsNoIntent
    <3> QED
      BY <2>1, <2>3, <2>8, <3>1 DEF AtRest, Reviewed, Unsent, Absent,
           CloseAdmissibleStates, ProvenanceStates
  <2>5. \A e : e.strategy = signal.strategy /\ e.kind = signal.kind
                 /\ e.engine = signal.engine /\ e.position = signal.position
                 /\ e.intent = i => Promised(e)'
    BY <1>1, <2>1, <2>2, <2>3, <2>4
       DEF Promised, OpenRow, Faithful, rows
  <2>6. i \in Active
    BY <2>1, <2>4 DEF OpenRow, Closeable, Active, ActiveOwnershipStates
  <2>7. ASSUME NEW k \in 1 .. Len(loop.decisions)
        PROVE  loop.decisions[k].intent = None
    <3>1. /\ Promised(loop.decisions[k]) /\ loop.decisions[k] \in Decisions
          /\ loop.decisions[k].strategy # signal.strategy
      BY <1>1, Deliberating, QueueTypes DEF SignalInv
    <3>2. CASE loop.decisions[k].intent \in Intents
      <4>1. loop.decisions[k].intent = i
        BY <2>6, <3>1, <3>2, PromisedOwns DEF IntentInv, OneActiveOwner
      <4> QED
        BY <2>1, <3>1, <3>2, <4>1, NoneIsNoIntent DEF Promised
    <3> QED
      BY <3>1, <3>2 DEF Decisions
  <2> QED
    BY <1>1, <1>2, <1>3, <1>5, <2>1, <2>5, <2>7, DecidedQueue
<1> QED
  BY <1>4, <1>5 DEF LinkExit

LEMMA DecideRisk == IInv /\ RiskInv /\ NoneRevived /\ Decide => RiskInv'
BY RefuseRisk, ProposeRisk, ReviewRisk, LinkRisk DEF Decide

-----------------------------------------------------------------------------
(* The decisions, up to the first write of an execution.                   *)

LEMMA Orchestrating ==
  ASSUME LoopInv, RestInv, SignalInv, QueueInv,
         loop.at \in {"orchestrating", "executing"}
  PROVE  /\ up /\ ~InFlight /\ loop.at \in Deciding
         /\ \A i \in Intents : AtRest(i)
         /\ Promised(Current) /\ Current \in Decisions
         /\ Current.intent # None => Current.intent \in Intents
<1>1. Current = loop.decisions[1] /\ 1 \in 1 .. Len(loop.decisions)
  BY DecisionTypes DEF Deciding
<1>2. Current \in Decisions
  BY DecisionTypes DEF Deciding
<1> QED
  BY <1>1, <1>2 DEF QueueInv, RestInv, InFlight, Begun, Deciding, Decisions

LEMMA SkipRisk == IInv /\ RiskInv /\ NoneRevived /\ SkipDecision => RiskInv'
<1> SUFFICES ASSUME IInv, RiskInv, NoneRevived, SkipDecision PROVE RiskInv'
  OBVIOUS
<1> USE PartsOfIInv DEF RiskInv
<1>1. /\ loop.at = "orchestrating" /\ NextDecision /\ loop.at \in Deciding
      /\ engines' = SetPosition(None) \/ engines' = engines
      /\ UNCHANGED <<rows, deals, running, up>>
  BY DEF SkipDecision, Deciding
<1>2. NoNewHolds /\ KeepsObjects
  BY <1>1, LetGo, SameHolds
<1>3. RowInv' /\ RestInv' /\ HoldInv'
  BY <1>1, <1>2, Orchestrating, AllRows, KeptRest, HoldKeeps
     DEF rows, OpenKept, InHand
<1>4. ASSUME NEW k \in 2 .. Len(loop.decisions)
      PROVE  \A e : e = loop.decisions[k] => Promised(e)'
  <2> DEFINE d == loop.decisions[k]
  <2>1. /\ k \in 1 .. Len(loop.decisions) /\ k # 1
        /\ 1 \in 1 .. Len(loop.decisions) /\ Current = loop.decisions[1]
    BY <1>1, DecisionTypes
  <2>2. /\ Promised(d) /\ d.engine \in 1 .. Len(engines[d.strategy])
        /\ d.strategy \in Strategies /\ d.strategy # Current.strategy
    BY <2>1, QueueTypes DEF QueueInv, Decisions
  <2>3. engines'[d.strategy][d.engine] = engines[d.strategy][d.engine]
    BY <1>1, <2>2, PositionSet
  <2> HIDE DEF d
  <2>4. \A e : e = d => Promised(e)'
    BY <1>1, <2>2, <2>3 DEF Promised, OpenRow, rows
  <2> QED
    BY <2>4 DEF d
<1> QED
  BY <1>1, <1>2, <1>3, <1>4, NextQueue

LEMMA BlockRisk == IInv /\ RiskInv /\ NoneRevived /\ BlockEntry => RiskInv'
<1> SUFFICES ASSUME IInv, RiskInv, NoneRevived, BlockEntry PROVE RiskInv'
  OBVIOUS
<1> USE PartsOfIInv DEF RiskInv
<1>1. /\ loop.at = "orchestrating" /\ NextDecision /\ loop.at \in Deciding
      /\ Current.kind = "entry" /\ Current.intent # None
      /\ SetIntent(Current.intent, "FAILED")
      /\ UNCHANGED <<entries, closes, positions, trades, deals, engines,
                     running, up>>
  BY DEF BlockEntry, Deciding
<1>2. PICK i \in Intents :
        Current.intent = i /\ intents[i].state = "APPROVED"
  BY <1>1, Orchestrating DEF Promised
<1>3. /\ intents'[i].state = "FAILED"
      /\ intents'[i].strategy = intents[i].strategy
      /\ intents'[i].reference = intents[i].reference
      /\ \A j \in Intents \ {i} : intents'[j] = intents[j]
  BY <1>1, <1>2 DEF SetIntent, IntentInv, IntentTypes
<1>4. RowsAgreeOwn(i) /\ positions[i] # "open"
  BY <1>2, OwnRow DEF RowsAgreeOwn, OpenStates, Unsent
<1>5. RowsAgree(i)'
  BY <1>1, <1>2, <1>3, <1>4
     DEF RowsAgree, RowsAgreeOwn, Unsent, OpenStates, Absent
<1>6. RowInv'
  BY <1>1, <1>2, <1>3, <1>5, OneRow DEF Same
<1>7. RestInv'
  <2>1. ASSUME NEW j \in Intents PROVE AtRest(j)'
    <3>1. CASE j = i
      BY <1>3, <3>1 DEF AtRest
    <3>2. CASE j # i
      BY <1>1, <1>3, <3>2, Orchestrating, SameRest
    <3> QED
      BY <3>1, <3>2
  <2> QED
    BY <2>1 DEF RestInv
<1>8. HoldInv'
  BY <1>1, <1>3, <1>4, KeptHolds DEF OpenKept
<1> QED
  BY <1>1, <1>6, <1>7, <1>8, SameHolds, NextAfterAdmitted

LEMMA PrepareEntryRisk ==
  IInv /\ RiskInv /\ NoneRevived /\ PrepareEntry => RiskInv'
<1> SUFFICES ASSUME IInv, RiskInv, NoneRevived, PrepareEntry PROVE RiskInv'
  OBVIOUS
<1> USE PartsOfIInv DEF RiskInv
<1> DEFINE i == Current.intent
           s == Current.strategy
<1>1. /\ loop.at = "orchestrating" /\ loop.at \in Deciding
      /\ Current.kind = "entry" /\ i # None
      /\ UNCHANGED <<intents, closes, positions, trades, deals, engines,
                     running, up>>
  BY DEF PrepareEntry, Deciding
<1>2. RowInv' /\ HoldInv' /\ KeepsObjects
  BY <1>1, AllRows, KeptHolds, SameHolds DEF OpenKept
<1>3. /\ i \in Intents /\ intents[i].state = "APPROVED" /\ i \in Active
      /\ s \in Strategies
  BY <1>1, Orchestrating, PromisedOwns DEF Promised, Decisions
<1>4. \A j \in Intents : ~Reviewed(j)
  BY <1>3 DEF Reviewed, IntentInv, OneActiveOwner, Active,
              ActiveOwnershipStates
<1>5. RestInv'
  BY <1>1, <1>4, Orchestrating, SameRest DEF RestInv
<1>6. CASE entries' = entries /\ Escape
  BY <1>2, <1>5, <1>6, EscapeQueue DEF Escape
<1>7. CASE /\ entries' = [entries EXCEPT ![s] =
                            [status |-> Prepared(entries[s].status),
                             intent |-> i]]
           /\ ExecuteOrSuppress(entries[s].status)
  <2>1. CASE NextDecision
    BY <1>1, <1>2, <1>5, <2>1, NextAfterAdmitted
  <2>2. CASE /\ entries[s].status \notin UnsafeRetryStatuses
             /\ Proceed("executing")
    <3>1. /\ loop'.at = "executing" /\ loop'.signals = loop.signals
          /\ loop'.decisions = loop.decisions /\ Current' = Current
      BY <2>2 DEF Proceed, LoopInv, LoopType, Current
    <3>2. \A d : d = Current => Promised(d)'
      BY <1>1, Orchestrating, PromiseKept
    <3>3. entries'[s] = [status |-> "SUBMISSION_PENDING", intent |-> i]
      BY <1>3, <1>7, <2>2 DEF Prepared, RowTypes
    <3>4. WorkInv'
      BY <1>1, <3>1, <3>3 DEF WorkInv
    <3>5. SignalInv' /\ QueueInv'
      BY <1>1, <1>2, <3>1, <3>2, SameQueue DEF Deciding
    <3> QED
      BY <1>2, <1>5, <3>4, <3>5
  <2> QED
    BY <1>7, <2>1, <2>2 DEF ExecuteOrSuppress
<1> QED
  BY <1>6, <1>7 DEF PrepareEntry

LEMMA PrepareExitRisk ==
  IInv /\ RiskInv /\ NoneRevived /\ PrepareExit => RiskInv'
<1> SUFFICES ASSUME IInv, RiskInv, NoneRevived, PrepareExit PROVE RiskInv'
  OBVIOUS
<1> USE PartsOfIInv DEF RiskInv
<1> DEFINE d == Current.position
<1>1. /\ loop.at = "orchestrating" /\ loop.at \in Deciding
      /\ Current.kind = "exit" /\ Current.intent # None
      /\ UNCHANGED <<intents, entries, positions, trades, deals, engines,
                     running, up>>
  BY DEF PrepareExit, Deciding
<1>2. RowInv' /\ HoldInv' /\ RestInv' /\ KeepsObjects
  BY <1>1, Orchestrating, AllRows, KeptHolds, KeptRest, SameHolds DEF OpenKept
<1>3. d \in Intents
  BY <1>1, Orchestrating DEF Promised
<1>4. CASE closes' = closes /\ Escape
  BY <1>2, <1>4, EscapeQueue DEF Escape
<1>5. CASE /\ closes' = [closes EXCEPT ![d] = Prepared(closes[d])]
           /\ ExecuteOrSuppress(closes[d])
  <2>1. CASE NextDecision
    BY <1>1, <1>2, <2>1, NextAfterAdmitted
  <2>2. CASE closes[d] \notin UnsafeRetryStatuses /\ Proceed("executing")
    <3>1. /\ loop'.at = "executing" /\ loop'.signals = loop.signals
          /\ loop'.decisions = loop.decisions /\ Current' = Current
      BY <2>2 DEF Proceed, LoopInv, LoopType, Current
    <3>2. \A e : e = Current => Promised(e)'
      BY <1>1, Orchestrating, PromiseKept
    <3>3. closes'[d] = "SUBMISSION_PENDING"
      BY <1>3, <1>5, <2>2 DEF Prepared, RowTypes
    <3>4. WorkInv'
      BY <1>1, <3>1, <3>3 DEF WorkInv
    <3>5. SignalInv' /\ QueueInv'
      BY <1>1, <1>2, <3>1, <3>2, SameQueue DEF Deciding
    <3> QED
      BY <1>2, <3>4, <3>5
  <2> QED
    BY <1>5, <2>1, <2>2 DEF ExecuteOrSuppress
<1> QED
  BY <1>4, <1>5 DEF PrepareExit

LEMMA OrchestrateRisk ==
  IInv /\ RiskInv /\ NoneRevived /\ Orchestrate => RiskInv'
BY SkipRisk, BlockRisk, PrepareEntryRisk, PrepareExitRisk DEF Orchestrate

-----------------------------------------------------------------------------
(* The plan of a call, from its first write.                               *)

\* The rows, the engines and the decision at hand make the stage.
LEMMA SameStage ==
  ASSUME UNCHANGED <<rows, engines>>, Current' = Current, NoneRevived,
         NEW stage, At(stage)
  PROVE  \A other : other = stage => At(other)'
<1> SUFFICES ASSUME NEW other, other = stage PROVE At(other)'
  OBVIOUS
<1>1. CASE Current.kind = "entry"
  BY <1>1 DEF At, EntryAt, EntryStage, rows
<1>2. CASE Current.kind # "entry"
  <2>1. Dropped(Current.intent) => Dropped(Current.intent)'
    BY DEF Dropped, NoneRevived
  <2> QED
    BY <1>2, <2>1 DEF At, ExitAt, ExitStage, rows
<1> QED
  BY <1>1, <1>2

LEMMA PlanBegins ==
  ASSUME NEW plan \in Plans, Current' = Current, loop'.at = "writing",
         loop'.todo = plan.script, deals'[Current.intent] \in plan.deals,
         \A stage : stage = plan.trace[1] => At(stage)'
  PROVE  WorkInv'
<1>1. plan.script \in Seq(Writes) /\ plan.script # <<>>
  BY PlanScripts DEF Plans
<1>2. 1 \in 1 .. Len(plan.script) /\ loop'.todo = Rest(plan.script, 1)
  BY <1>1, WholeScript
<1>3. plan \in Plans'
  BY DEF Plans
<1>4. \A k : k = 1 => OnPlan(plan, k)'
  BY <1>2 DEF OnPlan
<1>5. \A k : k = 1 => At(plan.trace[k])'
  OBVIOUS
<1>6. \E p \in Plans' : \E k \in 1 .. Len(p.script) :
        OnPlan(p, k)' /\ At(p.trace[k])'
  BY <1>2, <1>3, <1>4, <1>5
<1> QED
  BY <1>6 DEF WorkInv

LEMMA SameWorkAtHand ==
  ASSUME LoopInv, loop.at \in Deciding, NEW label \in Labels, NEW todo,
         Guarded(label, todo)
  PROVE  /\ loop'.at = label /\ loop'.todo = todo
         /\ loop'.decisions = loop.decisions
         /\ loop'.signals = loop.signals /\ Current' = Current
BY DEF Guarded, LoopInv, LoopType, Current

LEMMA ExecuteEntryRisk ==
  IInv /\ RiskInv /\ NoneRevived /\ ExecuteEntry => RiskInv'
<1> SUFFICES ASSUME IInv, RiskInv, NoneRevived, ExecuteEntry PROVE RiskInv'
  OBVIOUS
<1> USE PartsOfIInv DEF RiskInv
<1>1. /\ loop.at = "executing" /\ loop.at \in Deciding
      /\ Current.kind = "entry" /\ UNCHANGED <<rows, deals, engines, running, up>>
  BY DEF ExecuteEntry, Deciding
<1>2. RowInv' /\ HoldInv' /\ RestInv' /\ KeepsObjects
  BY <1>1, Orchestrating, AllRows, KeptHolds, KeptRest, SameHolds
     DEF OpenKept, rows
<1>3. Current.intent \in Intents /\ Current.intent # None
  BY <1>1, CurrentTypes DEF Working
<1>4. /\ Promised(Current)
      /\ intents[Current.intent].state = "APPROVED"
      /\ intents[Current.intent].strategy = Current.strategy
  BY <1>1, <1>3, Orchestrating DEF Promised
<1>5. /\ deals[Current.intent] = "none" /\ trades[Current.intent] = 0
      /\ intents[Current.intent].reference = None
      /\ positions[Current.intent] = Absent
  BY <1>3, <1>4, OwnRow DEF RowsAgreeOwn, Unsent, OpenStates, RowTypes
<1>6. Engine.position # Current.intent
  BY <1>1, <1>3, <1>5, EngineAtHand, InUseAtHand DEF HoldInv, Engine, Absent
<1>7. EntryAt(Stage("SUBMISSION_PENDING", {"APPROVED"}, 0))
  BY <1>1, <1>4, <1>5, <1>6 DEF EntryAt, EntryStage, Engine, Stage, WorkInv
<1>8. CASE Guarded("handling", <<>>)
  <2>1. /\ loop'.at = "handling" /\ loop'.decisions = loop.decisions
        /\ loop'.signals = loop.signals /\ Current' = Current
    BY <1>1, <1>8, SameWorkAtHand DEF Labels
  <2>2. SignalInv' /\ QueueInv'
    BY <1>1, <1>2, <1>3, <2>1, SameQueue DEF Deciding
  <2>3. WorkInv'
    BY <1>1, <1>4, <2>1 DEF WorkInv, rows
  <2> QED
    BY <1>2, <2>2, <2>3
<1>9. ASSUME NEW plan \in {BlockedEntryPlan, SubmitEntryPlan},
             Guarded("writing", plan.script)
      PROVE  RiskInv'
  <2>1. /\ loop'.at = "writing" /\ loop'.decisions = loop.decisions
        /\ loop'.signals = loop.signals /\ Current' = Current
        /\ loop'.todo = plan.script
    BY <1>1, <1>9, SameWorkAtHand DEF Labels
  <2>2. SignalInv' /\ QueueInv'
    BY <1>1, <1>2, <1>3, <2>1, SameQueue DEF Deciding
  <2>3. /\ plan \in Plans /\ plan.deals = {"none"}
        /\ plan.trace[1] = Stage("SUBMISSION_PENDING", {"APPROVED"}, 0)
    BY <1>1 DEF Plans, EntryPlans, BlockedEntryPlan, SubmitEntryPlan
  <2>4. At(plan.trace[1])
    BY <1>1, <1>7, <2>3 DEF At
  <2>5. WorkInv'
    BY <1>1, <1>5, <2>1, <2>3, <2>4, SameStage, PlanBegins
  <2> QED
    BY <1>2, <2>2, <2>5
<1>10. /\ BlockedEntryPlan.script = BlockedEntry
       /\ SubmitEntryPlan.script = SubmitEntry
  BY DEF BlockedEntryPlan, SubmitEntryPlan
<1>11. \/ Guarded("handling", <<>>) \/ Guarded("writing", BlockedEntry)
       \/ Guarded("writing", SubmitEntry)
  BY DEF ExecuteEntry
<1> QED
  BY <1>8, <1>9, <1>10, <1>11

LEMMA ExecuteExitRisk ==
  IInv /\ RiskInv /\ NoneRevived /\ ExecuteExit => RiskInv'
<1> SUFFICES ASSUME IInv, RiskInv, NoneRevived, ExecuteExit PROVE RiskInv'
  OBVIOUS
<1> USE PartsOfIInv DEF RiskInv
<1>1. /\ loop.at = "executing" /\ loop.at \in Deciding
      /\ Current.kind = "exit" /\ UNCHANGED <<rows, deals, engines, running, up>>
  BY DEF ExecuteExit, Deciding
<1>2. RowInv' /\ HoldInv' /\ RestInv' /\ KeepsObjects
  BY <1>1, Orchestrating, AllRows, KeptHolds, KeptRest, SameHolds
     DEF OpenKept, rows
<1>3. Current.intent \in Intents /\ Current.intent # None
  BY <1>1, CurrentTypes DEF Working
<1>4. /\ Current.position = Current.intent /\ OpenRow(Current.intent)
      /\ Engine.position = Current.intent
  BY <1>1, <1>3, Orchestrating DEF Promised, Engine
<1>5. trades[Current.intent] = 0 /\ deals[Current.intent] \in DealStates
  BY <1>3, <1>4 DEF RowInv, RowsAgree, RowsAgreeOwn, Foreign, OpenRow, RowTypes
<1>6. ExitAt(Stage("SUBMISSION_PENDING", Closeable, 0))
  BY <1>1, <1>4, <1>5 DEF ExitAt, ExitStage, Engine, Stage, WorkInv,
                                      OpenRow
<1>7. ASSUME NEW plan \in {BlockedExitPlan, SubmitExitPlan},
             Guarded("writing", plan.script)
      PROVE  RiskInv'
  <2>1. /\ loop'.at = "writing" /\ loop'.decisions = loop.decisions
        /\ loop'.signals = loop.signals /\ Current' = Current
        /\ loop'.todo = plan.script
    BY <1>1, <1>7, SameWorkAtHand DEF Labels
  <2>2. SignalInv' /\ QueueInv'
    BY <1>1, <1>2, <1>3, <2>1, SameQueue DEF Deciding
  <2>3. /\ plan \in Plans /\ plan.deals = DealStates
        /\ plan.trace[1] = Stage("SUBMISSION_PENDING", Closeable, 0)
    BY <1>1 DEF Plans, ExitPlans, BlockedExitPlan, SubmitExitPlan
  <2>4. At(plan.trace[1])
    BY <1>1, <1>6, <2>3 DEF At
  <2>5. WorkInv'
    BY <1>1, <1>5, <2>1, <2>3, <2>4, SameStage, PlanBegins
  <2> QED
    BY <1>2, <2>2, <2>5
<1>8. /\ BlockedExitPlan.script = BlockedExit
      /\ SubmitExitPlan.script = SubmitExit
  BY DEF BlockedExitPlan, SubmitExitPlan
<1>9. intents[Current.intent].state \in CloseAdmissibleStates
  BY <1>4 DEF OpenRow, Closeable, CloseAdmissibleStates
<1>10. Guarded("writing", BlockedExit) \/ Guarded("writing", SubmitExit)
  BY <1>3, <1>4, <1>9 DEF ExecuteExit
<1> QED
  BY <1>7, <1>8, <1>10

LEMMA ExecuteRisk == IInv /\ RiskInv /\ NoneRevived /\ Execute => RiskInv'
BY ExecuteEntryRisk, ExecuteExitRisk DEF Execute

-----------------------------------------------------------------------------
(* The writes: from one stage of a plan to the next.                       *)

\* Where the write at hand stands on its plan.
LEMMA WriteAtHand ==
  ASSUME LoopInv, WorkInv, loop.at = "writing"
  PROVE  \E plan \in Plans : \E k \in 1 .. Len(plan.script) :
           /\ OnPlan(plan, k) /\ At(plan.trace[k])
           /\ Head(loop.todo) = plan.script[k]
           /\ Tail(loop.todo) = Rest(plan.script, k + 1)
           /\ Len(loop.todo) = 1 <=> k = Len(plan.script)
           /\ k # Len(plan.script) => k + 1 \in 1 .. Len(plan.script)
<1>1. PICK plan \in Plans : \E k \in 1 .. Len(plan.script) :
        OnPlan(plan, k) /\ At(plan.trace[k])
  BY DEF WorkInv
<1>2. PICK k \in 1 .. Len(plan.script) : OnPlan(plan, k) /\ At(plan.trace[k])
  BY <1>1
<1>3. plan.script \in Seq(Writes)
  BY PlanScripts DEF Plans
<1>4. /\ Len(loop.todo) = Len(plan.script) - k + 1
      /\ Head(loop.todo) = plan.script[k]
      /\ Tail(loop.todo) = Rest(plan.script, k + 1)
  BY <1>2, <1>3, RestProperties DEF OnPlan
<1>5. Len(plan.script) \in Nat
  BY <1>3, LenProperties
<1> QED
  BY <1>2, <1>4, <1>5

\* The loop after a write, on to the next one or to the next decision.
LEMMA PlanGoesOn ==
  ASSUME LoopInv, SignalInv, QueueInv, loop.at = "writing",
         NEW plan \in Plans, NEW k \in 1 .. Len(plan.script),
         Tail(loop.todo) = Rest(plan.script, k + 1),
         Len(loop.todo) = 1 <=> k = Len(plan.script),
         k # Len(plan.script) => k + 1 \in 1 .. Len(plan.script),
         \/ Written
         \/ /\ k # Len(plan.script)
            /\ loop' = [loop EXCEPT !.todo = Tail(@), !.guarded = FALSE],
         up' = up, KeepsObjects, deals'[Current.intent] \in plan.deals,
         Current' = Current =>
           \A stage : stage = plan.trace[k + 1] => At(stage)'
  PROVE  /\ SignalInv' /\ QueueInv' /\ WorkInv'
         /\ k # Len(plan.script) => loop'.at = "writing" /\ Current' = Current
<1>1. loop.at \in Deciding /\ Current.intent # None
  BY CurrentTypes DEF Deciding, Working
<1>2. CASE k = Len(plan.script)
  <2>1. NextDecision
    BY <1>2 DEF Written
  <2> QED
    BY <1>1, <1>2, <2>1, NextAfterAdmitted
<1>3. CASE k # Len(plan.script)
  <2>1. /\ loop'.at = "writing" /\ loop'.decisions = loop.decisions
        /\ loop'.signals = loop.signals /\ Current' = Current
        /\ loop'.todo = Rest(plan.script, k + 1)
    BY <1>3 DEF Written, LoopInv, LoopType, Current
  <2>2. SignalInv' /\ QueueInv'
    BY <1>1, <2>1, SameQueue DEF Deciding
  <2>3. plan \in Plans' /\ k + 1 \in 1 .. Len(plan.script)
    BY <1>3, <2>1 DEF Plans
  <2>4. \A l : l = k + 1 => OnPlan(plan, l)' /\ At(plan.trace[l])'
    BY <2>1, <2>3 DEF OnPlan
  <2>5. \E p \in Plans' : \E l \in 1 .. Len(p.script) :
          OnPlan(p, l)' /\ At(p.trace[l])'
    BY <2>3, <2>4
  <2>6. WorkInv'
    BY <2>1, <2>5 DEF WorkInv
  <2> QED
    BY <2>1, <2>2, <2>6
<1> QED
  BY <1>2, <1>3

\* What one write of an entry leaves alone, and what it makes of the engine
\* object at hand.
EntryFrame(i, s, n) ==
  /\ \A j \in Intents \ {i} : Same(j)
  /\ \A t \in Strategies \ {s} : entries'[t] = entries[t]
  /\ KeepsObjects
  /\ \A t \in Strategies : \A m \in 1 .. Len(engines[t]) :
       t # s \/ m # n => engines'[t][m].position = engines[t][m].position
  /\ engines'[s][n].position \in {engines[s][n].position, i}
  /\ positions[i] = "open" => positions'[i] = "open"
  /\ intents'[i].strategy = intents[i].strategy

LEMMA HoldEntry ==
  ASSUME EngineInv, HoldInv, NoneRevived, loop.at = "writing",
         Current.kind = "entry",
         NEW i \in Intents, NEW s \in Strategies,
         NEW n \in 1 .. Len(engines[s]),
         Current.intent = i, Current.strategy = s, Current.engine = n,
         intents[i].strategy = s, EntryFrame(i, s, n),
         engines'[s][n].position = i =>
           engines[s][n].position = i \/ positions[i] # "open",
         engines'[s][n].position = i /\ positions'[i] # "open" =>
           loop'.at = "writing" /\ Current' = Current
  PROVE  HoldInv'
<1>1. ASSUME NEW d \in Intents, positions[d] = "open"
      PROVE  positions'[d] = "open" /\ intents'[d].strategy = intents[d].strategy
  BY <1>1 DEF EntryFrame, Same
<1>2. ASSUME NEW t \in Strategies, NEW m \in 1 .. Len(engines'[t]),
             InUse(t, m)', engines'[t][m].position # None
      PROVE  LET d == engines'[t][m].position IN
             /\ intents'[d].strategy = t
             /\ \/ positions'[d] = "open"
                \/ /\ loop'.at = "writing" /\ Current'.kind = "entry"
                   /\ Current'.intent = d
                   /\ Current'.strategy = t /\ Current'.engine = m
  <2>1. m \in 1 .. Len(engines[t])
    BY DEF EntryFrame, KeepsObjects
  <2>4. InUse(t, m)
    BY <1>2, <2>1 DEF NoneRevived
  <2>2. CASE t = s /\ m = n /\ engines'[t][m].position = i
    BY <2>2 DEF EntryFrame
  <2>3. CASE ~(t = s /\ m = n /\ engines'[t][m].position = i)
    <3>1. engines'[t][m].position = engines[t][m].position
      BY <2>1, <2>3 DEF EntryFrame
    <3>2. engines[t][m].position \in Intents
      BY <1>2, <2>1, <3>1, PositionTypes
    <3>3. /\ positions[engines[t][m].position] = "open"
          /\ intents[engines[t][m].position].strategy = t
      BY <1>2, <2>1, <2>3, <2>4, <3>1 DEF HoldInv
    <3> QED
      BY <1>1, <3>1, <3>2, <3>3
  <2> QED
    BY <2>2, <2>3
<1>3. ASSUME NEW t \in Strategies, NEW m \in 1 .. Len(engines'[t]),
             NEW l \in 1 .. Len(engines'[t]), InUse(t, m)', InUse(t, l)',
             engines'[t][m].position = engines'[t][l].position,
             engines'[t][m].position # None
      PROVE  m = l
  <2>1. m \in 1 .. Len(engines[t]) /\ l \in 1 .. Len(engines[t])
    BY DEF EntryFrame, KeepsObjects
  <2>4. InUse(t, m) /\ InUse(t, l)
    BY <1>3, <2>1 DEF NoneRevived
  <2>2. CASE /\ engines'[t][m].position = engines[t][m].position
             /\ engines'[t][l].position = engines[t][l].position
    <3>1. /\ engines[t][m].position = engines[t][l].position
          /\ engines[t][m].position # None
      BY <1>3, <2>2
    <3> QED
      BY <2>1, <2>4, <3>1 DEF HoldInv
  <2>3. CASE ~(/\ engines'[t][m].position = engines[t][m].position
               /\ engines'[t][l].position = engines[t][l].position)
    <3>1. /\ t = s
          /\ (m = n) \/ (l = n)
          /\ engines'[s][n].position = i /\ engines[s][n].position # i
      BY <2>1, <2>3 DEF EntryFrame
    <3>2. positions[i] # "open" /\ i # None
      BY <3>1, NoneIsNoIntent
    <3>3. ASSUME NEW o \in 1 .. Len(engines[s]), InUse(s, o),
                 engines'[s][o].position = i
          PROVE  o = n
      <4>1. o # n => engines[s][o].position = i
        BY <3>3 DEF EntryFrame
      <4> QED
        BY <3>2, <3>3, <4>1 DEF HoldInv
    <3>4. engines'[s][m].position = i /\ engines'[s][l].position = i
      BY <1>3, <3>1
    <3> QED
      BY <2>1, <2>4, <3>1, <3>3, <3>4
  <2> QED
    BY <2>2, <2>3
<1> QED
  BY <1>2, <1>3 DEF HoldInv

\* While a call is at work on an intent, the others are at rest.
LEMMA OthersAtRest ==
  ASSUME RestInv, QueueInv, loop.at # "idle", NEW j \in Intents,
         j # Current.intent
  PROVE  AtRest(j) /\ up
BY DEF RestInv, QueueInv

\* What settles an entry leaves its intent at rest, and its engine without a
\* position or with one in an open row.
LEMMA EntrySettles ==
  ASSUME NEW i \in Intents, NEW s \in Strategies, NEW n, NEW stage,
         EntrySettled(stage)
  PROVE  /\ EntryStage(stage, i, s, n) => AtRest(i)
         /\ EntryStage(stage, i, s, n)' => AtRest(i)'
         /\ stage.progress # 2
BY DEF EntrySettled, EntryStage, AtRest, Lost, Reviewed, OpenRow, Closeable,
       Stage

\* The entry of intent i by the n-th engine object of strategy s is at write
\* k of the plan.
EntryPlace(i, s, n, plan, k) ==
  /\ loop.at = "writing" /\ Current.kind = "entry"
  /\ Current.intent = i /\ Current.strategy = s /\ Current.engine = n
  /\ Tail(loop.todo) = Rest(plan.script, k + 1)
  /\ Len(loop.todo) = 1 <=> k = Len(plan.script)
  /\ k # Len(plan.script) => k + 1 \in 1 .. Len(plan.script)
  /\ k = Len(plan.script) =>
       Leaves(Head(loop.todo)) \/ EntrySettled(plan.trace[k + 1])
  /\ deals[i] \in plan.deals
  /\ EntryStage(plan.trace[k], i, s, n)
  /\ Head(loop.todo).op \in EntryOps
  /\ EntryWrite(Head(loop.todo), plan.trace[k], plan.trace[k + 1], plan.deals)

LEMMA EntryHasPlace ==
  ASSUME IInv, RiskInv, loop.at = "writing", Current.kind = "entry"
  PROVE  \E i \in Intents, s \in Strategies : \E n \in 1 .. Len(engines[s]) :
           \E plan \in EntryPlans : \E k \in 1 .. Len(plan.script) :
             EntryPlace(i, s, n, plan, k)
<1> USE PartsOfIInv DEF RiskInv
<1>1. PICK plan \in EntryPlans : \E k \in 1 .. Len(plan.script) :
        /\ OnPlan(plan, k) /\ At(plan.trace[k])
        /\ Head(loop.todo) = plan.script[k]
        /\ Tail(loop.todo) = Rest(plan.script, k + 1)
        /\ Len(loop.todo) = 1 <=> k = Len(plan.script)
        /\ k # Len(plan.script) => k + 1 \in 1 .. Len(plan.script)
  BY WriteAtHand DEF Plans
<1>2. PICK k \in 1 .. Len(plan.script) :
        /\ OnPlan(plan, k) /\ At(plan.trace[k])
        /\ Head(loop.todo) = plan.script[k]
        /\ Tail(loop.todo) = Rest(plan.script, k + 1)
        /\ Len(loop.todo) = 1 <=> k = Len(plan.script)
        /\ k # Len(plan.script) => k + 1 \in 1 .. Len(plan.script)
  BY <1>1
<1>3. /\ Current.intent \in Intents /\ Current.strategy \in Strategies
      /\ Current.engine \in 1 .. Len(engines[Current.strategy])
  BY CurrentTypes, EngineAtHand DEF Working, Deciding
<1>4. SoundEntry(plan)
  BY PlansAreSound
<1>5. EntryPlace(Current.intent, Current.strategy, Current.engine, plan, k)
  BY <1>2, <1>4 DEF SoundEntry, EntryPlace, OnPlan, At, EntryAt
<1> QED
  BY <1>3, <1>5

LEMMA EntryProceeds ==
  ASSUME IInv, RiskInv, NoneRevived, NEW i \in Intents, NEW s \in Strategies,
         NEW n \in 1 .. Len(engines[s]),
         NEW plan \in EntryPlans, NEW k \in 1 .. Len(plan.script),
         EntryPlace(i, s, n, plan, k), ~Leaves(Head(loop.todo)),
         Written, UNCHANGED <<deals, up>>, EntryFrame(i, s, n), RowsAgree(i)',
         \A stage : stage = plan.trace[k + 1] => EntryStage(stage, i, s, n)'
  PROVE  RiskInv'
<1> USE PartsOfIInv DEF RiskInv, EntryPlace
<1>1. plan \in Plans
  BY DEF Plans
<1>2. Current' = Current =>
        \A stage : stage = plan.trace[k + 1] => At(stage)'
  BY DEF At, EntryAt
<1>3. /\ SignalInv' /\ QueueInv' /\ WorkInv'
      /\ k # Len(plan.script) => loop'.at = "writing" /\ Current' = Current
  BY <1>1, <1>2, PlanGoesOn DEF EntryFrame
<1>4. RowInv'
  BY OneRow DEF EntryFrame
<1>5. RestInv'
  <2>1. ASSUME NEW j \in Intents, j # i PROVE AtRest(j)'
    <3>1. AtRest(j)
      BY <2>1, OthersAtRest
    <3>2. Reviewed(j) => intents[j].strategy \in Strategies \ {s}
      BY <2>1 DEF Reviewed, EntryStage
    <3> QED
      BY <2>1, <3>1, <3>2, SameRest DEF EntryFrame, Same
  <2>2. AtRest(i)' \/ (InFlight' /\ i = Current'.intent)
    BY <1>3, EntrySettles DEF InFlight
  <2> QED
    BY <2>1, <2>2 DEF RestInv
<1>6. HoldInv'
  <2>1. engines'[s][n].position = i =>
          engines[s][n].position = i \/ positions[i] # "open"
    BY DEF EntryStage, Absent
  <2>2. engines'[s][n].position = i /\ positions'[i] # "open" =>
          plan.trace[k + 1].progress = 2
    BY DEF EntryStage
  <2>3. engines'[s][n].position = i /\ positions'[i] # "open" =>
          loop'.at = "writing" /\ Current' = Current
    BY <1>3, <2>2, EntrySettles
  <2>4. intents[i].strategy = s
    BY DEF EntryStage
  <2> QED
    BY <2>1, <2>3, <2>4, HoldEntry
<1> QED
  BY <1>3, <1>4, <1>5, <1>6

\* An exception, or the end of what could be written, leaves an intent that
\* is at rest to the handler, or to the next call.
LEMMA RaisedFrom ==
  ASSUME IInv, RiskInv, NoneRevived, loop.at = "writing", RaiseFrom, ~InHand,
         UNCHANGED <<rows, deals, engines, up>>,
         AtRest(Current.intent),
         IF Current.kind = "entry"
           THEN intents[Current.intent].strategy = Current.strategy
           ELSE /\ intents[Current.intent].state # "ACKNOWLEDGED"
                /\ intents[Current.intent].strategy \in Strategies
  PROVE  RiskInv'
<1> USE PartsOfIInv DEF RiskInv
<1>1. RowInv' /\ NoNewHolds /\ KeepsObjects
  BY AllRows, SameHolds DEF rows
<1>2. HoldInv'
  BY <1>1, HoldKeeps DEF OpenKept, rows
<1>3. ASSUME NEW j \in Intents PROVE AtRest(j)'
  <2>1. AtRest(j)
    BY OthersAtRest
  <2> QED
    BY <2>1, SameRest DEF rows
<1>4. RestInv'
  BY <1>3 DEF RestInv
<1>5. CASE Escape
  BY <1>1, <1>2, <1>4, <1>5, EscapeQueue DEF Escape
<1>6. CASE Proceed("handling")
  <2>1. /\ loop'.at = "handling" /\ loop'.decisions = loop.decisions
        /\ loop'.signals = loop.signals /\ Current' = Current
    BY <1>6 DEF Proceed, LoopInv, LoopType, Current
  <2>2. Current.intent # None /\ loop.at \in Deciding
    BY CurrentTypes DEF Working, Deciding
  <2>3. SignalInv' /\ QueueInv'
    BY <1>1, <2>1, <2>2, SameQueue DEF Deciding
  <2>4. WorkInv'
    BY <2>1 DEF WorkInv, rows
  <2> QED
    BY <1>1, <1>2, <1>4, <2>3, <2>4
<1> QED
  BY <1>5, <1>6 DEF RaiseFrom

LEMMA ModeSet ==
  ASSUME EngineInv, NEW s \in Strategies, NEW n \in 1 .. Len(engines[s]),
         NEW mode, engines' = [engines EXCEPT ![s][n].mode = mode]
  PROVE  /\ KeepsObjects
         /\ \A t \in Strategies : \A m \in 1 .. Len(engines[t]) :
              engines'[t][m].position = engines[t][m].position
<1> DEFINE e == [engines[s][n] EXCEPT !.mode = mode]
           object == [engines[s] EXCEPT ![n] = e]
<1>1. engines[s][n] \in EngineObjects
  BY PositionTypes
<1>2. engines' = [engines EXCEPT ![s] = object]
  OBVIOUS
<1>3. /\ engines[s] \in Seq(EngineObjects)
      /\ engines \in [Strategies -> Seq(EngineObjects)]
  BY DEF EngineInv, EngineTypes
<1>4. e.position = engines[s][n].position
  BY <1>1 DEF EngineObjects
<1> HIDE DEF e
<1>5. /\ Len(object) = Len(engines[s]) /\ object[n] = e
      /\ \A m \in 1 .. Len(engines[s]) : m # n => object[m] = engines[s][m]
  BY <1>3
<1> HIDE DEF object
<1>6. engines'[s] = object /\ \A t \in Strategies : t # s => engines'[t] = engines[t]
  BY <1>2, <1>3
<1> QED
  BY <1>4, <1>5, <1>6 DEF KeepsObjects

LEMMA EntryExecutionRisk ==
  ASSUME IInv, RiskInv, NoneRevived, NEW i \in Intents, NEW s \in Strategies,
         NEW n \in 1 .. Len(engines[s]), NEW plan \in EntryPlans,
         NEW k \in 1 .. Len(plan.script), EntryPlace(i, s, n, plan, k),
         WriteExecution
  PROVE  RiskInv'
<1> USE PartsOfIInv DEF RiskInv
<1> DEFINE from == plan.trace[k]
           to == plan.trace[k + 1]
<1>1. /\ Head(loop.todo).op = "execution"
      /\ UNCHANGED <<intents, positions, trades, deals, engines, running, up>>
  BY DEF WriteExecution, Writing
<1>2. /\ Arg \in ExecutionTransitions[from.status]
      /\ to = Stage(Arg, from.states, from.progress)
      /\ EntryStage(from, i, s, n)
      /\ Current.kind = "entry" /\ Current.strategy = s
  BY <1>1 DEF EntryPlace, EntryWrite, Arg
<1>3. CurrentStatus = from.status
  BY <1>2 DEF CurrentStatus, EntryStage
<1>4. SetExecution(Arg) /\ Written
  BY <1>2, <1>3 DEF WriteExecution
<1>5. entries' = [entries EXCEPT ![s].status = Arg]
  BY <1>2, <1>4 DEF SetExecution
<1>6. /\ entries'[s] = [status |-> Arg, intent |-> i]
      /\ \A t \in Strategies \ {s} : entries'[t] = entries[t]
  BY <1>2, <1>5 DEF EntryStage, RowTypes
<1>7. EntryFrame(i, s, n)
  BY <1>1, <1>6, SameHolds DEF EntryFrame, Same
<1>8. RowsAgree(i)'
  BY <1>1 DEF RowInv, RowsAgree, RowsAgreeOwn, Foreign
<1>9. \A stage : stage = to => EntryStage(stage, i, s, n)'
  BY <1>1, <1>2, <1>6 DEF EntryStage, Stage
<1>10. ~Leaves(Head(loop.todo))
  BY <1>1 DEF Leaves
<1> QED
  BY <1>1, <1>4, <1>7, <1>8, <1>9, <1>10, EntryProceeds

LEMMA EntryIntentRisk ==
  ASSUME IInv, RiskInv, NoneRevived, NEW i \in Intents, NEW s \in Strategies,
         NEW n \in 1 .. Len(engines[s]), NEW plan \in EntryPlans,
         NEW k \in 1 .. Len(plan.script), EntryPlace(i, s, n, plan, k),
         WriteIntent
  PROVE  RiskInv'
<1> USE PartsOfIInv DEF RiskInv
<1> DEFINE from == plan.trace[k]
           to == plan.trace[k + 1]
<1>1. /\ Head(loop.todo).op \in {"intent", "referenced"}
      /\ UNCHANGED <<entries, closes, positions, trades, deals, engines,
                     running, up>>
  BY DEF WriteIntent, Writing
<1>2. /\ Admits(from.states, Arg)
      /\ EntryStage(from, i, s, n) /\ Current.intent = i
  BY <1>1 DEF EntryPlace, EntryWrite, Arg
<1>3. MayBecome(i, Arg)
  BY <1>2 DEF EntryStage, Admits, MayBecome
<1>4. /\ intents' = [intents EXCEPT
             ![i].state = Arg,
             ![i].reference = IF Writing("referenced") THEN i ELSE @]
      /\ Written
  BY <1>2, <1>3 DEF WriteIntent
<1>5. /\ intents'[i].state = Arg
      /\ intents'[i].strategy = intents[i].strategy
      /\ intents'[i].reference = IF Writing("referenced")
                                   THEN i ELSE intents[i].reference
      /\ \A j \in Intents \ {i} : intents'[j] = intents[j]
  BY <1>4 DEF IntentInv, IntentTypes
<1>6. EntryFrame(i, s, n)
  BY <1>1, <1>5, SameHolds DEF EntryFrame, Same
<1>7. ~Leaves(Head(loop.todo))
  BY <1>1 DEF Leaves
<1>8. RowsAgreeOwn(i) /\ i # None /\ intents[i].strategy \in Strategies
  BY <1>2, NoneIsNoIntent, OwnRow DEF EntryStage
<1>9. CASE Head(loop.todo).op = "intent"
  <2>1. /\ to = Stage(from.status, {Arg}, from.progress)
        /\ from.progress < 2
        /\ \/ Arg \in {"SUBMITTED", "ACKNOWLEDGED"}
           \/ Arg \in Lost /\ NothingHeld(plan.deals)
        /\ deals[i] \in plan.deals /\ ~Writing("referenced")
    BY <1>9 DEF EntryPlace, EntryWrite, Arg, Writing
  <2>2. intents'[i].reference = intents[i].reference
    BY <1>5, <2>1
  <2>3. \A stage : stage = to => EntryStage(stage, i, s, n)'
    BY <1>1, <1>2, <1>5, <2>1, <2>2 DEF EntryStage, Stage
  <2>4. positions[i] = Absent
    BY <1>2, <2>1 DEF EntryStage
  <2>5. RowsAgree(i)'
    BY <1>1, <1>5, <1>8, <2>1, <2>2, <2>4
       DEF RowsAgree, RowsAgreeOwn, Unsent, OpenStates, Absent, Lost, NothingHeld
  <2> QED
    BY <1>1, <1>4, <1>6, <1>7, <2>3, <2>5, EntryProceeds
<1>10. CASE Head(loop.todo).op = "referenced"
  <2>1. /\ to = Stage(from.status, {Arg},
                      IF from.progress = 0 THEN 1 ELSE from.progress)
        /\ Arg \in OpenStates /\ Writing("referenced")
    BY <1>10 DEF EntryPlace, EntryWrite, Arg, Writing
  <2>2. intents'[i].reference = i
    BY <1>5, <2>1
  <2>3. \A stage : stage = to => EntryStage(stage, i, s, n)'
    BY <1>1, <1>2, <1>5, <2>1, <2>2 DEF EntryStage, Stage
  <2>4. positions[i] # "closed" /\ trades[i] = 0
    BY <1>2 DEF EntryStage, Absent
  <2>5. RowsAgree(i)'
    BY <1>1, <1>5, <1>8, <2>1, <2>2, <2>4
       DEF RowsAgree, RowsAgreeOwn, Unsent, OpenStates, Absent
  <2> QED
    BY <1>1, <1>4, <1>6, <1>7, <2>3, <2>5, EntryProceeds
<1> QED
  BY <1>1, <1>9, <1>10

LEMMA EntryEngineRisk ==
  ASSUME IInv, RiskInv, NoneRevived, NEW i \in Intents, NEW s \in Strategies,
         NEW n \in 1 .. Len(engines[s]), NEW plan \in EntryPlans,
         NEW k \in 1 .. Len(plan.script), EntryPlace(i, s, n, plan, k),
         WriteEngine
  PROVE  RiskInv'
<1> USE PartsOfIInv DEF RiskInv
<1> DEFINE from == plan.trace[k]
           to == plan.trace[k + 1]
<1>1. /\ Head(loop.todo).op \in {"attach", "exits_only"}
      /\ UNCHANGED <<rows, deals, running, up>>
  BY DEF WriteEngine, Writing, EntryPlace, EntryOps
<1>2. /\ EntryStage(from, i, s, n) /\ Current.intent = i
      /\ Current.strategy = s /\ Current.engine = n /\ Current.kind = "entry"
      /\ loop.at = "writing"
  BY DEF EntryPlace
<1>3. Written
  BY <1>1, <1>2 DEF WriteEngine, Writing
<1>4. ~Leaves(Head(loop.todo))
  BY <1>1 DEF Leaves
<1>5. RowsAgree(i)'
  BY <1>1 DEF RowInv, RowsAgree, RowsAgreeOwn, Foreign, rows
<1>6. CASE Head(loop.todo).op = "attach"
  <2>1. engines' = SetPosition(i)
    BY <1>2, <1>6 DEF WriteEngine, Writing, CurrentPosition
  <2>2. /\ KeepsObjects /\ engines'[s][n].position = i
        /\ \A t \in Strategies : \A m \in 1 .. Len(engines[t]) :
             t # s \/ m # n => engines'[t][m] = engines[t][m]
    BY <1>2, <2>1, PositionSet DEF Deciding
  <2>3. EntryFrame(i, s, n)
    BY <1>1, <2>2 DEF EntryFrame, Same, rows
  <2>4. /\ from.progress \in {1, 3}
        /\ to = Stage(from.status, from.states,
                      IF from.progress = 1 THEN 2 ELSE 3)
    BY <1>6 DEF EntryPlace, EntryWrite
  <2>5. \A stage : stage = to => EntryStage(stage, i, s, n)'
    BY <1>1, <1>2, <2>2, <2>4 DEF EntryStage, Stage, rows
  <2> QED
    BY <1>1, <1>3, <1>4, <1>5, <2>3, <2>5, EntryProceeds
<1>7. CASE Head(loop.todo).op = "exits_only"
  <2>1. engines' = [engines EXCEPT ![s][n].mode = "EXITS_ONLY"]
    BY <1>2, <1>7 DEF WriteEngine, Writing
  <2>2. /\ KeepsObjects
        /\ \A t \in Strategies : \A m \in 1 .. Len(engines[t]) :
             engines'[t][m].position = engines[t][m].position
    BY <2>1, ModeSet
  <2>3. EntryFrame(i, s, n)
    BY <1>1, <2>2 DEF EntryFrame, Same, rows
  <2>4. to = from
    BY <1>7 DEF EntryPlace, EntryWrite
  <2>5. \A stage : stage = to => EntryStage(stage, i, s, n)'
    BY <1>1, <1>2, <2>2, <2>4 DEF EntryStage, Stage, rows
  <2> QED
    BY <1>1, <1>3, <1>4, <1>5, <2>3, <2>5, EntryProceeds
<1> QED
  BY <1>1, <1>6, <1>7

LEMMA EntryPositionRisk ==
  ASSUME IInv, RiskInv, NoneRevived, NEW i \in Intents, NEW s \in Strategies,
         NEW n \in 1 .. Len(engines[s]), NEW plan \in EntryPlans,
         NEW k \in 1 .. Len(plan.script), EntryPlace(i, s, n, plan, k),
         WritePosition
  PROVE  RiskInv'
<1> USE PartsOfIInv DEF RiskInv
<1> DEFINE from == plan.trace[k]
           to == plan.trace[k + 1]
<1>1. /\ Head(loop.todo).op = "record_position"
      /\ UNCHANGED <<intents, entries, closes, trades, deals, engines,
                     running, up>>
  BY DEF WritePosition, Writing, EntryPlace, EntryOps
<1>2. /\ EntryStage(from, i, s, n) /\ Current.intent = i
      /\ Current.kind = "entry" /\ loop.at = "writing"
  BY DEF EntryPlace
<1>3. positions' = [positions EXCEPT ![i] = "open"] /\ Written
  BY <1>1, <1>2 DEF WritePosition, Writing, CurrentPosition
<1>4. /\ positions'[i] = "open"
      /\ \A j \in Intents \ {i} : positions'[j] = positions[j]
  BY <1>3 DEF RowTypes
<1>5. EntryFrame(i, s, n)
  BY <1>1, <1>4, SameHolds DEF EntryFrame, Same
<1>6. /\ from.progress = 2 /\ from.states \subseteq OpenStates
      /\ to = Stage(from.status, from.states, 3)
      /\ deals[i] \in Held
  BY <1>1 DEF EntryPlace, EntryWrite
<1>7. \A stage : stage = to => EntryStage(stage, i, s, n)'
  BY <1>1, <1>2, <1>4, <1>6 DEF EntryStage, Stage
<1>8. /\ intents[i].state \in OpenStates /\ trades[i] = 0
      /\ RowsAgreeOwn(i)
  BY <1>2, <1>6, OwnRow DEF EntryStage
<1>9. RowsAgree(i)'
  BY <1>1, <1>4, <1>6, <1>8
     DEF RowsAgree, RowsAgreeOwn, Held, OpenStates, Unsent, Absent
<1>10. ~Leaves(Head(loop.todo))
  BY <1>1 DEF Leaves
<1> QED
  BY <1>1, <1>3, <1>5, <1>7, <1>9, <1>10, EntryProceeds

LEMMA EntryRaiseRisk ==
  ASSUME IInv, RiskInv, NoneRevived, NEW i \in Intents, NEW s \in Strategies,
         NEW n \in 1 .. Len(engines[s]), NEW plan \in EntryPlans,
         NEW k \in 1 .. Len(plan.script), EntryPlace(i, s, n, plan, k),
         RaiseException
  PROVE  RiskInv'
<1>1. /\ EntrySettled(plan.trace[k]) /\ EntryStage(plan.trace[k], i, s, n)
      /\ Current.intent = i /\ Current.strategy = s /\ Current.engine = n
      /\ Current.kind = "entry" /\ loop.at = "writing"
      /\ intents[i].strategy = s
  BY DEF RaiseException, Writing, EntryPlace, EntryWrite, EntryStage
<1>2. AtRest(i) /\ plan.trace[k].progress # 2
  BY <1>1, EntrySettles
<1>3. ~InHand
  BY <1>1, <1>2 DEF InHand, Engine, EntryStage
<1> QED
  BY <1>1, <1>2, <1>3, RaisedFrom DEF RaiseException

\* Every write of an entry.
LEMMA EntryWriteRisk ==
  ASSUME IInv, RiskInv, NoneRevived,
         loop.at = "writing", Current.kind = "entry", WriteRow
  PROVE  RiskInv'
<1>1. PICK i \in Intents, s \in Strategies : \E n \in 1 .. Len(engines[s]) :
        \E plan \in EntryPlans : \E k \in 1 .. Len(plan.script) :
          EntryPlace(i, s, n, plan, k)
  BY EntryHasPlace
<1>2. PICK n \in 1 .. Len(engines[s]) :
        \E plan \in EntryPlans : \E k \in 1 .. Len(plan.script) :
          EntryPlace(i, s, n, plan, k)
  BY <1>1
<1>3. PICK plan \in EntryPlans : \E k \in 1 .. Len(plan.script) :
        EntryPlace(i, s, n, plan, k)
  BY <1>2
<1>4. PICK k \in 1 .. Len(plan.script) : EntryPlace(i, s, n, plan, k)
  BY <1>3
<1>5. ~WriteTrade
  BY <1>4 DEF WriteTrade, Writing, EntryPlace, EntryOps
<1> QED
  BY <1>4, <1>5, EntryExecutionRisk, EntryIntentRisk, EntryEngineRisk,
     EntryPositionRisk, EntryRaiseRisk DEF WriteRow

LEMMA ExitSettles ==
  ASSUME NEW i \in Intents, NEW s \in Strategies, NEW n, NEW stage,
         ExitSettled(stage)
  PROVE  /\ ExitStage(stage, i, s, n) => AtRest(i)
         /\ ExitStage(stage, i, s, n)' => AtRest(i)'
BY DEF ExitSettled, ExitStage, AtRest, OpenRow

\* The exit of position i by the n-th engine object of strategy s is at write
\* k of the plan.
ExitPlace(i, s, n, plan, k) ==
  /\ loop.at = "writing" /\ Current.kind = "exit"
  /\ Current.intent = i /\ Current.position = i
  /\ Current.strategy = s /\ Current.engine = n
  /\ Tail(loop.todo) = Rest(plan.script, k + 1)
  /\ Len(loop.todo) = 1 <=> k = Len(plan.script)
  /\ k # Len(plan.script) => k + 1 \in 1 .. Len(plan.script)
  /\ k = Len(plan.script) =>
       Leaves(Head(loop.todo)) \/ ExitSettled(plan.trace[k + 1])
  /\ deals[i] \in plan.deals
  /\ ExitStage(plan.trace[k], i, s, n)
  /\ Head(loop.todo).op \in ExitOps
  /\ ExitWrite(Head(loop.todo), plan.trace[k], plan.trace[k + 1], plan.deals)

LEMMA ExitHasPlace ==
  ASSUME IInv, RiskInv, NoneRevived, loop.at = "writing", Current.kind = "exit"
  PROVE  \E i \in Intents, s \in Strategies : \E n \in 1 .. Len(engines[s]) :
           \E plan \in ExitPlans : \E k \in 1 .. Len(plan.script) :
             ExitPlace(i, s, n, plan, k)
<1> USE PartsOfIInv DEF RiskInv
<1>1. PICK plan \in ExitPlans : \E k \in 1 .. Len(plan.script) :
        /\ OnPlan(plan, k) /\ At(plan.trace[k])
        /\ Head(loop.todo) = plan.script[k]
        /\ Tail(loop.todo) = Rest(plan.script, k + 1)
        /\ Len(loop.todo) = 1 <=> k = Len(plan.script)
        /\ k # Len(plan.script) => k + 1 \in 1 .. Len(plan.script)
  BY WriteAtHand DEF Plans
<1>2. PICK k \in 1 .. Len(plan.script) :
        /\ OnPlan(plan, k) /\ At(plan.trace[k])
        /\ Head(loop.todo) = plan.script[k]
        /\ Tail(loop.todo) = Rest(plan.script, k + 1)
        /\ Len(loop.todo) = 1 <=> k = Len(plan.script)
        /\ k # Len(plan.script) => k + 1 \in 1 .. Len(plan.script)
  BY <1>1
<1>3. /\ Current.intent \in Intents /\ Current.strategy \in Strategies
      /\ Current.engine \in 1 .. Len(engines[Current.strategy])
  BY CurrentTypes, EngineAtHand DEF Working, Deciding
<1>4. SoundExit(plan)
  BY PlansAreSound
<1>5. ExitPlace(Current.intent, Current.strategy, Current.engine, plan, k)
  BY <1>2, <1>4 DEF SoundExit, ExitPlace, OnPlan, At, ExitAt
<1> QED
  BY <1>3, <1>5

LEMMA ExitProceeds ==
  ASSUME IInv, RiskInv, NoneRevived, NEW i \in Intents, NEW s \in Strategies,
         NEW n \in 1 .. Len(engines[s]),
         NEW plan \in ExitPlans, NEW k \in 1 .. Len(plan.script),
         ExitPlace(i, s, n, plan, k), ~Leaves(Head(loop.todo)),
         \/ Written
         \/ /\ k # Len(plan.script)
            /\ loop' = [loop EXCEPT !.todo = Tail(@), !.guarded = FALSE],
         UNCHANGED <<entries, deals, up>>, KeepsObjects, HoldInv',
         \A j \in Intents \ {i} : Same(j), RowsAgree(i)',
         \A stage : stage = plan.trace[k + 1] => ExitStage(stage, i, s, n)'
  PROVE  RiskInv'
<1> USE PartsOfIInv DEF RiskInv, ExitPlace
<1>1. plan \in Plans
  BY DEF Plans
<1>2. Current' = Current =>
        \A stage : stage = plan.trace[k + 1] => At(stage)'
  BY DEF At, ExitAt
<1>3. /\ SignalInv' /\ QueueInv' /\ WorkInv'
      /\ k # Len(plan.script) => loop'.at = "writing" /\ Current' = Current
  BY <1>1, <1>2, PlanGoesOn
<1>4. RowInv'
  BY OneRow
<1>5. RestInv'
  <2>1. ASSUME NEW j \in Intents, j # i PROVE AtRest(j)'
    BY <2>1, OthersAtRest, SameRest DEF Same
  <2>2. AtRest(i)' \/ (InFlight' /\ i = Current'.intent)
    BY <1>3, ExitSettles DEF InFlight
  <2> QED
    BY <2>1, <2>2 DEF RestInv
<1> QED
  BY <1>3, <1>4, <1>5

LEMMA ExitOwns ==
  ASSUME RowInv, NEW i \in Intents, NEW stage, NEW s, NEW n,
         ExitStage(stage, i, s, n)
  PROVE  RowsAgreeOwn(i) /\ intents[i].strategy \in Strategies
<1>1. positions[i] # Absent
  BY DEF ExitStage, Absent
<1>2. RowsAgreeOwn(i)
  BY <1>1, OwnRow
<1> QED
  BY <1>2 DEF ExitStage, RowsAgreeOwn, OpenStates, Absent

LEMMA ExitExecutionRisk ==
  ASSUME IInv, RiskInv, NoneRevived, NEW i \in Intents, NEW s \in Strategies,
         NEW n \in 1 .. Len(engines[s]), NEW plan \in ExitPlans,
         NEW k \in 1 .. Len(plan.script), ExitPlace(i, s, n, plan, k),
         WriteExecution
  PROVE  RiskInv'
<1> USE PartsOfIInv DEF RiskInv
<1> DEFINE from == plan.trace[k]
           to == plan.trace[k + 1]
<1>1. /\ Head(loop.todo).op = "execution"
      /\ UNCHANGED <<intents, positions, trades, deals, engines, running, up>>
  BY DEF WriteExecution, Writing
<1>2. /\ Arg \in ExecutionTransitions[from.status]
      /\ to = Stage(Arg, from.states, from.progress)
      /\ ExitStage(from, i, s, n)
      /\ Current.kind = "exit" /\ Current.position = i
  BY <1>1 DEF ExitPlace, ExitWrite, Arg
<1>3. CurrentStatus = from.status
  BY <1>2 DEF CurrentStatus, ExitStage
<1>4. SetExecution(Arg) /\ Written
  BY <1>2, <1>3 DEF WriteExecution
<1>5. closes' = [closes EXCEPT ![i] = Arg] /\ entries' = entries
  BY <1>2, <1>4 DEF SetExecution
<1>6. closes'[i] = Arg
  BY <1>5 DEF RowTypes
<1>7. HoldInv' /\ KeepsObjects
  BY <1>1, <1>2, HoldKeeps, SameHolds DEF InHand, OpenKept
<1>8. RowsAgree(i)' /\ \A j \in Intents \ {i} : Same(j)
  BY <1>1 DEF RowInv, RowsAgree, RowsAgreeOwn, Foreign, Same
<1>9. \A stage : stage = to => ExitStage(stage, i, s, n)'
  BY <1>1, <1>2, <1>6, SameHolds, DroppedKept DEF ExitStage, Stage
<1>10. ~Leaves(Head(loop.todo))
  BY <1>1 DEF Leaves
<1> QED
  BY <1>1, <1>4, <1>5, <1>7, <1>8, <1>9, <1>10, ExitProceeds

LEMMA ExitIntentRisk ==
  ASSUME IInv, RiskInv, NoneRevived, NEW i \in Intents, NEW s \in Strategies,
         NEW n \in 1 .. Len(engines[s]), NEW plan \in ExitPlans,
         NEW k \in 1 .. Len(plan.script), ExitPlace(i, s, n, plan, k),
         WriteIntent
  PROVE  RiskInv'
<1> USE PartsOfIInv DEF RiskInv
<1> DEFINE from == plan.trace[k]
           to == plan.trace[k + 1]
<1>1. /\ Head(loop.todo).op = "intent" /\ ~Writing("referenced")
      /\ UNCHANGED <<entries, closes, positions, trades, deals, engines,
                     running, up>>
  BY DEF WriteIntent, Writing, ExitPlace, ExitOps
<1>2. /\ Admits(from.states, Arg) \/ from.states \subseteq Closeable
      /\ to = Stage(from.status, {Arg}, from.progress)
      /\ \/ Arg \in OpenStates /\ from.progress = 0
         \/ Arg = "CLOSED" /\ from.progress = 3
      /\ ExitStage(from, i, s, n) /\ Current.intent = i
      /\ Current.kind = "exit" /\ loop.at = "writing"
  BY <1>1 DEF ExitPlace, ExitWrite, Arg
<1>3. /\ RowsAgreeOwn(i) /\ intents[i].strategy \in Strategies
      /\ RowsAgree(i) /\ ~InHand
  BY <1>2, ExitOwns DEF RowsAgree, InHand
<1>4. CASE ~MayBecome(i, Arg)
  <2>1. intents[i].state \in Closeable
    BY <1>2, <1>4 DEF ExitStage, Admits, MayBecome
  <2>2. positions[i] = "open" /\ intents[i].reference = i
    BY <1>2, <1>3, <2>1 DEF ExitStage, RowsAgreeOwn, Closeable
  <2>3. AtRest(i) /\ intents[i].state # "ACKNOWLEDGED"
    BY <2>1, <2>2 DEF AtRest, OpenRow, Closeable
  <2>4. RaiseFrom /\ UNCHANGED <<rows, deals, engines, up>>
    BY <1>1, <1>2, <1>4 DEF WriteIntent, rows
  <2> QED
    BY <1>2, <1>3, <2>3, <2>4, RaisedFrom
<1>5. CASE MayBecome(i, Arg)
  <2>1. /\ intents' = [intents EXCEPT ![i].state = Arg,
                                      ![i].reference = @]
        /\ Written
    BY <1>1, <1>2, <1>5 DEF WriteIntent
  <2>2. /\ intents'[i].state = Arg
        /\ intents'[i].strategy = intents[i].strategy
        /\ intents'[i].reference = intents[i].reference
        /\ \A j \in Intents \ {i} : intents'[j] = intents[j]
    BY <2>1 DEF IntentInv, IntentTypes
  <2>3. /\ \A j \in Intents \ {i} : Same(j)
        /\ OpenKept /\ NoNewHolds /\ KeepsObjects
    BY <1>1, <2>2, SameHolds DEF Same, OpenKept
  <2>4. HoldInv'
    BY <1>3, <2>3, HoldKeeps
  <2>5. \A stage : stage = to => ExitStage(stage, i, s, n)'
    BY <1>1, <1>2, <2>2, <2>3, DroppedKept DEF ExitStage, Stage
  <2>6. RowsAgree(i)'
    BY <1>1, <1>2, <1>3, <2>2
       DEF RowsAgree, RowsAgreeOwn, ExitStage, Unsent, OpenStates, Absent
  <2>7. ~Leaves(Head(loop.todo))
    BY <1>1 DEF Leaves
  <2> QED
    BY <1>1, <2>1, <2>3, <2>4, <2>5, <2>6, <2>7, ExitProceeds
<1> QED
  BY <1>4, <1>5

LEMMA ExitEngineRisk ==
  ASSUME IInv, RiskInv, NoneRevived, NEW i \in Intents, NEW s \in Strategies,
         NEW n \in 1 .. Len(engines[s]), NEW plan \in ExitPlans,
         NEW k \in 1 .. Len(plan.script), ExitPlace(i, s, n, plan, k),
         WriteEngine
  PROVE  RiskInv'
<1> USE PartsOfIInv DEF RiskInv
<1> DEFINE from == plan.trace[k]
           to == plan.trace[k + 1]
<1>1. /\ Head(loop.todo).op = "detach" /\ loop.at = "writing"
      /\ UNCHANGED <<rows, deals, running, up>>
  BY DEF WriteEngine, Writing, ExitPlace, ExitOps
<1>2. /\ engines' = SetPosition(None)
      /\ loop' = [loop EXCEPT !.todo = Tail(@), !.guarded = FALSE]
  BY <1>1 DEF WriteEngine, Writing
<1>3. /\ ExitStage(from, i, s, n) /\ from.progress = 0
      /\ to = Stage(from.status, from.states, 1)
      /\ Current.strategy = s /\ Current.engine = n /\ Current.kind = "exit"
  BY <1>1 DEF ExitPlace, ExitWrite
<1>4. k # Len(plan.script)
  <2>1. 1 \in 1 .. Len(loop.todo) /\ loop.todo[1].op = "detach"
        /\ Tidy(loop.todo)
    BY <1>1, TodoTypes
  <2>2. Len(loop.todo) # 1
    BY <2>1 DEF Tidy
  <2>3. k = Len(plan.script) => Len(loop.todo) = 1
    BY DEF ExitPlace
  <2> QED
    BY <2>2, <2>3
<1>5. NoNewHolds /\ KeepsObjects
  BY <1>1, <1>2, LetGo DEF Deciding
<1>6. HoldInv'
  BY <1>1, <1>3, <1>5, HoldKeeps DEF OpenKept, InHand, rows
<1>7. \A j \in Intents \ {i} : Same(j)
  BY <1>1 DEF Same, rows
<1>8. RowsAgree(i)'
  BY <1>1 DEF RowInv, RowsAgree, RowsAgreeOwn, Foreign, rows
<1>9. engines[s][n].position = i /\ i # None
  BY <1>3, NoneIsNoIntent DEF ExitStage
<1>10. ASSUME NEW t \in Strategies, NEW m \in 1 .. Len(engines'[t]),
              InUse(t, m)'
       PROVE  engines'[t][m].position # i
  <2>1. m \in 1 .. Len(engines[t])
    BY <1>5 DEF KeepsObjects
  <2>4. InUse(t, m) /\ InUse(s, n)
    BY <1>1, <1>3, <1>10, <2>1, InUseAtHand DEF NoneRevived, Deciding
  <2>2. CASE t = s /\ m = n
    BY <1>1, <1>2, <1>3, <1>9, <2>2, PositionSet DEF Deciding
  <2>3. CASE t # s \/ m # n
    <3>1. engines'[t][m] = engines[t][m]
      BY <1>1, <1>2, <1>3, <2>1, <2>3, PositionSet DEF Deciding
    <3>2. intents[i].strategy = s
      BY <1>9, <2>4 DEF HoldInv
    <3>3. engines[t][m].position = i => intents[i].strategy = t
      <4>1. \A d : d = engines[t][m].position /\ d # None =>
              intents[d].strategy = t
        BY <2>1, <2>4 DEF HoldInv
      <4> QED
        BY <1>9, <4>1
    <3>4. t = s /\ engines[s][m].position = i => m = n
      <4>1. m \in 1 .. Len(engines[t]) /\ n \in 1 .. Len(engines[s])
        BY <2>1
      <4>2. \A o, l \in 1 .. Len(engines[s]) :
              InUse(s, o) /\ InUse(s, l)
                /\ engines[s][o].position = engines[s][l].position
                /\ engines[s][o].position # None => o = l
        BY DEF HoldInv
      <4> QED
        BY <1>9, <2>4, <4>1, <4>2
    <3> QED
      BY <2>3, <3>1, <3>2, <3>3, <3>4
  <2> QED
    BY <2>2, <2>3
<1>11. \A stage : stage = to => ExitStage(stage, i, s, n)'
  BY <1>1, <1>3, <1>10 DEF ExitStage, Stage, rows, Dropped
<1>12. ~Leaves(Head(loop.todo)) /\ UNCHANGED <<entries, deals, up>>
  BY <1>1 DEF Leaves, rows
<1> QED
  BY <1>2, <1>4, <1>5, <1>6, <1>7, <1>8, <1>11, <1>12, ExitProceeds

LEMMA ExitPositionRisk ==
  ASSUME IInv, RiskInv, NoneRevived, NEW i \in Intents, NEW s \in Strategies,
         NEW n \in 1 .. Len(engines[s]), NEW plan \in ExitPlans,
         NEW k \in 1 .. Len(plan.script), ExitPlace(i, s, n, plan, k),
         WritePosition
  PROVE  RiskInv'
<1> USE PartsOfIInv DEF RiskInv
<1> DEFINE from == plan.trace[k]
           to == plan.trace[k + 1]
<1>1. /\ Head(loop.todo).op = "close_position"
      /\ UNCHANGED <<intents, entries, closes, trades, deals, engines,
                     running, up>>
  BY DEF WritePosition, Writing, ExitPlace, ExitOps
<1>2. /\ ExitStage(from, i, s, n)
      /\ Current.kind = "exit" /\ Current.position = i
      /\ loop.at = "writing"
      /\ from.progress = 1 /\ from.states = {"FILLED"}
      /\ to = Stage(from.status, from.states, 2)
      /\ plan.deals = {"closed"} /\ deals[i] \in plan.deals
  BY <1>1 DEF ExitPlace, ExitWrite
<1>3. positions[i] = "open"
  BY <1>2 DEF ExitStage
<1>4. positions' = [positions EXCEPT ![i] = "closed"] /\ Written
  BY <1>1, <1>2, <1>3 DEF WritePosition, Writing, CurrentPosition
<1>5. /\ positions'[i] = "closed"
      /\ \A j \in Intents \ {i} : positions'[j] = positions[j]
  BY <1>4 DEF RowTypes
<1>6. \A j \in Intents \ {i} : Same(j)
  BY <1>1, <1>5 DEF Same
<1>7. HoldInv'
  <2>1. ASSUME NEW t \in Strategies, NEW m \in 1 .. Len(engines[t]),
               InUse(t, m), engines[t][m].position # None
        PROVE  /\ intents[engines[t][m].position].strategy = t
               /\ positions'[engines[t][m].position] = "open"
    <3>1. /\ engines[t][m].position \in Intents
          /\ engines[t][m].position # i
      BY <1>2, <2>1, PositionTypes DEF ExitStage, Dropped
    <3>2. /\ intents[engines[t][m].position].strategy = t
          /\ positions[engines[t][m].position] = "open"
      BY <1>2, <2>1 DEF HoldInv
    <3> QED
      BY <1>5, <3>1, <3>2
  <2>2. ASSUME NEW t \in Strategies, NEW m \in 1 .. Len(engines[t]),
               InUse(t, m)'
        PROVE  InUse(t, m)
    BY <2>2 DEF NoneRevived
  <2> QED
    BY <1>1, <2>1, <2>2 DEF HoldInv
<1>8. RowsAgree(i)'
  <2>1. RowsAgreeOwn(i)
    BY <1>2, ExitOwns
  <2>2. intents[i].state = "FILLED" /\ trades[i] = 0 /\ deals[i] = "closed"
    BY <1>2 DEF ExitStage
  <2> QED
    BY <1>1, <1>5, <2>1, <2>2
       DEF RowsAgree, RowsAgreeOwn, Unsent, OpenStates, Absent
<1>9. \A stage : stage = to => ExitStage(stage, i, s, n)'
  BY <1>1, <1>2, <1>5, SameHolds, DroppedKept DEF ExitStage, Stage
<1>10. ~Leaves(Head(loop.todo)) /\ KeepsObjects
  BY <1>1, SameHolds DEF Leaves
<1> QED
  BY <1>1, <1>4, <1>6, <1>7, <1>8, <1>9, <1>10, ExitProceeds

LEMMA ExitTradeRisk ==
  ASSUME IInv, RiskInv, NoneRevived, NEW i \in Intents, NEW s \in Strategies,
         NEW n \in 1 .. Len(engines[s]), NEW plan \in ExitPlans,
         NEW k \in 1 .. Len(plan.script), ExitPlace(i, s, n, plan, k),
         WriteTrade
  PROVE  RiskInv'
<1> USE PartsOfIInv DEF RiskInv
<1> DEFINE from == plan.trace[k]
           to == plan.trace[k + 1]
<1>1. /\ Head(loop.todo).op = "record_trade" /\ Written
      /\ UNCHANGED <<intents, entries, closes, positions, deals, engines,
                     running, up>>
  BY DEF WriteTrade, Writing
<1>2. /\ ExitStage(from, i, s, n)
      /\ Current.kind = "exit" /\ Current.position = i
      /\ from.progress = 2 /\ from.states = {"FILLED"}
      /\ to = Stage(from.status, from.states, 3)
  BY <1>1 DEF ExitPlace, ExitWrite
<1>3. trades' = [trades EXCEPT ![i] = @ + 1]
  BY <1>2 DEF WriteTrade, CurrentPosition
<1>4. /\ trades'[i] = 1 /\ positions[i] = "closed"
      /\ \A j \in Intents \ {i} : trades'[j] = trades[j]
  BY <1>2, <1>3 DEF RowTypes, ExitStage
<1>5. \A j \in Intents \ {i} : Same(j)
  BY <1>1, <1>4 DEF Same
<1>6. HoldInv' /\ KeepsObjects
  BY <1>1, <1>2, HoldKeeps, SameHolds DEF OpenKept, InHand
<1>7. RowsAgree(i)'
  <2>1. RowsAgreeOwn(i)
    BY <1>2, ExitOwns
  <2>2. intents[i].state = "FILLED"
    BY <1>2 DEF ExitStage
  <2> QED
    BY <1>1, <1>4, <2>1, <2>2 DEF RowsAgree, RowsAgreeOwn, Unsent
<1>8. \A stage : stage = to => ExitStage(stage, i, s, n)'
  BY <1>1, <1>2, <1>4, SameHolds, DroppedKept DEF ExitStage, Stage
<1>9. ~Leaves(Head(loop.todo))
  BY <1>1 DEF Leaves
<1> QED
  BY <1>1, <1>5, <1>6, <1>7, <1>8, <1>9, ExitProceeds

LEMMA ExitRaiseRisk ==
  ASSUME IInv, RiskInv, NoneRevived, NEW i \in Intents, NEW s \in Strategies,
         NEW n \in 1 .. Len(engines[s]), NEW plan \in ExitPlans,
         NEW k \in 1 .. Len(plan.script), ExitPlace(i, s, n, plan, k),
         RaiseException
  PROVE  RiskInv'
<1>1. /\ plan.trace[k].states \subseteq Closeable /\ plan.trace[k].progress = 0
      /\ ExitStage(plan.trace[k], i, s, n)
      /\ Current.intent = i /\ Current.kind = "exit" /\ loop.at = "writing"
  BY DEF RaiseException, Writing, ExitPlace, ExitWrite
<1>2. AtRest(i) /\ intents[i].state # "ACKNOWLEDGED"
  BY <1>1 DEF ExitStage, AtRest, OpenRow, Closeable
<1>3. ~InHand
  BY <1>1 DEF InHand
<1>4. intents[i].strategy \in Strategies
  BY <1>1, PartsOfIInv, ExitOwns DEF RiskInv
<1> QED
  BY <1>1, <1>2, <1>3, <1>4, RaisedFrom DEF RaiseException

\* Every write of an exit.
LEMMA ExitWriteRisk ==
  ASSUME IInv, RiskInv, NoneRevived,
         loop.at = "writing", Current.kind = "exit", WriteRow
  PROVE  RiskInv'
<1>1. PICK i \in Intents, s \in Strategies : \E n \in 1 .. Len(engines[s]) :
        \E plan \in ExitPlans : \E k \in 1 .. Len(plan.script) :
          ExitPlace(i, s, n, plan, k)
  BY ExitHasPlace
<1>2. PICK n \in 1 .. Len(engines[s]) :
        \E plan \in ExitPlans : \E k \in 1 .. Len(plan.script) :
          ExitPlace(i, s, n, plan, k)
  BY <1>1
<1>3. PICK plan \in ExitPlans : \E k \in 1 .. Len(plan.script) :
        ExitPlace(i, s, n, plan, k)
  BY <1>2
<1>4. PICK k \in 1 .. Len(plan.script) : ExitPlace(i, s, n, plan, k)
  BY <1>3
<1> QED
  BY <1>4, ExitExecutionRisk, ExitIntentRisk, ExitEngineRisk,
     ExitPositionRisk, ExitTradeRisk, ExitRaiseRisk DEF WriteRow

LEMMA WriteRowRisk == IInv /\ RiskInv /\ NoneRevived /\ WriteRow => RiskInv'
<1>1. WriteRow => loop.at = "writing"
  BY DEF WriteRow, WriteExecution, WriteIntent, WriteEngine, WritePosition,
         WriteTrade, RaiseException, Writing
<1>2. IInv /\ WriteRow => Current.kind \in {"entry", "exit"}
  BY <1>1, PartsOfIInv, CurrentTypes DEF Deciding
<1> QED
  BY <1>1, <1>2, EntryWriteRisk, ExitWriteRisk

-----------------------------------------------------------------------------
(* The exception handlers.                                                 *)

\* The handlers fail an intent only from where the broker holds nothing.
LEMMA FailedFrom ==
  ASSUME NEW i \in Intents, MayBecome(i, "FAILED"), AtRest(i), ~Reviewed(i),
         intents[i].state # Absent, intents[i].strategy \in Strategies
  PROVE  intents[i].state \in {"APPROVED", "FAILED"}
<1>1. /\ "FAILED" \notin IntentTransitions["PROPOSED"]
      /\ "FAILED" \notin IntentTransitions["REJECTED"]
      /\ "FAILED" \notin IntentTransitions["CANCELLED"]
      /\ "FAILED" \notin IntentTransitions["CLOSED"]
      /\ "FAILED" \notin IntentTransitions["FORCED_RECONCILIATION_CLOSE"]
      /\ "FAILED" \notin IntentTransitions["PARTIALLY_FILLED"]
      /\ "FAILED" \notin IntentTransitions["POSITION_OPENED"]
      /\ "FAILED" \notin IntentTransitions["CLOSE_REQUESTED"]
  BY DEF IntentTransitions, IntentStates, IntentTerminalStates,
         ActiveOwnershipStates, Reclosable, ProvenanceStates
<1> QED
  BY <1>1 DEF MayBecome, AtRest, OpenRow, Closeable, Unsent

LEMMA HandledRisk ==
  ASSUME IInv, RiskInv, NoneRevived,
         loop.at = "handling", NoNewHolds, KeepsObjects,
         UNCHANGED <<entries, positions, trades, deals, up>>,
         \/ intents' = intents /\ NextDecision
         \/ FailOrEscape(Current.intent) /\ ~Reviewed(Current.intent)
  PROVE  RiskInv'
<1> USE PartsOfIInv DEF RiskInv
<1>1. PICK i \in Intents : Current.intent = i /\ intents[i].state # Absent
  BY CurrentTypes DEF Working, Deciding
<1>2. /\ loop.at \in Deciding /\ Current.intent # None /\ ~InHand
      /\ AtRest(i) /\ \A j \in Intents \ {i} : AtRest(j)
      /\ intents[i].strategy \in Strategies
  BY <1>1, NoneIsNoIntent, CurrentTypes
     DEF Deciding, RestInv, QueueInv, InFlight, InHand, WorkInv
<1>3. CASE intents' = intents
  <2>1. RowInv' /\ HoldInv'
    BY <1>2, <1>3, AllRows, HoldKeeps DEF OpenKept
  <2>2. RestInv'
    BY <1>2, <1>3, SameRest DEF RestInv
  <2>3. NextDecision \/ Escape
    BY DEF FailOrEscape
  <2>4. SignalInv' /\ QueueInv' /\ WorkInv'
    BY <1>2, <2>3, NextAfterAdmitted, EscapeQueue DEF Escape
  <2> QED
    BY <2>1, <2>2, <2>4
<1>4. CASE intents' # intents
  <2>1. /\ MayBecome(i, "FAILED") /\ SetIntent(i, "FAILED")
        /\ NextDecision /\ ~Reviewed(i)
    BY <1>1, <1>4 DEF FailOrEscape
  <2>2. intents[i].state \in {"APPROVED", "FAILED"}
    BY <1>1, <1>2, <2>1, FailedFrom
  <2>3. /\ intents'[i].state = "FAILED"
        /\ intents'[i].strategy = intents[i].strategy
        /\ intents'[i].reference = intents[i].reference
        /\ \A j \in Intents \ {i} : intents'[j] = intents[j]
    BY <2>1 DEF SetIntent, IntentInv, IntentTypes
  <2>4. RowsAgreeOwn(i) /\ positions[i] # "open"
    BY <1>2, <2>2, OwnRow DEF RowsAgreeOwn, OpenStates
  <2>5. RowsAgree(i)'
    BY <1>2, <2>2, <2>3, <2>4
       DEF RowsAgree, RowsAgreeOwn, Unsent, OpenStates, Absent
  <2>6. RowInv'
    BY <2>3, <2>5, OneRow DEF Same
  <2>7. RestInv'
    <3>1. ASSUME NEW j \in Intents PROVE AtRest(j)'
      <4>1. CASE j = i
        BY <2>3, <4>1 DEF AtRest
      <4>2. CASE j # i
        BY <1>2, <2>3, <4>2, SameRest
      <4> QED
        BY <4>1, <4>2
    <3> QED
      BY <3>1 DEF RestInv
  <2>8. HoldInv'
    BY <1>2, <2>3, <2>4, HoldKeeps DEF OpenKept
  <2>9. SignalInv' /\ QueueInv' /\ WorkInv'
    BY <1>2, <2>1, NextAfterAdmitted
  <2> QED
    BY <2>6, <2>7, <2>8, <2>9
<1> QED
  BY <1>3, <1>4

LEMMA HandleEntryRisk ==
  IInv /\ RiskInv /\ NoneRevived /\ HandleEntry => RiskInv'
<1> SUFFICES ASSUME IInv, RiskInv, NoneRevived, HandleEntry PROVE RiskInv'
  OBVIOUS
<1> USE PartsOfIInv DEF RiskInv
<1>1. /\ loop.at = "handling" /\ loop.at \in Deciding
      /\ Current.kind = "entry" /\ engines' = SetPosition(None)
      /\ UNCHANGED <<entries, positions, trades, deals, up>>
  BY DEF HandleEntry, Deciding
<1>2. NoNewHolds /\ KeepsObjects
  BY <1>1, LetGo
<1>3. Reviewed(Current.intent) => Preserved(Current.intent)
  BY <1>1 DEF Reviewed, Preserved, WorkInv
<1>4. \/ intents' = intents /\ NextDecision
      \/ FailOrEscape(Current.intent) /\ ~Reviewed(Current.intent)
  BY <1>3 DEF HandleEntry
<1> QED
  BY <1>1, <1>2, <1>4, HandledRisk

LEMMA HandleExitRisk == IInv /\ RiskInv /\ NoneRevived /\ HandleExit => RiskInv'
<1> SUFFICES ASSUME IInv, RiskInv, NoneRevived, HandleExit PROVE RiskInv'
  OBVIOUS
<1> USE PartsOfIInv DEF RiskInv
<1>1. /\ loop.at = "handling" /\ Current.kind = "exit"
      /\ UNCHANGED <<entries, positions, trades, deals, engines, up>>
  BY DEF HandleExit
<1>2. NoNewHolds /\ KeepsObjects
  BY <1>1, SameHolds
<1>3. ~Reviewed(Current.intent)
  BY <1>1 DEF Reviewed, WorkInv
<1>4. \/ intents' = intents /\ NextDecision
      \/ FailOrEscape(Current.intent) /\ ~Reviewed(Current.intent)
  BY <1>3 DEF HandleExit
<1> QED
  BY <1>1, <1>2, <1>4, HandledRisk

LEMMA HandleRisk == IInv /\ RiskInv /\ NoneRevived /\ Handle => RiskInv'
BY HandleEntryRisk, HandleExitRisk DEF Handle

-----------------------------------------------------------------------------
(* The broker.                                                             *)

\* An order or a deal that the broker has may come to any end.
LEMMA DealMoves ==
  ASSUME RowInv, RowTypes, NEW d \in Intents, NEW to \in DealStates,
         \/ deals[d] = "pending" /\ to \in {"open", "void"}
         \/ deals[d] \in {"open", "closing"} /\ to \in {"open", "closing", "closed"},
         deals' = [deals EXCEPT ![d] = to],
         UNCHANGED <<intents, positions, trades>>
  PROVE  RowInv'
<1>1. \A j \in Intents \ {d} : Same(j)
  BY DEF Same, RowTypes
<1>2. RowsAgreeOwn(d)
  BY DEF RowInv, RowsAgree, Foreign
<1>3. RowsAgree(d)'
  BY <1>2 DEF RowsAgree, RowsAgreeOwn, RowTypes
<1> QED
  BY <1>1, <1>3, OneRow

\* Going from the writes to the broker and back leaves the others at rest.
LEMMA RestInFlight ==
  ASSUME RestInv, InFlight, InFlight', Current' = Current,
         UNCHANGED <<intents, entries, positions, up>>
  PROVE  RestInv'
<1>1. ASSUME NEW j \in Intents, AtRest(j) PROVE AtRest(j)'
  BY <1>1, SameRest
<1> QED
  BY <1>1 DEF RestInv

LEMMA StartEntryRisk ==
  ASSUME IInv, RiskInv, NoneRevived, StartCall, Current.kind = "entry"
  PROVE  RiskInv'
<1> USE PartsOfIInv DEF RiskInv
<1>1. /\ loop.at = "writing" /\ loop.at \in Deciding
      /\ Head(loop.todo).op = "call_broker"
      /\ deals' = [deals EXCEPT ![Current.intent] = "pending"]
      /\ Proceed("calling") /\ UNCHANGED <<rows, engines, running, up>>
  BY DEF StartCall, Writing, Deciding
<1>2. PICK i \in Intents, s \in Strategies : \E n \in 1 .. Len(engines[s]) :
        \E plan \in EntryPlans : \E k \in 1 .. Len(plan.script) :
          EntryPlace(i, s, n, plan, k)
  BY <1>1, EntryHasPlace
<1>3. /\ Current.intent = i /\ Current.intent # None
      /\ EntryAt(Called) /\ intents[i].state = "SUBMITTED"
      /\ positions[i] = Absent /\ ~InHand
  BY <1>1, <1>2, NoneIsNoIntent DEF EntryPlace, EntryWrite, EntryAt,
     EntryStage, Called, Stage, InHand, Engine
<1>4. deals'[i] = "pending" /\ \A j \in Intents \ {i} : deals'[j] = deals[j]
  BY <1>1, <1>3 DEF RowTypes
<1>5. \A j \in Intents \ {i} : Same(j)
  BY <1>1, <1>4 DEF Same, rows
<1>6. RowsAgree(i)'
  <2>1. intents[i].strategy \in Strategies
    BY <1>2 DEF EntryPlace, EntryStage
  <2>2. RowsAgreeOwn(i) /\ intents[i].state = "SUBMITTED"
    BY <1>3, <2>1, OwnRow
  <2> QED
    BY <1>1, <1>3, <1>4, <2>2
       DEF RowsAgree, RowsAgreeOwn, Unsent, OpenStates, Absent, rows
<1>7. /\ loop'.at = "calling" /\ loop'.decisions = loop.decisions
      /\ loop'.signals = loop.signals /\ Current' = Current
  BY <1>1 DEF Proceed, LoopInv, LoopType, Current
<1>8. RowInv' /\ HoldInv' /\ KeepsObjects
  BY <1>1, <1>3, <1>5, <1>6, OneRow, HoldKeeps, SameHolds DEF OpenKept, rows
<1>9. RestInv'
  BY <1>1, <1>7, RestInFlight DEF InFlight, rows
<1>10. SignalInv' /\ QueueInv'
  BY <1>1, <1>3, <1>7, <1>8, SameQueue DEF Deciding
<1>11. \A stage : stage = Called => At(stage)'
  BY <1>1, <1>3, <1>7, SameStage DEF At
<1>12. WorkInv'
  BY <1>3, <1>4, <1>7, <1>11 DEF WorkInv, Sent
<1> QED
  BY <1>8, <1>9, <1>10, <1>12

LEMMA StartExitRisk ==
  ASSUME IInv, RiskInv, NoneRevived, StartCall, Current.kind = "exit"
  PROVE  RiskInv'
<1> USE PartsOfIInv DEF RiskInv
<1>1. /\ loop.at = "writing" /\ loop.at \in Deciding
      /\ Head(loop.todo).op = "call_broker"
      /\ \/ \E d \in CloseTargets : deals' = [deals EXCEPT ![d] = "closing"]
         \/ deals' = deals
      /\ Proceed("calling") /\ UNCHANGED <<rows, engines, running, up>>
  BY DEF StartCall, Writing, Deciding
<1>2. PICK i \in Intents, s \in Strategies : \E n \in 1 .. Len(engines[s]) :
        \E plan \in ExitPlans : \E k \in 1 .. Len(plan.script) :
          ExitPlace(i, s, n, plan, k)
  BY <1>1, ExitHasPlace
<1>3. /\ Current.intent = i /\ Current.intent # None
      /\ ExitAt(Called) /\ ~InHand
  BY <1>1, <1>2, NoneIsNoIntent DEF ExitPlace, ExitWrite, ExitAt, InHand
<1>4. \A d \in CloseTargets : d \in Intents /\ deals[d] \in {"open", "closing"}
  BY DEF CloseTargets
<1>5. RowInv'
  BY <1>1, <1>4, DealMoves, AllRows DEF rows, DealStates
<1>6. /\ loop'.at = "calling" /\ loop'.decisions = loop.decisions
      /\ loop'.signals = loop.signals /\ Current' = Current
  BY <1>1 DEF Proceed, LoopInv, LoopType, Current
<1>7. HoldInv' /\ KeepsObjects
  BY <1>1, <1>3, HoldKeeps, SameHolds DEF OpenKept, rows
<1>8. RestInv'
  BY <1>1, <1>6, RestInFlight DEF InFlight, rows
<1>9. SignalInv' /\ QueueInv'
  BY <1>1, <1>3, <1>6, <1>7, SameQueue DEF Deciding
<1>10. \A stage : stage = Called => At(stage)'
  BY <1>1, <1>3, <1>6, SameStage DEF At
<1>11. WorkInv'
  BY <1>6, <1>10 DEF WorkInv
<1> QED
  BY <1>5, <1>7, <1>8, <1>9, <1>11

LEMMA StartCallRisk == IInv /\ RiskInv /\ NoneRevived /\ StartCall => RiskInv'
BY StartEntryRisk, StartExitRisk DEF StartCall

LEMMA AnswersHavePlans ==
  /\ \A answer \in DOMAIN EntryOutcome : \A deal \in Sent :
       EntryAnswerFits(answer, deal) =>
         \E plan \in EntryPlans : /\ plan.script = EntryOutcome[answer]
                                  /\ plan.trace[1] = Called
                                  /\ deal \in plan.deals
  /\ \A answer \in DOMAIN CloseOutcome : \A d \in Intents :
       CloseAnswerFits(answer, d) /\ deals[d] \in DealStates =>
         \E plan \in ExitPlans : /\ plan.script = CloseOutcome[answer]
                                 /\ plan.trace[1] = Called
                                 /\ deals[d] \in plan.deals
<1>1. ASSUME NEW answer \in DOMAIN EntryOutcome, NEW deal \in Sent,
             EntryAnswerFits(answer, deal)
      PROVE  \E plan \in EntryPlans : /\ plan.script = EntryOutcome[answer]
                                      /\ plan.trace[1] = Called
                                      /\ deal \in plan.deals
  <2>1. answer \in {"FILLED", "PARTIALLY_FILLED", "REJECTED", "CANCELLED",
                    "AMBIGUOUS", "TimeoutError", "raised"}
    BY DEF EntryOutcome
  <2>2. CASE answer = "FILLED"
    BY <1>1, <2>2 DEF EntryAnswerFits, EntryPlans, FilledEntryPlan,
                       Held
  <2>3. CASE answer = "PARTIALLY_FILLED"
    BY <1>1, <2>3 DEF EntryAnswerFits, EntryPlans, PartialEntryPlan,
                       Held
  <2>4. CASE answer = "REJECTED"
    BY <1>1, <2>4 DEF EntryAnswerFits, EntryPlans, RejectedEntryPlan
  <2>5. CASE answer = "CANCELLED"
    BY <1>1, <2>5 DEF EntryAnswerFits, EntryPlans, CancelledEntryPlan
  <2>6. CASE answer = "AMBIGUOUS"
    BY <1>1, <2>6 DEF EntryPlans, AmbiguousEntryPlan
  <2>7. CASE answer = "TimeoutError"
    BY <1>1, <2>7 DEF EntryPlans, TimedOutEntryPlan
  <2>8. CASE answer = "raised"
    <3>1. deal \in RaisedEntryPlan.deals
      BY <1>1, <2>8 DEF EntryAnswerFits, RaisedEntryPlan
    <3> QED
      BY <2>8, <3>1 DEF EntryPlans, RaisedEntryPlan
  <2> QED
    BY <2>1, <2>2, <2>3, <2>4, <2>5, <2>6, <2>7, <2>8
<1>2. ASSUME NEW answer \in DOMAIN CloseOutcome, NEW d \in Intents,
             CloseAnswerFits(answer, d), deals[d] \in DealStates
      PROVE  \E plan \in ExitPlans : /\ plan.script = CloseOutcome[answer]
                                     /\ plan.trace[1] = Called
                                     /\ deals[d] \in plan.deals
  <2>1. answer \in {"FILLED", "PARTIALLY_FILLED", "AMBIGUOUS", "raised"}
    BY DEF CloseOutcome
  <2>2. CASE answer = "FILLED"
    BY <1>2, <2>2 DEF CloseAnswerFits, ExitPlans, FilledExitPlan
  <2>3. CASE answer = "PARTIALLY_FILLED"
    BY <1>2, <2>3 DEF ExitPlans, PartialExitPlan
  <2>4. CASE answer = "AMBIGUOUS"
    BY <1>2, <2>4 DEF ExitPlans, AmbiguousExitPlan
  <2>5. CASE answer = "raised"
    BY <1>2, <2>5 DEF ExitPlans, RaisedExitPlan
  <2> QED
    BY <2>1, <2>2, <2>3, <2>4, <2>5
<1> QED
  BY <1>1, <1>2

LEMMA AnswerRisk == IInv /\ RiskInv /\ NoneRevived /\ Answer => RiskInv'
<1> SUFFICES ASSUME IInv, RiskInv, NoneRevived, Answer PROVE RiskInv'
  OBVIOUS
<1> USE PartsOfIInv DEF RiskInv
<1>1. /\ loop.at = "calling" /\ loop.at \in Deciding
      /\ UNCHANGED <<rows, deals, engines, running, up>>
  BY DEF Answer, AnswerEntry, AnswerExit, Deciding
<1>2. /\ Current.intent \in Intents /\ Current.intent # None
      /\ At(Called) /\ deals[Current.intent] \in DealStates
  BY <1>1, CurrentTypes DEF Working, WorkInv, RowTypes
<1>3. PICK plan \in Plans :
        /\ plan.trace[1] = Called /\ deals[Current.intent] \in plan.deals
        /\ Perform(plan.script)
  <2>1. CASE AnswerEntry
    <3>1. /\ Current.kind = "entry" /\ deals[Current.intent] \in Sent
          /\ \E answer \in DOMAIN EntryOutcome :
               /\ EntryAnswerFits(answer, deals[Current.intent])
               /\ Perform(EntryOutcome[answer])
      BY <1>1, <2>1 DEF AnswerEntry, WorkInv
    <3> QED
      BY <3>1, AnswersHavePlans DEF Plans
  <2>2. CASE AnswerExit
    <3>1. /\ Current.kind = "exit"
          /\ \E answer \in DOMAIN CloseOutcome :
               /\ CloseAnswerFits(answer, Engine.position)
               /\ Perform(CloseOutcome[answer])
      BY <2>2 DEF AnswerExit
    <3>2. Engine.position = Current.intent
      BY <1>2, <3>1 DEF At, ExitAt, ExitStage, Called, Stage, Engine
    <3> QED
      BY <1>2, <3>1, <3>2, AnswersHavePlans DEF Plans
  <2> QED
    BY <2>1, <2>2 DEF Answer
<1>4. /\ loop'.at = "writing" /\ loop'.decisions = loop.decisions
      /\ loop'.signals = loop.signals /\ Current' = Current
      /\ loop'.todo = plan.script
  BY <1>3 DEF Perform, LoopInv, LoopType, Current
<1>5. RowInv' /\ HoldInv' /\ KeepsObjects
  BY <1>1, AllRows, KeptHolds, SameHolds DEF OpenKept, rows
<1>6. RestInv'
  BY <1>1, <1>4, RestInFlight DEF InFlight, rows
<1>7. SignalInv' /\ QueueInv'
  BY <1>1, <1>2, <1>4, <1>5, SameQueue DEF Deciding
<1>8. \A stage : stage = plan.trace[1] => At(stage)'
  BY <1>1, <1>2, <1>3, <1>4, SameStage
<1>9. WorkInv'
  BY <1>1, <1>3, <1>4, <1>8, PlanBegins
<1> QED
  BY <1>5, <1>6, <1>7, <1>9

\* What a plan takes for true of the deal stays true, whatever the broker
\* does meanwhile.
LEMMA FactsLast ==
  ASSUME NEW plan \in EntryPlans \cup ExitPlans
  PROVE  /\ "pending" \in plan.deals => {"open", "void"} \subseteq plan.deals
         /\ "closing" \in plan.deals => {"open", "closed"} \subseteq plan.deals
         /\ "open" \in plan.deals => "closed" \in plan.deals
<1>1. plan.deals \in {{"none"}, Held, {"void"}, {"closed"}, Sent, DealStates}
  BY DEF EntryPlans, ExitPlans, BlockedEntryPlan, SubmitEntryPlan,
         FilledEntryPlan, PartialEntryPlan, RejectedEntryPlan,
         CancelledEntryPlan, AmbiguousEntryPlan, TimedOutEntryPlan,
         RaisedEntryPlan, BlockedExitPlan, SubmitExitPlan, FilledExitPlan,
         PartialExitPlan, AmbiguousExitPlan, RaisedExitPlan
<1> QED
  BY <1>1 DEF Sent, Held, DealStates

\* How the broker moves a deal, whoever asked for it.
DealMove(from, to) ==
  \/ from = "pending" /\ to \in {"open", "void"}
  \/ from = "closing" /\ to \in {"open", "closed"}
  \/ from = "open" /\ to = "closed"

LEMMA DealRisk ==
  ASSUME IInv, RiskInv, NEW d \in Intents, NEW to \in DealStates,
         DealMove(deals[d], to), deals' = [deals EXCEPT ![d] = to],
         UNCHANGED <<rows, engines, running, loop, up>>
  PROVE  RiskInv'
<1> USE PartsOfIInv DEF RiskInv
<1>1. UNCHANGED <<rows, engines, running, loop, up>> /\ Current' = Current
  BY DEF Current
<1>2. RowInv'
  <2>1. \/ deals[d] = "pending" /\ to \in {"open", "void"}
        \/ deals[d] \in {"open", "closing"} /\ to \in {"open", "closing", "closed"}
    BY DEF DealMove
  <2>2. UNCHANGED <<intents, positions, trades>>
    BY <1>1 DEF rows
  <2> QED
    BY <2>1, <2>2, DealMoves
<1>3. NoneRevived
  BY <1>1 DEF NoneRevived, InUse, InQueue
<1>4. HoldInv'
  BY <1>1 DEF HoldInv, InUse, InQueue, rows
<1>5. SignalInv'
  <2>1. \A g : Faithful(g) => Faithful(g)'
    BY <1>1 DEF Faithful
  <2> QED
    BY <1>1, <2>1 DEF SignalInv
<1>6. RestInv'
  <2>1. \A j \in Intents : AtRest(j) => AtRest(j)'
    BY <1>1, SameRest DEF rows
  <2> QED
    BY <1>1, <2>1 DEF RestInv, InFlight
<1>7. QueueInv'
  BY <1>1 DEF QueueInv, Promised, OpenRow, Begun, rows
<1>8. deals'[d] = to /\ \A j \in Intents \ {d} : deals'[j] = deals[j]
  BY DEF RowTypes
<1>9. WorkInv'
  <2>1. CASE loop.at = "writing"
    <3>1. PICK plan \in Plans : \E k \in 1 .. Len(plan.script) :
            OnPlan(plan, k) /\ At(plan.trace[k])
      BY <2>1 DEF WorkInv
    <3>2. PICK k \in 1 .. Len(plan.script) :
            OnPlan(plan, k) /\ At(plan.trace[k])
      BY <3>1
    <3>3. deals'[Current.intent] \in plan.deals
      <4>1. Current.intent \in Intents
        BY <2>1, CurrentTypes DEF Working, Deciding
      <4>2. deals[Current.intent] \in plan.deals /\ plan \in EntryPlans \cup ExitPlans
        BY <3>2 DEF OnPlan, Plans
      <4> QED
        BY <1>8, <4>1, <4>2, FactsLast DEF DealMove
    <3>4. \A l : l = k => OnPlan(plan, l)' /\ At(plan.trace[l])'
      BY <1>1, <1>3, <3>2, <3>3, SameStage DEF OnPlan
    <3>5. plan \in Plans'
      BY <1>1 DEF Plans
    <3>6. \E p \in Plans' : \E l \in 1 .. Len(p.script) :
            OnPlan(p, l)' /\ At(p.trace[l])'
      BY <3>4, <3>5
    <3> QED
      BY <1>1, <2>1, <3>6 DEF WorkInv
  <2>2. CASE loop.at = "calling"
    <3>1. /\ At(Called)
          /\ Current.kind = "entry" => deals[Current.intent] \in Sent
          /\ Current.intent \in Intents
      BY <2>2, CurrentTypes DEF WorkInv, Working, Deciding
    <3>2. \A stage : stage = Called => At(stage)'
      BY <1>1, <1>3, <3>1, SameStage
    <3>3. Current.kind = "entry" => deals'[Current.intent] \in Sent
      BY <1>8, <3>1 DEF Sent, DealMove
    <3> QED
      BY <1>1, <2>2, <3>2, <3>3 DEF WorkInv
  <2>3. CASE loop.at \notin {"writing", "calling"}
    BY <1>1, <2>3 DEF WorkInv, rows
  <2> QED
    BY <2>1, <2>2, <2>3
<1> QED
  BY <1>2, <1>4, <1>5, <1>6, <1>7, <1>9

LEMMA BrokerRisk == IInv /\ RiskInv /\ BrokerActs => RiskInv'
<1> SUFFICES ASSUME IInv, RiskInv, BrokerActs PROVE RiskInv'
  OBVIOUS
<1>1. PICK d \in Intents, to \in {"open", "void", "closed"} :
        /\ deals' = [deals EXCEPT ![d] = to]
        /\ \/ deals[d] = "pending" /\ to \in {"open", "void"}
           \/ deals[d] = "closing" /\ to \in {"open", "closed"}
  BY DEF BrokerActs
<1>2. UNCHANGED <<rows, engines, running, loop, up>>
  BY DEF BrokerActs
<1>3. DealMove(deals[d], to) /\ to \in DealStates
  BY <1>1 DEF DealMove, DealStates
<1> QED
  BY <1>1, <1>2, <1>3, DealRisk

-----------------------------------------------------------------------------
(* The operator and the end of the process.                                *)

\* Engines may be started and restricted in the middle of a call; the
\* objects there are keep what they hold.
Grown ==
  \A t \in Strategies :
    /\ Len(engines'[t]) \in Nat /\ Len(engines[t]) \in Nat
    /\ Len(engines[t]) <= Len(engines'[t])
    /\ \A m \in 1 .. Len(engines'[t]) :
         engines'[t][m].position =
           IF m \in 1 .. Len(engines[t]) THEN engines[t][m].position ELSE None

LEMMA GrownRisk ==
  ASSUME IInv, RiskInv, NoneRevived, Grown, UNCHANGED <<rows, deals, loop, up>>
  PROVE  RiskInv'
<1> USE PartsOfIInv DEF RiskInv
<1>1. Current' = Current
  BY DEF Current
<1>2. \A t \in Strategies : \A m \in 1 .. Len(engines[t]) :
        /\ m \in 1 .. Len(engines'[t])
        /\ engines'[t][m].position = engines[t][m].position
  BY DEF Grown
<1>3. RowInv' /\ RestInv'
  BY <1>1, AllRows DEF RestInv, AtRest, Reviewed, OpenRow, InFlight, rows
<1>4. NoNewHolds
  BY DEF NoNewHolds, Grown
<1>5. HoldInv'
  BY <1>4, HoldKeeps DEF OpenKept, rows
<1>6. SignalInv'
  <2>1. \A g \in loop.signals : g.strategy \in Strategies
    BY QueueTypes DEF Signals
  <2>2. \A g \in loop.signals : Faithful(g)'
    BY <1>2, <2>1 DEF SignalInv, Faithful
  <2> QED
    BY <2>2 DEF SignalInv
<1>7. QueueInv'
  <2>1. ASSUME NEW k \in 1 .. Len(loop.decisions)
        PROVE  /\ loop.decisions[k].engine \in
                    1 .. Len(engines'[loop.decisions[k].strategy])
               /\ Promised(loop.decisions[k]) =>
                    \A e : e = loop.decisions[k] => Promised(e)'
    <3>1. /\ loop.decisions[k].strategy \in Strategies
          /\ loop.decisions[k].engine \in
               1 .. Len(engines[loop.decisions[k].strategy])
      BY QueueTypes DEF QueueInv, Decisions
    <3> QED
      BY <1>2, <3>1 DEF Promised, OpenRow, rows
  <2>2. \A k \in 1 .. Len(loop'.decisions) :
          (k = 1 /\ Begun') \/ Promised(loop.decisions[k])'
    BY <2>1 DEF QueueInv, Begun
  <2> QED
    BY <2>1, <2>2 DEF QueueInv
<1>8. WorkInv'
  <2>1. CASE loop.at \in {"writing", "calling"}
    <3>1. /\ Current.strategy \in Strategies /\ Current.intent \in Intents
          /\ Current.engine \in 1 .. Len(engines[Current.strategy])
      BY <2>1, CurrentTypes, EngineAtHand DEF Working, Deciding
    <3>2. ASSUME NEW stage, At(stage)
          PROVE  \A other : other = stage => At(other)'
      <4>1. \A t \in Strategies : \A m \in 1 .. Len(engines'[t]) :
              engines'[t][m].position = Current.intent =>
                /\ m \in 1 .. Len(engines[t])
                /\ engines[t][m].position = Current.intent
        BY <3>1, NoneIsNoIntent DEF Grown
      <4>2. Current.kind = "entry" => EntryAt(stage)
        BY <3>2 DEF At
      <4>3. Current.kind # "entry" => ExitAt(stage)
        BY <3>2 DEF At
      <4>4. Current.kind = "entry" => \A other : other = stage => EntryAt(other)'
        BY <1>1, <1>2, <3>1, <4>2 DEF EntryAt, EntryStage, rows
      <4>6. Dropped(Current.intent) => Dropped(Current.intent)'
        BY <1>1, <4>1 DEF Dropped, NoneRevived
      <4>5. Current.kind # "entry" => \A other : other = stage => ExitAt(other)'
        BY <1>1, <1>2, <3>1, <4>3, <4>6 DEF ExitAt, ExitStage, rows
      <4> QED
        BY <1>1, <4>4, <4>5 DEF At
    <3>3. CASE loop.at = "writing"
      <4>1. PICK plan \in Plans : \E k \in 1 .. Len(plan.script) :
              OnPlan(plan, k) /\ At(plan.trace[k])
        BY <3>3 DEF WorkInv
      <4>2. PICK k \in 1 .. Len(plan.script) :
              OnPlan(plan, k) /\ At(plan.trace[k])
        BY <4>1
      <4>3. \A l : l = k => OnPlan(plan, l)' /\ At(plan.trace[l])'
        BY <1>1, <3>2, <4>2 DEF OnPlan
      <4>4. plan \in Plans'
        BY <1>1 DEF Plans
      <4>5. \E p \in Plans' : \E l \in 1 .. Len(p.script) :
              OnPlan(p, l)' /\ At(p.trace[l])'
        BY <4>3, <4>4
      <4> QED
        BY <3>3, <4>5 DEF WorkInv
    <3>4. CASE loop.at = "calling"
      <4>1. /\ At(Called)
            /\ Current.kind = "entry" => deals[Current.intent] \in Sent
        BY <3>4 DEF WorkInv
      <4>2. \A other : other = Called => At(other)'
        BY <3>2, <4>1
      <4> QED
        BY <1>1, <3>4, <4>1, <4>2 DEF WorkInv
    <3> QED
      BY <2>1, <3>3, <3>4
  <2>2. CASE loop.at \notin {"writing", "calling"}
    BY <1>1, <2>2 DEF WorkInv, rows
  <2> QED
    BY <2>1, <2>2
<1> QED
  BY <1>3, <1>5, <1>6, <1>7, <1>8

LEMMA SameIsGrown == EngineInv /\ engines' = engines => Grown
BY LenProperties DEF EngineInv, EngineTypes, Grown

LEMMA OperatorGrows ==
  ASSUME IInv, NEW s \in Strategies,
         StartEngine(s) \/ StopEngine(s) \/ RestrictToExits(s)
  PROVE  Grown
<1> USE PartsOfIInv
<1>2. \A t \in Strategies : /\ engines[t] \in Seq(EngineObjects)
                            /\ Len(engines[t]) \in Nat
  BY LenProperties DEF EngineInv, EngineTypes
<1>3. CASE StartEngine(s)
  <2>1. PICK mode \in {"NORMAL", "EXITS_ONLY"} :
          engines' = [engines EXCEPT ![s] =
                        Append(@, [position |-> None, mode |-> mode])]
    BY <1>3 DEF StartEngine
  <2> DEFINE new == [position |-> None, mode |-> mode]
  <2>2. new \in EngineObjects /\ new.position = None
    BY DEF EngineObjects
  <2>3. /\ engines'[s] = Append(engines[s], new)
        /\ \A t \in Strategies : t # s => engines'[t] = engines[t]
    BY <2>1 DEF EngineInv, EngineTypes
  <2> HIDE DEF new
  <2>4. /\ Len(engines'[s]) = Len(engines[s]) + 1
        /\ engines'[s][Len(engines[s]) + 1] = new
        /\ \A m \in 1 .. Len(engines[s]) : engines'[s][m] = engines[s][m]
    BY <1>2, <2>2, <2>3, AppendProperties
  <2> QED
    <3>1. Len(engines[s]) \in Nat
      BY <1>2
    <3>2. \A m \in 1 .. Len(engines'[s]) :
            m \in 1 .. Len(engines[s]) \/ m = Len(engines[s]) + 1
      BY <2>4, <3>1
    <3>3. \A t \in Strategies : t # s => engines'[t] = engines[t]
                                          /\ Len(engines'[t]) \in Nat
      BY <1>2, <2>3
    <3>4. \A m \in 1 .. Len(engines'[s]) :
            engines'[s][m].position =
              IF m \in 1 .. Len(engines[s]) THEN engines[s][m].position ELSE None
      BY <2>2, <2>4, <3>1, <3>2
    <3>5. /\ Len(engines'[s]) \in Nat
          /\ Len(engines[s]) <= Len(engines'[s])
      BY <2>4, <3>1
    <3> QED
      BY <1>2, <3>3, <3>4, <3>5 DEF Grown
<1>4. CASE StopEngine(s)
  BY <1>4, SameIsGrown DEF StopEngine
<1>5. CASE RestrictToExits(s)
  <2>1. /\ running[s] \in 1 .. Len(engines[s])
        /\ engines' = [engines EXCEPT ![s][running[s]].mode = "EXITS_ONLY"]
    BY <1>2, <1>5
       DEF RestrictToExits, EngineInv, EngineTypes, RunningEngineExists
  <2> QED
    BY <1>2, <2>1, ModeSet DEF Grown, KeepsObjects
<1> QED
  BY <1>3, <1>4, <1>5

LEMMA OperatorRisk ==
  ASSUME IInv, RiskInv, NoneRevived, NEW s \in Strategies,
         StartEngine(s) \/ StopEngine(s) \/ RestrictToExits(s)
  PROVE  RiskInv'
<1>1. UNCHANGED <<rows, deals, loop, up>>
  BY DEF StartEngine, StopEngine, RestrictToExits
<1> QED
  BY <1>1, OperatorGrows, GrownRisk

LEMMA CrashRisk == IInv /\ RiskInv /\ NoneRevived /\ Crash => RiskInv'
<1> SUFFICES ASSUME IInv, RiskInv, NoneRevived, Crash PROVE RiskInv'
  OBVIOUS
<1> USE DEF RiskInv
<1>1. /\ up' = FALSE /\ loop' = IdleLoop /\ UNCHANGED <<rows, deals>>
      /\ \A s \in Strategies : Len(engines'[s]) = 0
  BY DEF Crash
<1>2. RowInv' /\ RestInv' /\ HoldInv'
  BY <1>1, AllRows DEF RestInv, HoldInv, rows
<1> QED
  BY <1>1, <1>2, EscapeQueue

-----------------------------------------------------------------------------
(* The invariant, and what follows from it.                                *)

\* No step takes up an engine object that is done with.
LEMMA WorkRevivesNone ==
  ASSUME IInv,
         Orchestrate \/ Execute \/ WriteRow \/ Handle \/ StartCall \/ Answer
  PROVE  NoneRevived
<1> USE PartsOfIInv
<1>1. running' = running
  BY DEF Orchestrate, SkipDecision, BlockEntry, PrepareEntry, PrepareExit,
         Execute, ExecuteEntry, ExecuteExit, WriteRow, WriteExecution,
         WriteIntent, WriteEngine, WritePosition, WriteTrade, RaiseException,
         Handle, HandleEntry, HandleExit, StartCall, Answer, AnswerEntry,
         AnswerExit, rows
<1>2. loop.at \in Deciding
  BY DEF Orchestrate, SkipDecision, BlockEntry, PrepareEntry, PrepareExit,
         Execute, ExecuteEntry, ExecuteExit, WriteRow, WriteExecution,
         WriteIntent, WriteEngine, WritePosition, WriteTrade, RaiseException,
         Handle, HandleEntry, HandleExit, StartCall, Answer, AnswerEntry,
         AnswerExit, Writing, Deciding
<1> DEFINE Stays == loop'.signals = loop.signals
                      /\ loop'.decisions = loop.decisions
<1>3. /\ \A label : Proceed(label) => Stays
      /\ \A todo : Perform(todo) => Stays
      /\ \A label, todo : Guarded(label, todo) => Stays
      /\ \A todo, guarded : loop' = [loop EXCEPT !.todo = todo] => Stays
      /\ \A todo, guarded :
           loop' = [loop EXCEPT !.todo = todo, !.guarded = guarded] => Stays
  BY DEF Proceed, Perform, Guarded, LoopInv, LoopType
<1>4. /\ Written => Stays \/ NextDecision
      /\ RaiseFrom => Stays \/ Escape
      /\ \A status : ExecuteOrSuppress(status) => Stays \/ NextDecision
      /\ \A i : FailOrEscape(i) => NextDecision \/ Escape
  BY <1>3 DEF Written, RaiseFrom, ExecuteOrSuppress, FailOrEscape
<1> HIDE DEF Stays
<1>5. Orchestrate => Stays \/ NextDecision \/ Escape
  BY <1>4 DEF Orchestrate, SkipDecision, BlockEntry, PrepareEntry, PrepareExit
<1>6. Execute => Stays
  BY <1>3 DEF Execute, ExecuteEntry, ExecuteExit
<1>7. WriteRow => Stays \/ NextDecision \/ Escape
  <2>1. WriteExecution \/ WriteIntent \/ WriteTrade \/ RaiseException
          => Written \/ RaiseFrom
    BY DEF WriteExecution, WriteIntent, WriteTrade, RaiseException
  <2>2. WriteEngine \/ WritePosition => Stays \/ Written
    BY <1>3 DEF WriteEngine, WritePosition
  <2> QED
    BY <1>4, <2>1, <2>2 DEF WriteRow
<1>8. Handle => NextDecision \/ Escape
  BY <1>4 DEF Handle, HandleEntry, HandleExit
<1>9. StartCall \/ Answer => Stays
  BY <1>3 DEF StartCall, Answer, AnswerEntry, AnswerExit
<1>10. Stays \/ NextDecision \/ Escape
  BY <1>5, <1>6, <1>7, <1>8, <1>9
<1> QED
  BY <1>1, <1>2, <1>10, ShrinksRevivesNone, NextShrinks, EscapeShrinks,
     SameShrinks DEF Escape, Stays

LEMMA DecideRevivesNone ==
  ASSUME IInv, Decide
  PROVE  NoneRevived
<1> USE PartsOfIInv
<1>1. running' = running
  BY DEF Decide, RefuseEntry, ProposeEntry, LinkExit, ReviewEntry
<1>2. CASE Proceed("reviewing")
  BY <1>1, <1>2, SameShrinks, ShrinksRevivesNone
     DEF Proceed, LoopInv, LoopType
<1>3. CASE \E g \in loop.signals, i \in Intents \cup {None} : Decided(g, i)
  BY <1>1, <1>3, DecidedRevivesNone
<1> QED
  BY <1>2, <1>3
     DEF Decide, RefuseEntry, ProposeEntry, LinkExit, ReviewEntry, Signalled,
         CloseAdmissible

LEMMA NextRevivesNone == IInv /\ [Next]_vars => NoneRevived
<1> SUFFICES ASSUME IInv, [Next]_vars PROVE NoneRevived
  OBVIOUS
<1> USE PartsOfIInv
<1>1. CASE EvaluatePrice
  <2>1. /\ running' = running /\ loop'.decisions = loop.decisions
        /\ \A g \in loop'.signals : g.engine = running[g.strategy]
    <3>1. PICK S \in SUBSET Strategies :
            loop' = [loop EXCEPT !.at = "deciding",
                                 !.signals = {Signal(s) : s \in S}]
      BY <1>1 DEF EvaluatePrice
    <3>2. loop'.signals = {Signal(s) : s \in S} /\ loop'.decisions = loop.decisions
      BY <3>1 DEF LoopInv, LoopType
    <3>3. \A s \in S : Signal(s).engine = running[Signal(s).strategy]
      BY DEF Signal
    <3>4. running' = running
      BY <1>1 DEF EvaluatePrice
    <3> QED
      BY <3>2, <3>3, <3>4
  <2>2. ASSUME NEW s \in Strategies, NEW n \in 1 .. Len(engines[s]), InUse(s, n)'
        PROVE  InUse(s, n)
    <3>1. CASE \E g \in loop'.signals : g.strategy = s /\ g.engine = n
      BY <2>1, <3>1 DEF InUse
    <3> QED
      BY <2>1, <2>2, <3>1 DEF InUse, InQueue
  <2> QED
    BY <2>2 DEF NoneRevived
<1>2. CASE Pipeline
  BY <1>2, WorkRevivesNone, DecideRevivesNone DEF Pipeline
<1>3. CASE BrokerActs \/ UNCHANGED vars
  BY <1>3, SameShrinks, ShrinksRevivesNone DEF BrokerActs, vars
<1>4. CASE \E s \in Strategies : StartEngine(s)
  <2>1. PICK s \in Strategies : StartEngine(s)
    BY <1>4
  <2>2. /\ loop' = loop /\ running' = [running EXCEPT ![s] = Len(engines[s]) + 1]
        /\ Len(engines[s]) \in Nat
    BY <2>1, LenProperties DEF StartEngine, EngineInv, EngineTypes
  <2>3. \A t \in Strategies : \A n \in 1 .. Len(engines[t]) :
          running'[t] = n => running[t] = n
    BY <2>2 DEF EngineInv, EngineTypes
  <2> QED
    BY <2>2, <2>3 DEF NoneRevived, InUse, InQueue
<1>5. CASE \E s \in Strategies : StopEngine(s) \/ RestrictToExits(s)
  <2>1. loop' = loop
    BY <1>5 DEF StopEngine, RestrictToExits
  <2>2. \A t \in Strategies : \A n \in 1 .. Len(engines[t]) :
          running'[t] = n => running[t] = n
    BY <1>5 DEF StopEngine, RestrictToExits, EngineInv, EngineTypes
  <2> QED
    BY <2>1, <2>2 DEF NoneRevived, InUse, InQueue
<1>6. CASE Crash
  <2>1. /\ loop'.signals = {} /\ Len(loop'.decisions) = 0
        /\ \A s \in Strategies : running'[s] = 0
    BY <1>6 DEF Crash, IdleLoop
  <2> QED
    BY <2>1 DEF NoneRevived, InUse, InQueue
<1> QED
  BY <1>1, <1>2, <1>3, <1>4, <1>5, <1>6 DEF Next

LEMMA NextRisk == IInv /\ RiskInv /\ [Next]_vars => RiskInv'
<1> SUFFICES ASSUME IInv, RiskInv, [Next]_vars PROVE RiskInv'
  OBVIOUS
<1> USE NextRevivesNone
<1>1. CASE UNCHANGED vars
  BY <1>1, PartsOfIInv, SameIsGrown, GrownRisk DEF vars, rows
<1>2. CASE EvaluatePrice
  BY <1>2, EvaluateRisk
<1>3. CASE Pipeline
  BY <1>3, DecideRisk, OrchestrateRisk, ExecuteRisk, WriteRowRisk, HandleRisk,
     StartCallRisk, AnswerRisk DEF Pipeline
<1>4. CASE BrokerActs
  BY <1>4, BrokerRisk
<1>5. CASE \E s \in Strategies : StartEngine(s) \/ StopEngine(s) \/ RestrictToExits(s)
  BY <1>5, OperatorRisk
<1>6. CASE Crash
  BY <1>6, CrashRisk
<1> QED
  BY <1>1, <1>2, <1>3, <1>4, <1>5, <1>6 DEF Next

\* The call in progress is on one of the plans and everything else is at
\* rest, whatever happens and whenever it does.
THEOREM RiskInvariant == Spec => []RiskInv
<1>1. Init => IInv /\ RiskInv
  BY InitIInv, InitRisk
<1>2. IInv /\ RiskInv /\ [Next]_vars => (IInv /\ RiskInv)'
  BY NextIInv, NextRisk
<1> QED
  BY <1>1, <1>2, PTL DEF Spec

\* Between two calls no order is without a recorded outcome
\* (OutcomeIsRecorded): the call that sends an order writes what came of it,
\* whichever answer it has and wherever it raises.
THEOREM OutcomesRecorded == Spec => []OutcomeIsRecorded
<1>1. RiskInv => OutcomeIsRecorded
  <2> SUFFICES ASSUME RiskInv, up, loop.at = "idle", NEW i \in Intents
               PROVE  intents[i].state # "SUBMITTED"
    BY DEF OutcomeIsRecorded
  <2>1. AtRest(i) /\ RowsAgree(i)
    BY DEF RiskInv, RestInv, RowInv, InFlight
  <2>2. CASE intents[i].strategy \in Strategies
    BY <2>1, <2>2 DEF AtRest, Reviewed, OpenRow, Closeable, Unsent, Absent
  <2>3. CASE intents[i].strategy \notin Strategies
    BY <2>1, <2>3 DEF RowsAgree, RowsAgreeOwn, Foreign, ProvenanceStates, Absent
  <2> QED
    BY <2>2, <2>3
<1> QED
  BY <1>1, RiskInvariant, PTL

\* A Trade is recorded once, for a deal the broker has closed and a position
\* row that is closed, and no intent is CLOSED without it (ClosedIsFlat).
THEOREM ClosedFlat == Spec => []ClosedIsFlat
<1>1. RiskInv => ClosedIsFlat
  <2> SUFFICES ASSUME RiskInv, NEW i \in Intents
               PROVE  /\ trades[i] <= 1
                      /\ trades[i] = 1 =>
                           deals[i] = "closed" /\ positions[i] = "closed"
                      /\ intents[i].state = "CLOSED" => trades[i] = 1
    BY DEF ClosedIsFlat
  <2>1. RowsAgree(i)
    BY DEF RiskInv, RowInv
  <2>2. CASE Foreign(i)
    BY <2>2 DEF Foreign, ProvenanceStates
  <2>3. CASE RowsAgreeOwn(i)
    BY <2>3 DEF RowsAgreeOwn, Unsent, OpenStates, Absent
  <2> QED
    BY <2>1, <2>2, <2>3 DEF RowsAgree
<1> QED
  BY <1>1, RiskInvariant, PTL

\* Between two calls the position of a running engine is open in the database
\* and of its own strategy (EngineTracksOpenRow).
THEOREM EnginesTrackOpenRows == Spec => []EngineTracksOpenRow
<1>1. IInv /\ RiskInv => EngineTracksOpenRow
  <2> SUFFICES ASSUME IInv, RiskInv, loop.at = "idle", NEW s \in Strategies,
                      running[s] # 0, engines[s][running[s]].position # None
               PROVE  /\ positions[engines[s][running[s]].position] = "open"
                      /\ intents[engines[s][running[s]].position].strategy = s
    BY DEF EngineTracksOpenRow
  <2>1. running[s] \in 1 .. Len(engines[s])
    BY PartsOfIInv, LenProperties DEF EngineInv, EngineTypes, RunningEngineExists
  <2> QED
    BY <2>1 DEF RiskInv, HoldInv, InUse
<1> QED
  BY <1>1, RiskInvariant, LifecycleInvariant, PTL

\* A deal the broker may hold has an order on record that still owns the
\* instrument, provided that a lost answer is not taken for a refusal.
LEMMA ExposedIsOpen ==
  ASSUME RowInv, ~LostAnswersRaise, NEW i \in Intents, deals[i] \in Exposed
  PROVE  /\ intents[i].state \in OpenStates
         /\ i \in Active /\ intents[i].state \notin {"PROPOSED", "APPROVED"}
<1>1. RowsAgree(i)
  BY DEF RowInv
<1>2. intents[i].state \notin Unsent /\ intents[i].state # "CLOSED"
  BY <1>1 DEF RowsAgree, RowsAgreeOwn, Foreign, Exposed
<1>3. intents[i].state \in OpenStates
  BY <1>1, <1>2 DEF RowsAgree, RowsAgreeOwn, Foreign, Exposed
<1> QED
  BY <1>3 DEF OpenStates, Active, ActiveOwnershipStates

\* What the broker may hold belongs to an active intent whose submission is
\* on record, at every instant and after any crash (ExposureIsOwned).
THEOREM ExposureOwned ==
  ASSUME ~LostAnswersRaise
  PROVE  Spec => []ExposureIsOwned
<1>1. RiskInv => ExposureIsOwned
  BY ExposedIsOpen DEF RiskInv, ExposureIsOwned
<1> QED
  BY <1>1, RiskInvariant, PTL

\* Between two calls what the broker holds is visible, as an open row that an
\* exit can find the intent for or under manual review (OpenRiskIsVisible).
THEOREM OpenRiskVisible ==
  ASSUME ~LostAnswersRaise
  PROVE  Spec => []OpenRiskIsVisible
<1>1. RiskInv => OpenRiskIsVisible
  <2> SUFFICES ASSUME RiskInv, up, loop.at = "idle", NEW i \in Intents,
                      deals[i] \in Exposed
               PROVE  LET s == intents[i].strategy IN
                      \/ positions[i] = "open" /\ i \in CloseAdmissible(s, i)
                      \/ /\ entries[s] =
                              [status |-> "NEEDS_MANUAL_REVIEW", intent |-> i]
                         /\ intents[i].state = "ACKNOWLEDGED"
    BY DEF OpenRiskIsVisible
  <2>1. intents[i].state \in OpenStates
    BY ExposedIsOpen DEF RiskInv
  <2>2. AtRest(i) /\ RowsAgree(i)
    BY DEF RiskInv, RestInv, RowInv, InFlight
  <2>3. intents[i].strategy \in Strategies
    BY <2>1, <2>2 DEF RowsAgree, RowsAgreeOwn, Foreign, Exposed, OpenStates, Absent
  <2>4. Reviewed(i) \/ OpenRow(i)
    BY <2>1, <2>2, <2>3 DEF AtRest, Unsent, OpenStates, Absent
  <2> QED
    BY <2>4 DEF Reviewed, OpenRow, Closeable, CloseAdmissible,
                CloseAdmissibleStates
<1> QED
  BY <1>1, RiskInvariant, PTL

-----------------------------------------------------------------------------
(* The pipeline implements InstrumentOwnership.                            *)

OwnershipStep == [Ownership!Next]_(Ownership!vars)

\* A step that changes one intent and no deal: the intent gives the
\* instrument up, with nothing at the broker, or nobody sees it.
LEMMA IntentStep ==
  ASSUME OneActiveOwner, ExposureIsOwned', deals' = deals, NEW i \in Intents,
         \A j \in Intents \ {i} : intents'[j] = intents[j],
         intents[i].state # Absent, intents'[i].state # Absent,
         intents'[i].state \in ActiveOwnershipStates =>
           intents[i].state \in ActiveOwnershipStates
  PROVE  OwnershipStep
<1>1. Unused' = Unused
  BY DEF Unused
<1>2. CASE /\ intents[i].state \in ActiveOwnershipStates
           /\ intents'[i].state \notin ActiveOwnershipStates
  <2>1. Active = {i} /\ Active' = {}
    BY <1>2 DEF Active, OneActiveOwner
  <2>2. deals[i] \notin Exposed
    BY <2>1 DEF ExposureIsOwned
  <2>3. Ownership!Yield(i)
    BY <1>1, <2>1, <2>2 DEF Ownership!Yield
  <2> QED
    BY <2>3 DEF OwnershipStep, Ownership!Next
<1>3. CASE ~(/\ intents[i].state \in ActiveOwnershipStates
             /\ intents'[i].state \notin ActiveOwnershipStates)
  <2>1. Active' = Active
    BY <1>3 DEF Active
  <2> QED
    BY <1>1, <2>1 DEF OwnershipStep, Ownership!vars
<1> QED
  BY <1>2, <1>3

\* A step that changes one deal and no intent: an order is sent, the broker
\* settles it, or nobody sees it.
LEMMA DealStep ==
  ASSUME RowTypes, intents' = intents, NEW d \in Intents, NEW to \in DealStates,
         deals' = [deals EXCEPT ![d] = to],
         \/ deals[d] = "none" /\ to = "pending" /\ Active = {d}
         \/ deals[d] \in Exposed /\ to # "none"
  PROVE  OwnershipStep
<1> DEFINE Ordered == {i \in Intents : deals[i] # "none"}
           Open == {i \in Intents : deals[i] \in Exposed}
<1>1. Active' = Active /\ Unused' = Unused
  BY DEF Active, Unused
<1>2. deals'[d] = to /\ \A j \in Intents \ {d} : deals'[j] = deals[j]
  BY DEF RowTypes
<1>3. CASE deals[d] = "none" /\ to = "pending" /\ Active = {d}
  <2>1. Ordered' = Ordered \cup {d} /\ d \notin Ordered
    BY <1>2, <1>3
  <2>2. Open' = Open \cup {d}
    BY <1>2, <1>3 DEF Exposed
  <2>3. Ownership!Order(d)
    BY <1>1, <1>3, <2>1, <2>2 DEF Ownership!Order
  <2> QED
    BY <2>3 DEF OwnershipStep, Ownership!Next
<1>4. CASE deals[d] \in Exposed /\ to # "none"
  <2>1. Ordered' = Ordered
    BY <1>2, <1>4 DEF Exposed
  <2>2. CASE to \in Exposed
    <3>1. Open' = Open
      BY <1>2, <1>4, <2>2
    <3> QED
      BY <1>1, <2>1, <3>1 DEF OwnershipStep, Ownership!vars
  <2>3. CASE to \notin Exposed
    <3>1. Open' = Open \ {d} /\ d \in Open
      BY <1>2, <1>4, <2>3
    <3>2. Ownership!Settle(d)
      BY <1>1, <2>1, <3>1 DEF Ownership!Settle
    <3> QED
      BY <3>2 DEF OwnershipStep, Ownership!Next
  <2> QED
    BY <2>2, <2>3
<1> QED
  BY <1>3, <1>4

LEMMA UnseenStep ==
  ASSUME intents' = intents, deals' = deals
  PROVE  OwnershipStep
BY DEF OwnershipStep, Ownership!vars, Active, Unused

LEMMA ClaimStep ==
  ASSUME IntentInv, NEW signal, ProposeEntry(signal)
  PROVE  OwnershipStep
<1>1. Active = {} /\ deals' = deals
  BY DEF ProposeEntry, Unowned
<1>2. PICK i \in Unused :
        intents' = [intents EXCEPT ![i].state = "PROPOSED",
                                   ![i].strategy = signal.strategy]
  BY DEF ProposeEntry
<1>3. /\ i \in Intents /\ intents[i].state = Absent
      /\ intents'[i].state = "PROPOSED"
      /\ \A j \in Intents \ {i} : intents'[j] = intents[j]
  BY <1>2 DEF Unused, IntentInv, IntentTypes
<1>4. Active' = {i}
  BY <1>1, <1>3 DEF Active, ActiveOwnershipStates
<1>5. /\ Intents \ Unused' = (Intents \ Unused) \cup {i}
      /\ i \notin Intents \ Unused
  BY <1>3 DEF Unused, Absent
<1>6. Ownership!Claim(i)
  BY <1>1, <1>4, <1>5 DEF Ownership!Claim
<1> QED
  BY <1>3, <1>6 DEF OwnershipStep, Ownership!Next

\* The steps that write a new state of an intent.
LEMMA StateStep ==
  ASSUME IntentInv, ExposureIsOwned', deals' = deals, NEW i \in Intents,
         NEW state \in IntentStates, intents'[i].state = state,
         \A j \in Intents \ {i} : intents'[j] = intents[j],
         intents[i].state # Absent,
         \/ MayBecome(i, state)
         \/ state \notin ActiveOwnershipStates
         \/ intents[i].state \in ActiveOwnershipStates
  PROVE  OwnershipStep
<1>1. intents[i].state \in IntentStates
  BY DEF IntentInv, IntentTypes
<1>2. state \in ActiveOwnershipStates =>
        intents[i].state \in ActiveOwnershipStates
  BY <1>1, EndedStaysEnded DEF MayBecome
<1>3. state # Absent
  BY StatesAreKnown
<1> QED
  BY <1>2, <1>3, IntentStep DEF IntentInv

LEMMA OwnershipDecides ==
  ASSUME IInv, ExposureIsOwned', Decide
  PROVE  OwnershipStep
<1> USE PartsOfIInv
<1>1. ASSUME NEW signal \in loop.signals, ProposeEntry(signal)
      PROVE  OwnershipStep
  BY <1>1, ClaimStep
<1>2. ASSUME NEW signal \in loop.signals, RefuseEntry(signal) \/ LinkExit(signal)
      PROVE  OwnershipStep
  BY <1>2, UnseenStep DEF RefuseEntry, LinkExit, rows
<1>3. ASSUME NEW signal \in loop.signals, NEW i \in Intents,
             ReviewEntry(signal, i)
      PROVE  OwnershipStep
  <2>1. PICK state \in {"APPROVED", "REJECTED"} : SetIntent(i, state)
    BY <1>3 DEF ReviewEntry
  <2>2. /\ intents[i].state = "PROPOSED" /\ deals' = deals
        /\ intents'[i].state = state
        /\ \A j \in Intents \ {i} : intents'[j] = intents[j]
    BY <1>3, <2>1 DEF ReviewEntry, SetIntent, IntentInv, IntentTypes
  <2>3. /\ state \in IntentStates /\ "PROPOSED" # Absent
        /\ "PROPOSED" \in ActiveOwnershipStates
    BY StatesAreKnown DEF Absent, ActiveOwnershipStates
  <2> QED
    BY <2>2, <2>3, StateStep
<1> QED
  BY <1>1, <1>2, <1>3 DEF Decide

\* The writes of the call in progress to its own intent.
LEMMA OwnershipWrites ==
  ASSUME IInv, ExposureIsOwned', BlockEntry \/ WriteIntent \/ Handle
  PROVE  OwnershipStep
<1> USE PartsOfIInv
<1>1. deals' = deals /\ loop.at \in Deciding /\ Current.intent # None
  BY CurrentTypes DEF BlockEntry, WriteIntent, Writing, Handle, HandleEntry,
     HandleExit, Deciding, Working
<1>2. PICK i \in Intents : Current.intent = i /\ intents[i].state # Absent
  BY <1>1, CurrentTypes
<1>3. CASE intents' = intents
  BY <1>1, <1>3, UnseenStep
<1>4. CASE BlockEntry \/ (Handle /\ intents' # intents)
  <2>1. SetIntent(i, "FAILED")
    BY <1>2, <1>4 DEF BlockEntry, Handle, HandleEntry, HandleExit, FailOrEscape
  <2>2. /\ intents'[i].state = "FAILED"
        /\ \A j \in Intents \ {i} : intents'[j] = intents[j]
    BY <2>1 DEF SetIntent, IntentInv, IntentTypes
  <2>3. "FAILED" \in IntentStates /\ "FAILED" \notin ActiveOwnershipStates
    BY StatesAreKnown
  <2> QED
    BY <1>1, <1>2, <2>2, <2>3, StateStep
<1>5. CASE WriteIntent /\ intents' # intents
  <2>1. /\ MayBecome(i, Arg)
        /\ intents' = [intents EXCEPT
              ![i].state = Arg,
              ![i].reference = IF Writing("referenced") THEN i ELSE @]
    BY <1>2, <1>5 DEF WriteIntent
  <2>2. /\ intents'[i].state = Arg
        /\ \A j \in Intents \ {i} : intents'[j] = intents[j]
    BY <2>1 DEF IntentInv, IntentTypes
  <2>3. Arg \in IntentStates
    BY <1>5, ArgTypes DEF WriteIntent, Writing
  <2> HIDE DEF Arg
  <2> QED
    BY <1>1, <1>2, <2>1, <2>2, <2>3, StateStep
<1> QED
  BY <1>3, <1>4, <1>5

LEMMA OwnershipCalls ==
  ASSUME IInv, RiskInv, StartCall
  PROVE  OwnershipStep
<1> USE PartsOfIInv
<1>1. intents' = intents /\ loop.at = "writing"
  BY DEF StartCall, Writing, rows
<1>2. CASE deals' = deals
  BY <1>1, <1>2, UnseenStep
<1>3. CASE /\ Current.kind = "entry"
           /\ deals' = [deals EXCEPT ![Current.intent] = "pending"]
  <2>1. PICK i \in Intents, s \in Strategies : \E n \in 1 .. Len(engines[s]) :
          \E plan \in EntryPlans : \E k \in 1 .. Len(plan.script) :
            EntryPlace(i, s, n, plan, k)
    BY <1>1, <1>3, EntryHasPlace
  <2>2. /\ Current.intent = i /\ deals[i] = "none"
        /\ intents[i].state = "SUBMITTED"
    BY <2>1 DEF StartCall, Writing, EntryPlace, EntryWrite, EntryStage, Called,
                Stage
  <2>3. Active = {i}
    BY <2>2 DEF Active, ActiveOwnershipStates, IntentInv, OneActiveOwner
  <2> QED
    BY <1>1, <1>3, <2>2, <2>3, DealStep DEF DealStates
<1>4. ASSUME NEW d \in CloseTargets, deals' = [deals EXCEPT ![d] = "closing"]
      PROVE  OwnershipStep
  <2>1. d \in Intents /\ deals[d] \in {"open", "closing"}
    BY DEF CloseTargets
  <2> QED
    BY <1>1, <1>4, <2>1, DealStep DEF DealStates, Exposed
<1> QED
  BY <1>2, <1>3, <1>4 DEF StartCall

LEMMA OwnershipBroker ==
  ASSUME IInv, BrokerActs
  PROVE  OwnershipStep
<1>1. intents' = intents /\ RowTypes
  BY PartsOfIInv DEF BrokerActs, rows
<1>2. PICK d \in Intents : \E to \in {"open", "void", "closed"} :
        /\ deals' = [deals EXCEPT ![d] = to]
        /\ deals[d] \in {"pending", "closing"}
  BY DEF BrokerActs
<1>3. PICK to \in {"open", "void", "closed"} :
        /\ deals' = [deals EXCEPT ![d] = to]
        /\ deals[d] \in {"pending", "closing"}
  BY <1>2
<1>4. to \in DealStates /\ to # "none" /\ deals[d] \in Exposed
  BY <1>3 DEF DealStates, Exposed
<1> QED
  BY <1>1, <1>3, <1>4, DealStep

LEMMA OwnershipMoves ==
  ASSUME IInv, RiskInv, ExposureIsOwned', [Next]_vars
  PROVE  OwnershipStep
<1>1. CASE UNCHANGED vars
  BY <1>1, UnseenStep DEF vars
<1>2. CASE EvaluatePrice
  BY <1>2, UnseenStep DEF EvaluatePrice, rows
<1>3. CASE Decide
  BY <1>3, OwnershipDecides
<1>4. CASE SkipDecision \/ PrepareEntry \/ PrepareExit \/ Execute
  BY <1>4, UnseenStep DEF SkipDecision, PrepareEntry, PrepareExit, Execute,
     ExecuteEntry, ExecuteExit, rows
<1>5. CASE BlockEntry \/ WriteIntent \/ Handle
  BY <1>5, OwnershipWrites
<1>6. CASE \/ WriteExecution \/ WriteEngine \/ WritePosition \/ WriteTrade
           \/ RaiseException
  BY <1>6, UnseenStep DEF WriteExecution, WriteEngine, WritePosition,
     WriteTrade, RaiseException, rows
<1>7. CASE StartCall
  BY <1>7, OwnershipCalls
<1>8. CASE Answer
  BY <1>8, UnseenStep DEF Answer, AnswerEntry, AnswerExit, rows
<1>9. CASE BrokerActs
  BY <1>9, OwnershipBroker
<1>10. CASE \E s \in Strategies :
              StartEngine(s) \/ StopEngine(s) \/ RestrictToExits(s)
  BY <1>10, UnseenStep DEF StartEngine, StopEngine, RestrictToExits, rows
<1>11. CASE Crash
  BY <1>11, UnseenStep DEF Crash, rows
<1> QED
  BY <1>1, <1>2, <1>3, <1>4, <1>5, <1>6, <1>7, <1>8, <1>9, <1>10, <1>11
     DEF Next, Pipeline, Orchestrate, WriteRow

LEMMA OwnershipInit == Init => Ownership!Init
BY DEF Init, Ownership!Init, Active, Unused, ActiveOwnershipStates, Absent,
       Exposed

\* The pipeline implements InstrumentOwnership: one owner at a time, one order
\* per owner, and no owner lets go while the broker may hold what it ordered
\* (OwnershipSpec).
THEOREM OwnershipRefinement ==
  ASSUME ~LostAnswersRaise
  PROVE  Spec => OwnershipSpec
<1>1. Init => Ownership!Init
  BY OwnershipInit
<1>2. IInv /\ RiskInv /\ ExposureIsOwned' /\ [Next]_vars =>
        [Ownership!Next]_(Ownership!vars)
  BY OwnershipMoves DEF OwnershipStep
<1>3. Spec => []ExposureIsOwned
  BY ExposureOwned
<1> QED
  BY <1>1, <1>2, <1>3, LifecycleInvariant, RiskInvariant, PTL
     DEF Spec, OwnershipSpec, Ownership!Spec

=============================================================================
