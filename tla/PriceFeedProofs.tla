-------------------------- MODULE PriceFeedProofs --------------------------
(***************************************************************************)
(* Theorems about PriceFeed for every choice of the ages that count: types *)
(* and the debounce of the flags.                                          *)
(***************************************************************************)
EXTENDS PriceFeed, TLAPS

\* A recovery is counted during a fallback only, and never from before the
\* last fault a check found.
CalmCoversRecovery == healthy <= calm /\ (healthy # Never => fallback)

IInv == TypeOK /\ CalmCoversRecovery

LEMMA OlderType ==
  ASSUME NEW cap \in Nat, NEW age \in Ages(cap)
  PROVE  Older(age, cap) \in Ages(cap)
BY AgeAssumption DEF Older, Ages, Never

LEMMA OlderWithinType ==
  ASSUME NEW cap \in Nat, NEW age \in Ages(cap)
  PROVE  OlderWithin(age, cap) \in Ages(cap)
BY DEF OlderWithin, Within, Ages, Never

LEMMA NatConstants ==
  MaxPriceAge \in Nat /\ StaleAfter \in Nat /\ Debounce \in Nat
BY AgeAssumption

\* The form of an evaluation, which the provers see better by its name.
Evaluations == [by : {"nobody", "stream", "poll"},
                at : {"idle", "deciding", "approved"}]

LEMMA IdleType == Idle \in Evaluations /\ Idle.by = "nobody"
BY DEF Idle, Evaluations

LEMMA InitIsSound == Init => IInv
<1> SUFFICES ASSUME Init PROVE IInv
  OBVIOUS
<1> USE NatConstants
<1>1. evaluation \in Evaluations /\ evaluation.by = "nobody"
  BY IdleType DEF Init
<1>2. /\ tickAge \in Ages(StaleAfter + 1)
      /\ {lastTick, lastPrice} \subseteq Ages(MaxPriceAge) /\ failing \in Ages(Debounce)
      /\ healthy \in Ages(Debounce) /\ calm \in 0 .. Debounce
      /\ healthy <= calm
  BY DEF Init, Ages, Never
<1> QED
  BY <1>1, <1>2 DEF Init, IInv, TypeOK, CalmCoversRecovery, Evaluations

LEMMA PassKeeps == ASSUME IInv, Pass PROVE IInv'
<1> USE NatConstants
<1>1. /\ tickAge \in Ages(StaleAfter + 1)
      /\ {lastTick, lastPrice} \subseteq Ages(MaxPriceAge) /\ failing \in Ages(Debounce)
      /\ healthy \in Ages(Debounce) /\ calm \in 0 .. Debounce
  BY DEF IInv, TypeOK
<1>2. /\ tickAge' \in Ages(StaleAfter + 1)
      /\ {lastTick', lastPrice'} \subseteq Ages(MaxPriceAge) /\ failing' \in Ages(Debounce)
      /\ healthy' \in Ages(Debounce)
  <2>1. StaleAfter + 1 \in Nat
    OBVIOUS
  <2>2. /\ tickAge' = Older(tickAge, StaleAfter + 1)
        /\ lastTick' = OlderWithin(lastTick, MaxPriceAge)
        /\ lastPrice' = OlderWithin(lastPrice, MaxPriceAge)
        /\ failing' = Older(failing, Debounce)
        /\ healthy' = Older(healthy, Debounce)
    BY DEF Pass
  <2> QED BY <1>1, <2>1, <2>2, OlderType, OlderWithinType
<1>3. /\ calm' \in 0 .. Debounce
      /\ healthy' <= calm' /\ (healthy' # Never => fallback')
      /\ (failing = Never \/ healthy = Never)
           => (failing' = Never \/ healthy' = Never)
  BY <1>1 DEF Pass, Older, IInv, CalmCoversRecovery, Ages, Never
<1> QED
  BY <1>2, <1>3 DEF Pass, IInv, TypeOK, CalmCoversRecovery, loopVars

LEMMA StatusKeeps ==
  ASSUME IInv,
         \/ \E up \in BOOLEAN : StatusChange(up)
         \/ ServerError \/ BrokerChange \/ StatusViewed
  PROVE  IInv'
<1>1. ASSUME NEW up \in BOOLEAN, StatusChange(up) PROVE IInv'
  BY <1>1 DEF IInv, TypeOK, CalmCoversRecovery, StatusChange, flagVars, loopVars
<1>2. CASE ServerError
  BY <1>2 DEF IInv, TypeOK, CalmCoversRecovery, ServerError, streamVars,
     flagVars, loopVars
<1>3. CASE BrokerChange
  BY <1>3 DEF IInv, TypeOK, CalmCoversRecovery, BrokerChange, streamVars,
     healthVars, flagVars, loopVars
<1>4. CASE StatusViewed
  BY <1>4 DEF IInv, TypeOK, CalmCoversRecovery, StatusViewed, BrokerChecked,
     streamVars, flagVars, loopVars
<1> QED BY <1>1, <1>2, <1>3, <1>4

LEMMA TickKeeps == ASSUME IInv, Tick \/ TickOfAnother PROVE IInv'
<1>1. 0 \in Ages(StaleAfter + 1) /\ 0 \in Ages(MaxPriceAge)
  BY NatConstants DEF Ages
<1>2. /\ Heard
      /\ tickAge' \in {tickAge, 0} /\ queued' \in {queued, TRUE}
  BY DEF Tick, TickOfAnother
<1> QED
  BY <1>1, <1>2 DEF IInv, TypeOK, CalmCoversRecovery, Heard, flagVars, loopVars

LEMMA EvaluationKeeps == ASSUME IInv, Evaluation PROVE IInv'
<1> USE NatConstants
<1>1. CASE Declines \/ Blocks \/ Orders
  <2>1. /\ Returns
        /\ brokerUp' \in BOOLEAN
        /\ UNCHANGED <<enabled, streamVars, streamUp, flagVars, answering>>
    BY <1>1 DEF Declines, Blocks, Orders, IInv, TypeOK
  <2>2. /\ evaluation' \in Evaluations /\ evaluation'.by = "nobody"
        /\ stream' \in {stream, "reconcile"} /\ round' \in {round, "tier2"}
        /\ lastPrice' \in Ages(MaxPriceAge)
    BY <2>1, IdleType DEF Returns, IInv, TypeOK, Ages
  <2> QED
    BY <2>1, <2>2 DEF IInv, TypeOK, CalmCoversRecovery, Evaluations,
       streamVars, flagVars
<1>2. CASE Approves
  BY <1>2 DEF IInv, TypeOK, CalmCoversRecovery, Approves, BrokerChecked,
     streamVars, flagVars
<1>3. CASE StatusFails
  <2>1. /\ evaluation' \in Evaluations /\ evaluation'.by = "nobody"
        /\ stream' \in {stream, "reconcile"} /\ round' \in {round, "tier1"}
    BY <1>3, IdleType DEF StatusFails, Raises
  <2> QED
    BY <1>3, <2>1 DEF IInv, TypeOK, CalmCoversRecovery, Evaluations,
       StatusFails, BrokerChecked, streamVars, flagVars
<1> QED BY <1>1, <1>2, <1>3 DEF Evaluation

LEMMA StreamingKeeps == ASSUME IInv, Streaming PROVE IInv'
<1> USE NatConstants
<1>1. CASE Reconcile
  BY <1>1 DEF IInv, TypeOK, CalmCoversRecovery, Reconcile, Ages, Never,
     flagVars
<1>2. CASE DrainsUpdate
  <2>1. evaluation' \in Evaluations /\ evaluation'.by = "stream"
    BY <1>2 DEF DrainsUpdate, Begin, Evaluations
  <2> QED
    BY <1>2, <2>1 DEF IInv, TypeOK, CalmCoversRecovery, Evaluations,
       DrainsUpdate, healthVars, flagVars
<1>3. CASE Drains
  BY <1>3 DEF IInv, TypeOK, CalmCoversRecovery, Drains, healthVars, flagVars
<1> QED BY <1>1, <1>2, <1>3 DEF Streaming

\* What a check does to the flags, whatever it finds.
LEMMA FlagsKeep ==
  ASSUME IInv, UpdateFlags
  PROVE  /\ {fallback', stale'} \subseteq BOOLEAN
         /\ failing' \in Ages(Debounce) /\ healthy' \in Ages(Debounce)
         /\ calm' \in 0 .. Debounce
         /\ stale' => fallback'
         /\ failing' = Never \/ healthy' = Never
         /\ healthy' <= calm' /\ (healthy' # Never => fallback')
<1> USE NatConstants
<1>1. /\ failing \in Ages(Debounce) /\ healthy \in Ages(Debounce)
      /\ calm \in 0 .. Debounce /\ {fallback, stale} \subseteq BOOLEAN
      /\ stale => fallback
      /\ healthy <= calm /\ (healthy # Never => fallback)
  BY DEF IInv, TypeOK, CalmCoversRecovery
<1>2. CASE Reason = "none"
  <2>1. failing' = Never /\ calm' = IF fallback' THEN calm ELSE 0
    BY <1>2 DEF UpdateFlags, SeenFailing
  <2>2. healthy' \in Ages(Debounce) /\ healthy' <= calm
    BY <1>1 DEF UpdateFlags, SeenHealthy, Since, Ages, Never
  <2>3. /\ {fallback', stale'} \subseteq BOOLEAN
        /\ stale' => fallback'
    BY <1>1, <1>2 DEF UpdateFlags
  <2>4. healthy' # Never => fallback'
    <3>1. CASE Settled
      BY <3>1 DEF UpdateFlags
    <3>2. CASE ~Settled
      BY <1>1, <1>2, <3>2 DEF UpdateFlags, SeenHealthy
    <3> QED BY <3>1, <3>2
  <2> QED BY <1>1, <2>1, <2>2, <2>3, <2>4 DEF Ages, Never
<1>3. CASE Reason # "none"
  <2>1. failing' \in Ages(Debounce) /\ calm' = 0
    BY <1>1, <1>3 DEF UpdateFlags, SeenFailing, Since, Ages, Never
  <2>2. healthy' = Never
    BY <1>3 DEF UpdateFlags, SeenHealthy
  <2>3. /\ {fallback', stale'} \subseteq BOOLEAN
        /\ stale' => fallback'
    BY <1>1, <1>3 DEF UpdateFlags
  <2> QED BY <2>1, <2>2, <2>3 DEF Ages, Never
<1> QED BY <1>2, <1>3

LEMMA CheckKeeps == ASSUME IInv, Check PROVE IInv'
<1>1. /\ {fallback', stale'} \subseteq BOOLEAN
      /\ failing' \in Ages(Debounce) /\ healthy' \in Ages(Debounce)
      /\ calm' \in 0 .. Debounce
      /\ stale' => fallback'
      /\ failing' = Never \/ healthy' = Never
      /\ healthy' <= calm' /\ (healthy' # Never => fallback')
  <2>1. CASE UpdateFlags
    BY <2>1, FlagsKeep
  <2>2. CASE UNCHANGED flagVars
    BY <2>2 DEF IInv, TypeOK, CalmCoversRecovery, flagVars
  <2> QED BY <2>1, <2>2 DEF Check
<1>2. streamUp' \in BOOLEAN
  BY DEF Check, ReportedUp, IInv, TypeOK
<1>3. round' \in {"fetch", "tier2"} /\ round = "tier1"
  BY DEF Check
<1> QED
  BY <1>1, <1>2, <1>3
     DEF IInv, TypeOK, CalmCoversRecovery, Check, streamVars

LEMMA RoundKeeps ==
  ASSUME IInv, PollReturns \/ ChecksAnother \/ EndsRound \/ Refresh
  PROVE  IInv'
<1> USE NatConstants
<1>1. CASE Polls
  <2>1. evaluation' \in Evaluations /\ evaluation'.by = "poll"
    BY <1>1 DEF Polls, Begin, Evaluations
  <2> QED
    BY <1>1, <2>1 DEF IInv, TypeOK, CalmCoversRecovery, Evaluations,
       Polls, streamVars, healthVars, flagVars
<1>2. CASE PollFails
  BY <1>2 DEF IInv, TypeOK, CalmCoversRecovery, PollFails,
     streamVars, healthVars, flagVars
<1>3. CASE PollIsUseless
  BY <1>3 DEF IInv, TypeOK, CalmCoversRecovery, PollIsUseless, streamVars,
     healthVars, flagVars
<1>4. CASE ChecksAnother
  BY <1>4 DEF IInv, TypeOK, CalmCoversRecovery, ChecksAnother, Ages, Never,
     streamVars, flagVars, loopVars
<1>5. CASE EndsRound \/ Refresh
  <2>1. round = "tier2" /\ round' = "tier1"
    BY <1>5 DEF EndsRound, Refresh
  <2> QED
    BY <1>5, <2>1 DEF IInv, TypeOK, CalmCoversRecovery, EndsRound, Refresh,
       BrokerChecked, streamVars, healthVars, flagVars
<1> QED BY <1>1, <1>2, <1>3, <1>4, <1>5 DEF PollReturns

LEMMA StutterKeeps == ASSUME IInv, UNCHANGED vars PROVE IInv'
BY DEF IInv, TypeOK, CalmCoversRecovery, vars, streamVars, healthVars,
       flagVars, loopVars

LEMMA NextKeeps == IInv /\ [Next]_vars => IInv'
BY PassKeeps, StatusKeeps, TickKeeps, EvaluationKeeps, StreamingKeeps,
   CheckKeeps, RoundKeeps, StutterKeeps DEF Next, Outside, MarketData

\* The invariant holds in every state.
THEOREM Inductive == Spec => []IInv
BY InitIsSound, NextKeeps, PTL DEF Spec

\* Every variable keeps to its type, an instrument reported stale is being
\* polled, and no debounce runs both ways at once.
THEOREM FeedTypes == Spec => []TypeOK
<1>1. IInv => TypeOK
  BY DEF IInv
<1> QED BY <1>1, Inductive, PTL

LEMMA FlagsEndWell ==
  ASSUME IInv, Next, fallback, ~fallback'
  PROVE  /\ connected /\ subscribed /\ Within(tickAge, StaleAfter)
         /\ calm >= Debounce
         /\ ~stale'
<1> USE NatConstants
<1>1. Check /\ UpdateFlags
  <2>1. CASE Outside
    BY <2>1 DEF Outside, Pass, StatusChange, ServerError, Tick, TickOfAnother,
       Heard, BrokerChange, StatusViewed, flagVars
  <2>2. CASE Evaluation
    BY <2>2 DEF Evaluation, Declines, Approves, StatusFails, Blocks, Orders,
       flagVars
  <2>3. CASE Streaming
    BY <2>3 DEF Streaming, Reconcile, DrainsUpdate, Drains, flagVars
  <2>4. CASE MarketData
    BY <2>4 DEF MarketData, PollReturns, Polls, PollFails, PollIsUseless,
       ChecksAnother, EndsRound, Refresh, Check, flagVars
  <2> QED BY <2>1, <2>2, <2>3, <2>4 DEF Next
<1>2. Settled /\ Reason = "none" /\ stale' = FALSE
  BY <1>1 DEF UpdateFlags
<1>3. connected /\ subscribed /\ tickAge # Never /\ ~(tickAge > StaleAfter)
  BY <1>2 DEF Reason
<1>4. tickAge <= StaleAfter
  BY <1>3 DEF IInv, TypeOK, Ages, Never
<1>5. SeenHealthy >= Debounce
  BY <1>2 DEF Settled
<1>6. calm >= Debounce
  BY <1>2, <1>5 DEF SeenHealthy, Since, Never, IInv, TypeOK,
     CalmCoversRecovery, Ages
<1> QED BY <1>2, <1>3, <1>4, <1>6 DEF Within

\* Polling is declared over only after a whole debounce without a fault
\* (market_data_service.py, _update_polling_health_transition).
THEOREM FlagsOutlast == Spec => FlagsOutlastTheFault
<1>1. IInv /\ [Next]_vars =>
        [fallback /\ ~fallback' =>
           /\ connected /\ subscribed /\ Within(tickAge, StaleAfter)
           /\ calm >= Debounce
           /\ ~stale']_vars
  BY FlagsEndWell
<1> QED BY <1>1, Inductive, PTL DEF Spec, FlagsOutlastTheFault
=============================================================================
