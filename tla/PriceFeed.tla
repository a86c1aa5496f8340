----------------------------- MODULE PriceFeed -----------------------------
(***************************************************************************)
(* How prices of an instrument reach its engines, and what may be traded   *)
(* on them:                                                                *)
(*   services/ig_streaming_service.py      ticks, subscriptions, the drain *)
(*   services/market_data_service.py       polling when the stream fails   *)
(*   services/health_service.py            what both report                *)
(*   services/operational_state_service.py may entries be opened?          *)
(*   services/market_status_service.py     the broker's word on the market *)
(*   core/ig_broker.py                     market details and their cache  *)
(* (paths under backend/app).                                              *)
(*                                                                         *)
(* One instrument of the streaming plan is followed in detail; the ticks,  *)
(* polls and failures of the others are actions of their own, because the  *)
(* flags of health_service are shared by all of them.  The SDK's thread    *)
(* and API threads act at any time.  The streaming task and the polling    *)
(* task share the event loop, which evaluates one update after another;    *)
(* their short steps may come between the steps of an evaluation here,     *)
(* though it calls the broker synchronously: more than the loop allows,    *)
(* and what other threads do to the flags at that moment anyway.           *)
(*                                                                         *)
(* Times are kept as ages, capped where nothing compares them any more, so *)
(* no clock has to be bounded.  The instrument stays in the plan and keeps *)
(* an engine.  The limit on subscription churn, changed credentials and    *)
(* changes of the plan are choices of Reconcile; an answer that fails for  *)
(* one instrument only is an outage here, and so is a used-up allowance.   *)
(***************************************************************************)
EXTENDS Integers

CONSTANTS
  MaxPriceAge,   \* max_price_age_ms, in ticks as are the rest
  StaleAfter,    \* the larger of ig_streaming_stale_after and three polls
  Debounce       \* ig_streaming_transition_debounce_seconds

ASSUME AgeAssumption == {MaxPriceAge, StaleAfter, Debounce} \subseteq Nat

VARIABLES
  enabled,     \* is_enabled() when the process started
  client,      \* a Lightstreamer client exists
  subscribed,  \* the instrument is in subscribed_instruments
  connected,   \* StreamHealthState.connected: the last status
  tickAge,     \* age of the instrument's last tick
  lastTick,    \* StreamHealthState.last_tick_at, of any instrument
  queued,      \* an update of the instrument waits in the queue
  streamUp,    \* health_service._stream_connected
  brokerUp,    \* health_service._broker_connected
  lastPrice,   \* age of health_service._last_price_update
  failing,     \* _fallback_reason_first_seen_at of the instrument, as an age
  healthy,     \* _healthy_first_seen_at of the instrument, as an age
  fallback,    \* in _fallback_active_instruments, here and in health_service
  stale,       \* in _stale_stream_instruments, here and in health_service
  answering,   \* the broker serves reads (reachable, allowance left)
  stream,      \* where IGStreamingService.run is
  round,       \* where MarketDataService.run is
  evaluation,  \* the price update being processed
  calm         \* history: during a fallback, since a check last found fault

streamVars == <<client, subscribed, connected, tickAge, lastTick, queued>>
healthVars == <<streamUp, brokerUp, lastPrice>>
flagVars == <<failing, healthy, fallback, stale, calm>>
loopVars == <<stream, round, evaluation>>
vars == <<enabled, streamVars, healthVars, flagVars, answering,
          loopVars>>

Never == -1
Within(age, limit) == age # Never /\ age <= limit
Ages(cap) == {Never} \cup 0 .. cap
Older(age, cap) == IF age = Never \/ age >= cap THEN age ELSE age + 1
\* An age that nothing tells from never once it is over the limit.
OlderWithin(age, limit) == IF Within(age, limit - 1) THEN age + 1 ELSE Never

Idle == [by |-> "nobody", at |-> "idle"]

TypeOK ==
  /\ {enabled, client, subscribed, connected, queued, streamUp, brokerUp,
      fallback, stale, answering} \subseteq BOOLEAN
  /\ tickAge \in Ages(StaleAfter + 1)
  /\ {lastTick, lastPrice} \subseteq Ages(MaxPriceAge)
  /\ failing \in Ages(Debounce) /\ healthy \in Ages(Debounce)
  /\ calm \in 0 .. Debounce
  /\ stream \in {"reconcile", "drain"}
  /\ round \in {"tier1", "fetch", "tier2"}
  /\ evaluation \in [by : {"nobody", "stream", "poll"},
                     at : {"idle", "deciding", "approved"}]
  \* A stale instrument is polled, a debounce runs one way only, and a task
  \* whose update is being processed waits for it.
  /\ stale => fallback
  /\ failing = Never \/ healthy = Never
  /\ evaluation.by = "stream" => stream = "drain"
  /\ evaluation.by = "poll" => round = "fetch"

Init ==
  /\ enabled \in BOOLEAN
  /\ client = FALSE /\ subscribed = FALSE /\ connected = FALSE
  /\ tickAge = Never /\ lastTick = Never /\ queued = FALSE
  /\ streamUp = FALSE /\ brokerUp = FALSE /\ lastPrice = Never
  /\ failing = Never /\ healthy = Never /\ fallback = FALSE /\ stale = FALSE
  /\ calm = 0
  /\ answering = TRUE
  /\ stream = "reconcile" /\ round = "tier1" /\ evaluation = Idle

-----------------------------------------------------------------------------
(* Time, the SDK's thread, API threads and the broker                      *)

Pass ==
  /\ tickAge' = Older(tickAge, StaleAfter + 1)
  /\ lastTick' = OlderWithin(lastTick, MaxPriceAge)
  /\ lastPrice' = OlderWithin(lastPrice, MaxPriceAge)
  /\ failing' = Older(failing, Debounce)
  /\ healthy' = Older(healthy, Debounce)
  /\ calm' = IF fallback THEN Older(calm, Debounce) ELSE calm
  /\ UNCHANGED <<enabled, client, subscribed, connected, queued, streamUp,
                 brokerUp, fallback, stale, answering, loopVars>>

\* onStatusChange; a client that was replaced may still report.
StatusChange(up) ==
  /\ client
  /\ connected' = up
  /\ streamUp' = up
  /\ UNCHANGED <<enabled, client, subscribed, tickAge, lastTick,
                 queued, brokerUp, lastPrice, flagVars, answering, loopVars>>

\* onServerError leaves the last status alone.
ServerError ==
  /\ client
  /\ streamUp' = FALSE
  /\ UNCHANGED <<enabled, streamVars, brokerUp, lastPrice, flagVars,
                 answering, loopVars>>

\* publish_price_update for any instrument.
Heard ==
  /\ client
  /\ lastTick' = 0
  /\ lastPrice' = 0
  /\ streamUp' = TRUE
  /\ UNCHANGED <<enabled, client, subscribed, connected, brokerUp,
                 flagVars, answering, loopVars>>

\* onItemUpdate; the last update of a subscription may come after its end.
Tick ==
  /\ Heard
  /\ tickAge' = 0
  /\ queued' = TRUE

TickOfAnother ==
  /\ Heard
  /\ UNCHANGED <<tickAge, queued>>

BrokerChange ==
  /\ answering' = ~answering
  /\ UNCHANGED <<enabled, streamVars, healthVars, flagVars,
                 loopVars>>

\* get_market_details: from the cache, from the broker, or an older entry of
\* the cache when the broker does not answer; without such an entry it fails.
ReadEnds(ok) == ok \/ ~answering

\* get_status and its like report how the call went.  (The mutant keeps an
\* earlier failure in mind.)
BrokerChecked_Remembers(ok) == ReadEnds(ok) /\ brokerUp' = (ok /\ brokerUp)
BrokerChecked(ok) == ReadEnds(ok) /\ brokerUp' = ok

\* A view of a market or of the account, on a thread of the API.
StatusViewed ==
  /\ \E ok \in BOOLEAN : BrokerChecked(ok)
  /\ UNCHANGED <<enabled, streamVars, streamUp, lastPrice, flagVars,
                 answering, loopVars>>

-----------------------------------------------------------------------------
(* May entries be opened?                                                  *)

\* _build_summary: the last tick of any instrument makes the stream live.
\* STALE stands for DISCONNECTED, too: no price ever came.
LiveStream == streamUp /\ connected /\ Within(lastTick, MaxPriceAge)

FeedSource ==
  CASE LiveStream -> "LIVE"
    [] ~LiveStream /\ brokerUp /\ Within(lastPrice, MaxPriceAge)
                  -> "POLLING_FALLBACK"
    [] OTHER -> "STALE"

EntryEligible ==
  brokerUp /\ FeedSource = "LIVE" /\ Within(lastPrice, MaxPriceAge)

\* _entry_execution_policy_block, right before the order.
MayStillEnter == EntryEligible

-----------------------------------------------------------------------------
(* The evaluation of one price update                                      *)

LoopIsFree == evaluation = Idle

Begin(task) == evaluation' = [by |-> task, at |-> "deciding"]

\* process_price_update returns to the drain or to the round, which reports
\* the polled price.
Returns ==
  /\ evaluation' = Idle
  /\ IF evaluation.by = "stream"
       THEN stream' = "reconcile" /\ UNCHANGED <<round, lastPrice>>
       ELSE round' = "tier2" /\ lastPrice' = 0 /\ UNCHANGED stream

\* It raises: the rest of the batch or of the round is lost.
Raises ==
  /\ evaluation' = Idle
  /\ IF evaluation.by = "stream"
       THEN stream' = "reconcile" /\ UNCHANGED round
       ELSE round' = "tier1" /\ UNCHANGED stream

\* No entry signal, or one that some gate refuses.
Declines ==
  /\ evaluation.at = "deciding"
  /\ Returns
  /\ UNCHANGED <<enabled, streamVars, streamUp, brokerUp, flagVars,
                 answering>>

\* The operational gate, then the market's status: the one of a moment ago
\* or the broker's, whose quote the gate finds fresh whatever its age, since
\* the update itself counts as a quote.
Approves ==
  /\ evaluation.at = "deciding"
  /\ EntryEligible
  /\ UNCHANGED brokerUp \/ BrokerChecked(TRUE)
  /\ evaluation' = [evaluation EXCEPT !.at = "approved"]
  /\ UNCHANGED <<enabled, streamVars, streamUp, lastPrice, flagVars,
                 answering, stream, round>>

StatusFails ==
  /\ evaluation.at = "deciding"
  /\ EntryEligible
  /\ BrokerChecked(FALSE)
  /\ Raises
  /\ UNCHANGED <<enabled, streamVars, streamUp, lastPrice, flagVars,
                 answering>>

Blocks ==
  /\ evaluation.at = "approved"
  /\ ~MayStillEnter
  /\ Returns
  /\ UNCHANGED <<enabled, streamVars, streamUp, brokerUp, flagVars,
                 answering>>

\* place_order, and its answer or its exception, which is caught.
Orders ==
  /\ evaluation.at = "approved"
  /\ MayStillEnter
  /\ brokerUp' \in BOOLEAN
  /\ Returns
  /\ UNCHANGED <<enabled, streamVars, streamUp, flagVars, answering>>

Evaluation ==
  Declines \/ Approves \/ StatusFails \/ Blocks \/ Orders

-----------------------------------------------------------------------------
(* IGStreamingService.run                                                  *)

\* _reconcile_subscription when it does not raise; after an exception the
\* loop sleeps and tries again.  New credentials replace the client; whether
\* the plan changed, and within the limit on churn, depends on the other
\* instruments too.  A new subscription forgets every tick time.
Reconcile ==
  /\ enabled
  /\ stream = "reconcile"
  /\ \E reset, resubscribe \in BOOLEAN :
       /\ client \/ reset
       /\ client' = TRUE
       /\ connected' = (connected /\ ~reset)
       /\ streamUp' = (streamUp /\ ~reset)
       /\ subscribed' = (resubscribe \/ (subscribed /\ ~reset))
       /\ tickAge' = IF reset \/ resubscribe THEN Never ELSE tickAge
  /\ stream' = "drain"
  /\ UNCHANGED <<enabled, lastTick, queued, brokerUp, lastPrice,
                 flagVars, answering, round, evaluation>>

\* _drain_price_queue takes the whole queue and keeps the instrument's last.
DrainsUpdate ==
  /\ LoopIsFree
  /\ stream = "drain"
  /\ queued
  /\ queued' = FALSE
  /\ Begin("stream")
  /\ UNCHANGED <<enabled, client, subscribed, connected, tickAge,
                 lastTick, healthVars, flagVars, answering, stream, round>>

\* Nothing came, or others did; an update whose engine has stopped is skipped
\* and one behind an update that raises is lost.
Drains ==
  /\ stream = "drain" /\ evaluation.by # "stream"
  /\ queued' = FALSE
  /\ stream' = "reconcile"
  /\ UNCHANGED <<enabled, client, subscribed, connected, tickAge,
                 lastTick, healthVars, flagVars, answering, round,
                 evaluation>>

-----------------------------------------------------------------------------
(* MarketDataService.run                                                   *)

\* _polling_fallback_reason.  (The mutant waits for a stream that is silent.)
Reason_NotSilence ==
  CASE ~enabled -> "polling_primary"
    [] enabled /\ ~connected -> "stream_unavailable"
    [] enabled /\ connected /\ ~subscribed -> "instrument_not_subscribed"
    [] enabled /\ connected /\ subscribed ->
         IF tickAge # Never /\ tickAge > StaleAfter THEN "stale_stream"
                                                    ELSE "none"
Reason ==
  CASE ~enabled -> "polling_primary"
    [] enabled /\ ~connected -> "stream_unavailable"
    [] enabled /\ connected /\ ~subscribed -> "instrument_not_subscribed"
    [] enabled /\ connected /\ subscribed ->
         CASE tickAge = Never -> "no_ticks_seen"
           [] tickAge > StaleAfter -> "stale_stream"
           [] OTHER -> "none"

\* What the check reports of the stream, for every instrument alike.
ReportedUp ==
  CASE Reason \in {"polling_primary", "instrument_not_subscribed"} -> streamUp
    [] OTHER -> Reason = "none"

\* How long a fault, or its absence, has been seen.  (The mutant keeps the
\* time of an earlier recovery.)
Since(age) == IF age = Never THEN 0 ELSE age
SeenHealthy_Kept ==
  IF Reason = "none" /\ (fallback \/ stale) THEN Since(healthy) ELSE healthy
SeenHealthy ==
  IF Reason = "none" /\ (fallback \/ stale) THEN Since(healthy) ELSE Never
SeenFailing == IF Reason = "none" THEN Never ELSE Since(failing)

\* (The mutant believes in a recovery at first sight.)
Settled_AtOnce == Reason = "none" \/ SeenFailing >= Debounce
Settled ==
  IF Reason = "none" THEN fallback \/ stale => SeenHealthy >= Debounce
                     ELSE SeenFailing >= Debounce

\* _update_polling_health_transition.
UpdateFlags ==
  /\ failing' = SeenFailing
  /\ IF Settled
       THEN /\ fallback' = (Reason # "none")
            /\ stale' = (Reason = "stale_stream")
            /\ healthy' = Never
       ELSE /\ UNCHANGED <<fallback, stale>>
            /\ healthy' = SeenHealthy
  /\ calm' = IF Reason = "none" /\ fallback' THEN calm ELSE 0

\* _process_tier1_fallback_once at the instrument.  (The code asks for the
\* reason twice in a row; here both answers are one.)
Check ==
  /\ round = "tier1"
  /\ IF enabled THEN UpdateFlags ELSE UNCHANGED flagVars
  /\ streamUp' = ReportedUp
  /\ round' = IF Reason # "none" THEN "fetch" ELSE "tier2"
  /\ UNCHANGED <<enabled, streamVars, brokerUp, lastPrice, answering,
                 stream, evaluation>>

\* The thread's answer is processed when the loop gets to it.
Polls ==
  /\ LoopIsFree
  /\ round = "fetch"
  /\ ReadEnds(TRUE)
  /\ Begin("poll")
  /\ UNCHANGED <<enabled, streamVars, healthVars, flagVars, answering,
                 stream, round>>

\* A BrokerError: set_price_error, and the round goes on.
PollFails ==
  /\ round = "fetch" /\ evaluation.by # "poll"
  /\ ReadEnds(FALSE)
  /\ round' = "tier2"
  /\ UNCHANGED <<enabled, streamVars, healthVars, flagVars, answering,
                 stream, evaluation>>

\* ValueError: no price in the answer, or the engine stopped meanwhile.
PollIsUseless ==
  /\ round = "fetch" /\ evaluation.by # "poll"
  /\ ReadEnds(TRUE)
  /\ round' = "tier1"
  /\ UNCHANGED <<enabled, streamVars, healthVars, flagVars, answering,
                 stream, evaluation>>

\* The rest of the round: other instruments are checked and polled.
ChecksAnother ==
  /\ round = "tier2"
  /\ \E up \in BOOLEAN : (up => enabled /\ connected) /\ streamUp' = up
  /\ lastPrice' \in {lastPrice, 0}
  /\ UNCHANGED <<enabled, streamVars, brokerUp, flagVars, answering,
                 loopVars>>

\* _refresh_tier2_once: not due yet, cut short by an exception, ...
EndsRound ==
  /\ round = "tier2"
  /\ round' = "tier1"
  /\ UNCHANGED <<enabled, streamVars, healthVars, flagVars, answering,
                 stream, evaluation>>

\* ... or due: the deployment cycle scores candidates by their status.
Refresh ==
  /\ round = "tier2"
  /\ \E ok \in BOOLEAN : BrokerChecked(ok)
  /\ round' = "tier1"
  /\ UNCHANGED <<enabled, streamVars, streamUp, lastPrice, flagVars,
                 answering, stream, evaluation>>

-----------------------------------------------------------------------------
Outside == \/ Pass \/ ServerError \/ Tick \/ TickOfAnother
           \/ BrokerChange \/ StatusViewed
           \/ \E up \in BOOLEAN : StatusChange(up)
Streaming == Reconcile \/ DrainsUpdate \/ Drains
PollReturns == Polls \/ PollFails \/ PollIsUseless
MarketData == \/ Check \/ PollReturns
              \/ ChecksAnother \/ EndsRound \/ Refresh

Next == Outside \/ Evaluation \/ Streaming \/ MarketData

Spec == Init /\ [][Next]_vars

\* Time passes, calls return, and the loop serves both tasks in turn.  Strong
\* fairness of the steps that do not raise says that other instruments do not
\* spoil every batch and every round, that reconciling the subscription works
\* again and again, and that the refresh is due again and again with some
\* approved family to score.
Fairness ==
  /\ WF_vars(Pass) /\ WF_vars(Evaluation)
  /\ WF_vars(Reconcile) /\ WF_vars(Drains)
  /\ WF_vars(Check) /\ WF_vars(PollReturns)
  /\ SF_vars(DrainsUpdate) /\ SF_vars(Polls) /\ SF_vars(Refresh)

FairSpec == Spec /\ Fairness

-----------------------------------------------------------------------------
(* Properties                                                              *)

\* Polling is only declared over when no check has found fault with the
\* stream for the whole debounce time, and then nothing else is degraded.
FlagsOutlastTheFault ==
  [][fallback /\ ~fallback' =>
       /\ connected /\ subscribed /\ Within(tickAge, StaleAfter)
       /\ calm >= Debounce
       /\ ~stale']_vars

\* While the broker answers, prices keep being evaluated:
\* polling steps in for a stream that is down, capped, silent or stale.
PricesKeepComing ==
  <>[]answering
    => []<><<evaluation = Idle /\ evaluation' # Idle>>_vars

\* Once the instrument's ticks keep coming and the broker keeps answering,
\* all degradation ends for good and entries are eligible again and again.
StreamIsWell ==
  /\ enabled /\ connected /\ subscribed /\ Within(tickAge, StaleAfter)
  /\ answering
DegradationHeals ==
  <>[]StreamIsWell => <>[](~fallback /\ ~stale) /\ []<>EntryEligible
=============================================================================
