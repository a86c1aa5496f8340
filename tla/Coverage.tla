------------------------------ MODULE Coverage ------------------------------
(***************************************************************************)
(* Who gets a streaming slot:                                              *)
(*   services/watchlist_service.py            Tier 1 entries and the plan  *)
(*   services/coverage_allocator_service.py   promotions into Tier 1       *)
(*   services/promotion_request_service.py    what screening asks for      *)
(*   services/market_data_service.py          the Tier-2 refresh           *)
(* (paths under backend/app).                                              *)
(*                                                                         *)
(* Every plan synchronises the entries first: pins for open positions and  *)
(* pending intents, running strategies, seeds, the operator's choices and  *)
(* promotions that still run stay, the rest is demoted.  The streaming     *)
(* loop, the polling loop and API threads ask for plans; the Tier-2 refresh*)
(* waits for the broker between its plan and its promotions, so plans,     *)
(* trades and the operator come in between.                                *)
(*                                                                         *)
(* Deadlines are kept as the ticks that are left, so no clock has to be    *)
(* bounded; a tick passes a deadline and never falls on it.  Instruments   *)
(* are numbered in the order their entries were made, which breaks ties.   *)
(***************************************************************************)
EXTENDS Naturals, FiniteSets, FiniteSetsExt, Functions

CONSTANTS
  InstrumentCount,
  Class,          \* the asset class of each instrument
  ClassBudget,    \* slots of the asset classes that have a budget
  MaxInstruments, \* ig_streaming_max_instruments
  Seeds,          \* ig_streaming_seed_instruments
  Tier2Seeds,     \* tier2_seed_instruments
  Tradable,       \* instruments strategies run on and brokers hold deals of
  Choosable,      \* instruments the operator adds and removes
  Scores,         \* screening scores, in per cent
  Threshold,      \* tier2_promotion_score_threshold, in per cent
  BatchSize,      \* tier2_refresh_batch_size
  PerMinute,      \* ig_streaming_max_promotions_per_minute
  Interval,       \* tier2_refresh_interval_seconds, in ticks as are the rest
  Minute, Residency, Cooldown, TimeToLive, StaleAfter

ASSUME BoundAssumption ==
  /\ {InstrumentCount, MaxInstruments, BatchSize, PerMinute, Interval, Minute,
      Residency, Cooldown, TimeToLive, StaleAfter} \subseteq Nat \ {0}
  /\ Scores \subseteq 0 .. 100 /\ Threshold \in 0 .. 100

Instruments == 1 .. InstrumentCount

ASSUME InstrumentAssumption ==
  /\ DOMAIN Class = Instruments
  /\ \A c \in DOMAIN ClassBudget : ClassBudget[c] \in Nat
  /\ Seeds \cup Tier2Seeds \cup Tradable \cup Choosable \subseteq Instruments

VARIABLES
  entries,    \* WatchlistEntry of each instrument
  requests,   \* its pending PromotionRequest, or {}
  accepted,   \* requests set ACCEPTED, by the ticks since
  exposure,   \* what the instrument has at stake
  runtimes,   \* runtime_manager.list_active_instruments()
  refresh,    \* the Tier-2 refresh in progress
  promotions, \* history: instruments promoted, by the ticks since
  resting     \* history: ticks of cool-down left since the last demotion

trading == <<exposure, runtimes>>
history == <<promotions, resting>>
vars == <<entries, requests, accepted, exposure, runtimes, refresh,
          promotions, resting>>

Reasons == {"none", "protective", "runtime_active", "seed_watchlist",
            "operator_strategy_watchlist", "promotion_accepted", "tier2_seed"}
Priority(reason) ==
  CASE reason = "protective" -> 100
    [] reason = "seed_watchlist" -> 75
    [] reason = "operator_strategy_watchlist" -> 60
    [] reason = "runtime_active" -> 50
    [] reason = "tier2_seed" -> 25

NoEntry == [tier |-> "TIER2", status |-> "ABSENT", pinned |-> FALSE,
            reason |-> "none", priority |-> 0, residency |-> 0, cooldown |-> 0,
            expires |-> 0, fresh |-> 0]
Idle == [screening |-> FALSE, todo |-> {}, wait |-> 0]

Init ==
  /\ entries = [i \in Instruments |-> NoEntry]
  /\ requests = [i \in Instruments |-> {}]
  /\ accepted = [age \in 0 .. Minute - 1 |-> 0]
  /\ exposure = [i \in Instruments |-> "none"]
  /\ runtimes = {}
  /\ refresh = Idle
  /\ promotions = [age \in 0 .. Minute - 1 |-> 0]
  /\ resting = [i \in Instruments |-> 0]

-----------------------------------------------------------------------------
(* Entries                                                                 *)

Larger(a, b) == IF a > b THEN a ELSE b
InTier1(e) == e.tier = "TIER1" /\ e.status = "ACTIVE"

\* _upsert_entry; an absent entry has no residency and priority 0.
Upserted_KeepsExpiry(e, pinned, priority, reason) ==
  [e EXCEPT !.tier = "TIER1", !.status = "ACTIVE", !.pinned = pinned,
            !.reason = reason, !.priority = Larger(@, priority),
            !.residency = IF @ = 0 THEN Residency ELSE @, !.cooldown = 0]
Upserted(e, pinned, priority, reason) ==
  [e EXCEPT !.tier = "TIER1", !.status = "ACTIVE", !.pinned = pinned,
            !.reason = reason, !.priority = Larger(@, priority),
            !.residency = IF @ = 0 THEN Residency ELSE @, !.cooldown = 0,
            !.expires = IF reason = "promotion_accepted" THEN @ ELSE 0]

\* The end of _sync_system_entries, for an entry nothing asks for.
Demoted(e) ==
  IF e.status # "ACTIVE" \/ e.residency > 0 THEN [e EXCEPT !.pinned = FALSE]
  ELSE [e EXCEPT !.pinned = FALSE, !.status = "COOLDOWN", !.cooldown = Cooldown]

\* _collect_pinned_instruments: FILLED and POSITION_OPENED are not among the
\* states that pin; the position row does once it exists.
Pinned == {i \in Instruments : exposure[i] \in {"pending", "open"}}

StillPromoted(e) ==
  e.reason = "promotion_accepted" /\ e.status = "ACTIVE" /\ e.expires > 0

\* _sync_system_entries
Synced(i) ==
  LET e == entries[i]
      Kept(pinned, reason) == Upserted(e, pinned, Priority(reason), reason)
  IN  IF i \in Pinned THEN Kept(TRUE, "protective")
      ELSE IF i \in runtimes THEN Kept(FALSE, "runtime_active")
      ELSE IF i \in Seeds THEN Kept(FALSE, "seed_watchlist")
      ELSE IF e.reason = "operator_strategy_watchlist" /\ e.status = "ACTIVE"
        THEN Kept(FALSE, "operator_strategy_watchlist")
      ELSE IF StillPromoted(e) THEN e
      ELSE Demoted(e)

\* _sync_tier2_seed_entries: whatever the entry was, it is ACTIVE again.
Seeded(i, e) ==
  IF i \notin Tier2Seeds THEN e
  ELSE IF e.status = "ABSENT"
    THEN [e EXCEPT !.tier = "TIER2", !.status = "ACTIVE",
                   !.reason = "tier2_seed", !.priority = Priority("tier2_seed")]
  ELSE [e EXCEPT !.status = "ACTIVE",
                 !.priority = Larger(@, Priority("tier2_seed"))]

-----------------------------------------------------------------------------
(* The plan                                                                *)

\* Does i come before j in the plan, both being in Tier 1?
Before(es, i, j) ==
  \/ es[i].pinned /\ ~es[j].pinned
  \/ /\ es[i].pinned = es[j].pinned
     /\ \/ es[i].priority > es[j].priority
        \/ es[i].priority = es[j].priority /\ i < j

\* A slot for i, when those in chosen have theirs.
HasSlot_PinsFree(es, chosen, i) ==
  LET normal == {j \in chosen : ~es[j].pinned}
      class == Class[i]
  IN  \/ es[i].pinned
      \/ /\ Cardinality(normal) < MaxInstruments
         /\ class \in DOMAIN ClassBudget =>
              Cardinality({j \in normal : Class[j] = class}) < ClassBudget[class]
HasSlot(es, chosen, i) ==
  LET class == Class[i]
  IN  \/ es[i].pinned
      \/ /\ Cardinality({j \in chosen : ~es[j].pinned}) < MaxInstruments
         /\ class \in DOMAIN ClassBudget =>
              Cardinality({j \in chosen : Class[j] = class}) < ClassBudget[class]

\* get_streaming_plan, after the entries were synchronised to es.
PlanOf(es) ==
  LET tier1 == {i \in Instruments : InTier1(es[i])}
      Rank(i) == Cardinality({j \in tier1 : Before(es, j, i)})
      chosen[n \in 0 .. InstrumentCount] ==
        IF n = 0 THEN {}
        ELSE chosen[n - 1] \cup {i \in tier1 : /\ Rank(i) = n - 1
                                               /\ HasSlot(es, chosen[n - 1], i)}
      selected == chosen[InstrumentCount]
  IN  [selected |-> selected, pinned |-> {i \in selected : es[i].pinned},
       capped |-> tier1 \ selected]

-----------------------------------------------------------------------------
(* History                                                                 *)

\* An instrument rests from the moment it is put out of Tier 1 until something
\* other than the Tier-2 seeding brings it back.
Rested(i, e) ==
  IF InTier1(entries[i]) /\ e.status = "COOLDOWN" THEN Cooldown
  ELSE IF InTier1(e) /\ e.cooldown = 0 THEN 0
  ELSE resting[i]

SetEntries(es) ==
  /\ entries' = es
  /\ resting' = [i \in Instruments |-> Rested(i, es[i])]

-----------------------------------------------------------------------------
(* Operations                                                              *)

SyncedEntries == [i \in Instruments |-> Synced(i)]

\* get_streaming_plan for the streaming loop, the polling loop or a route.
Synchronise ==
  /\ SetEntries(SyncedEntries)
  /\ UNCHANGED <<requests, accepted, trading, refresh, promotions>>

\* add_to_strategy_watchlist of one instrument.
Choose(i) ==
  LET es == SyncedEntries
      normal == {j \in Instruments : /\ InTier1(es[j]) /\ ~es[j].pinned
                                     /\ es[j].reason # "protective"}
      reason == "operator_strategy_watchlist"
  IN  /\ i \in Choosable
      /\ InTier1(es[i]) \/ Cardinality(normal) < MaxInstruments
      /\ SetEntries([es EXCEPT ![i] = Upserted(@, FALSE, Priority(reason), reason)])
      /\ UNCHANGED <<requests, accepted, trading, refresh, promotions>>

\* remove_from_strategy_watchlist: nothing unless the operator added it.
Unchoose(i) ==
  /\ i \in Choosable
  /\ entries[i].reason = "operator_strategy_watchlist"
  /\ SetEntries([entries EXCEPT ![i].status = "COOLDOWN",
                                ![i].cooldown = Cooldown])
  /\ UNCHANGED <<requests, accepted, trading, refresh, promotions>>

\* get_tier2_refresh_plan: what the cap left out first, then the Tier-2 entries
\* that are stale, up to the batch size.
StartRefresh ==
  LET next == PlanOf(SyncedEntries)
      es == [i \in Instruments |-> Seeded(i, SyncedEntries[i])]
      stale == {i \in Instruments \ next.selected :
                  /\ es[i].tier = "TIER2" /\ es[i].status = "ACTIVE"
                  /\ es[i].fresh = 0}
      candidates == next.capped \cup stale
      size == IF Cardinality(candidates) < BatchSize
                THEN Cardinality(candidates) ELSE BatchSize
  IN  /\ ~refresh.screening /\ refresh.wait = 0
      /\ SetEntries(es)
      /\ \E batch \in kSubset(size, candidates) :
           /\ batch \subseteq next.capped \/ next.capped \subseteq batch
           /\ refresh' = [screening |-> batch # {}, todo |-> batch,
                          wait |-> Interval]
      /\ UNCHANGED <<requests, accepted, trading, promotions>>

\* The broker's market details of i, once they have arrived: nothing if it
\* failed, else the refresh is recorded and a score may ask for a promotion.
Screen(i) ==
  /\ i \in refresh.todo
  /\ refresh' = [refresh EXCEPT !.todo = @ \ {i}]
  /\ \/ UNCHANGED <<entries, requests>>
     \/ /\ entries' = [entries EXCEPT ![i].fresh = StaleAfter]
        /\ \/ UNCHANGED requests
           \/ \E score \in Scores :
                LET best == Max({score} \cup {r.score : r \in {q \in requests[i] :
                                                          q.left > 0}})
                IN requests' = [requests EXCEPT
                                  ![i] = {[score |-> best, left |-> TimeToLive]}]
  /\ UNCHANGED <<accepted, trading, history>>

\* Nothing of the refresh is left when it raises or the process ends, and the
\* next round starts another; requests it has made stay PENDING.
AbandonRefresh ==
  /\ refresh.screening
  /\ refresh' = Idle
  /\ UNCHANGED <<entries, requests, accepted, trading, history>>

Pending == {i \in Instruments : requests[i] # {}}
Asked(i) == CHOOSE r \in requests[i] : TRUE

\* _is_already_streamed: in Tier 1, with a slot or not.
Covered(i) == InTier1(entries[i]) /\ (entries[i].reason = "promotion_accepted" =>
                                        entries[i].pinned \/ entries[i].expires > 0)

\* _accepted_in_last_minute; requests that needed no promotion count as well.
Spendable_LastTick ==
  IF accepted[0] > PerMinute THEN 0 ELSE PerMinute - accepted[0]
Spendable == LET spent == SumFunction(accepted)
             IN  IF spent > PerMinute THEN 0 ELSE PerMinute - spent

\* _passes_thresholds and _passes_cooldown
Promotable_Hot(i) == Asked(i).score >= Threshold
Promotable(i) == Asked(i).score >= Threshold /\ entries[i].cooldown = 0

Counted(counts, n) == [counts EXCEPT ![0] = @ + n]

\* allocate_pending_promotions, when every instrument of the batch was looked
\* at: the best scores take what the minute's budget has left.
Allocate ==
  LET alive == {i \in Pending : Asked(i).left > 0}
      served == {i \in alive : Covered(i)}
      eligible == {i \in alive \ served : Promotable(i)}
      size == IF Cardinality(eligible) < Spendable
                THEN Cardinality(eligible) ELSE Spendable
      Promoted(i) ==
        [Upserted(entries[i], FALSE, Larger(Priority("seed_watchlist") + 5,
                                            Asked(i).score), "promotion_accepted")
           EXCEPT !.expires = Asked(i).left]
  IN  /\ refresh.screening /\ refresh.todo = {}
      /\ refresh' = [refresh EXCEPT !.screening = FALSE]
      /\ requests' = [i \in Instruments |-> {}]
      /\ \E winners \in kSubset(size, eligible) :
           /\ \A i \in winners, j \in eligible \ winners :
                Asked(i).score >= Asked(j).score
           /\ SetEntries([i \in Instruments |->
                            IF i \in winners THEN Promoted(i) ELSE entries[i]])
           /\ accepted' = Counted(accepted, Cardinality(winners \cup served))
           /\ promotions' = Counted(promotions, Cardinality(winners))
      /\ UNCHANGED <<trading>>

\* The strategies of an instrument start and stop; one that runs may propose,
\* and a deal may be adopted from the broker.
Runs(i) ==
  /\ i \in Tradable
  /\ runtimes' = IF i \in runtimes THEN runtimes \ {i} ELSE runtimes \cup {i}
  /\ UNCHANGED <<entries, requests, accepted, exposure, refresh, history>>
Trades(i) ==
  /\ i \in Tradable
  /\ \E to \in CASE exposure[i] = "none" ->
                      {"open"} \cup (IF i \in runtimes THEN {"pending"} ELSE {})
                 [] exposure[i] = "pending" -> {"filled", "none"}
                 [] exposure[i] = "filled" -> {"open"}
                 [] exposure[i] = "open" -> {"none"} :
       exposure' = [exposure EXCEPT ![i] = to]
  /\ UNCHANGED <<entries, requests, accepted, runtimes, refresh, history>>

Less(n) == IF n = 0 THEN 0 ELSE n - 1
Aged(counts) == [age \in DOMAIN counts |-> IF age = 0 THEN 0 ELSE counts[age - 1]]

Tick ==
  /\ entries' = [i \in Instruments |->
                   [entries[i] EXCEPT !.residency = Less(@), !.cooldown = Less(@),
                                      !.expires = Less(@), !.fresh = Less(@)]]
  /\ requests' = [i \in Instruments |->
                    {[r EXCEPT !.left = Less(@)] : r \in requests[i]}]
  /\ accepted' = Aged(accepted) /\ promotions' = Aged(promotions)
  /\ resting' = [i \in Instruments |-> Less(resting[i])]
  /\ refresh' = [refresh EXCEPT !.wait = Less(@)]
  /\ UNCHANGED <<trading>>

Next == \/ Synchronise \/ StartRefresh \/ AbandonRefresh \/ Allocate \/ Tick
        \/ \E i \in Instruments : \/ Choose(i) \/ Unchoose(i) \/ Screen(i)
                                  \/ Runs(i) \/ Trades(i)

Spec == Init /\ [][Next]_vars

-----------------------------------------------------------------------------
(* Properties                                                              *)

\* Deadlines, priorities and reasons stay in range and a pin is a Tier-1 entry
\* that something protects; the operator's word and a promotion's deadline go
\* with no other reason.
TypeOK ==
  /\ \A i \in Instruments : LET e == entries[i] IN
       /\ e.tier \in {"TIER1", "TIER2"}
       /\ e.status \in {"ABSENT", "ACTIVE", "COOLDOWN"}
       /\ e.reason \in Reasons /\ (e.reason = "none" <=> e.status = "ABSENT")
       /\ e.priority \in 0 .. 100
       /\ e.residency \in 0 .. Residency /\ e.cooldown \in 0 .. Cooldown
       /\ e.expires \in 0 .. TimeToLive /\ e.fresh \in 0 .. StaleAfter
       /\ e.pinned => InTier1(e) /\ e.reason = "protective"
       /\ e.expires > 0 => e.reason = "promotion_accepted"
  /\ \A i \in Instruments : \A r \in requests[i] :
       r.score \in Scores /\ r.left \in 0 .. TimeToLive
  /\ \A i \in Instruments : Cardinality(requests[i]) <= 1
  /\ exposure \in [Instruments -> {"none", "pending", "filled", "open"}]
  /\ runtimes \subseteq Tradable
  /\ refresh.todo \subseteq Instruments /\ refresh.wait \in 0 .. Interval

\* Every plan covers every instrument with an open position or a pending
\* intent; the others keep to the caps, and one is left out only for a cap,
\* never for the sake of one that comes after it.
Plans == Synchronise \/ StartRefresh
Normal(p) == p.selected \ p.pinned
Slots(p, class) == {i \in p.selected : Class[i] = class}
Full(p, class) == class \in DOMAIN ClassBudget
                  /\ Cardinality(Slots(p, class)) >= ClassBudget[class]
Sound(p, es) ==
  /\ {i \in Instruments : exposure[i] \in {"open", "pending"}} \subseteq p.selected
  /\ Cardinality(Normal(p)) <= MaxInstruments
  /\ \A class \in DOMAIN ClassBudget :
       Slots(p, class) \cap Normal(p) # {} =>
         Cardinality(Slots(p, class)) <= ClassBudget[class]
  /\ \A i \in p.capped :
       \/ Full(p, Class[i])
       \/ /\ Cardinality(Normal(p)) = MaxInstruments
          /\ \A j \in Normal(p) : Before(es, j, i)
PlanIsSound == [][Plans => Sound(PlanOf(SyncedEntries), SyncedEntries)]_vars

\* No minute sees more promotions than its budget, refreshes that were cut
\* short included.
PromotionsArePaced == SumFunction(promotions) <= PerMinute

\* An instrument that was put out of Tier 1 is not promoted before its
\* cool-down is over, whatever seeding did to its entry meanwhile.
CooldownIsKept ==
  [][Allocate => \A i \in Instruments :
       entries'[i] # entries[i] => resting[i] = 0]_vars
=============================================================================
