---------------------------- MODULE CoverageProofs ----------------------------
(***************************************************************************)
(* The entries keep their types and their cool-downs, promotions their     *)
(* pace and plans their caps, for every number of instruments, every       *)
(* budget and every interval.                                              *)
(***************************************************************************)
EXTENDS Coverage, FiniteSetTheorems, FunctionTheorems, TLAPS

Entries == [tier : {"TIER1", "TIER2"}, status : {"ABSENT", "ACTIVE", "COOLDOWN"},
            pinned : BOOLEAN, reason : Reasons, priority : 0 .. 100,
            residency : 0 .. Residency, cooldown : 0 .. Cooldown,
            expires : 0 .. TimeToLive, fresh : 0 .. StaleAfter]
Requests == [score : Scores, left : 0 .. TimeToLive]

\* What TypeOK says of one entry beyond its fields.
EntryOK(e) ==
  /\ e \in Entries
  /\ e.reason = "none" <=> e.status = "ABSENT"
  /\ e.pinned => InTier1(e) /\ e.reason = "protective"
  /\ e.expires > 0 => e.reason = "promotion_accepted"

EntriesOK ==
  /\ entries \in [Instruments -> Entries]
  /\ \A i \in Instruments : EntryOK(entries[i])

\* One pending request of an instrument at the most.
RequestsOK ==
  /\ requests \in [Instruments -> SUBSET Requests]
  /\ \A i \in Instruments : \A q, r \in requests[i] : q = r

RestOK ==
  /\ exposure \in [Instruments -> {"none", "pending", "filled", "open"}]
  /\ runtimes \subseteq Tradable
  /\ refresh \in [screening : BOOLEAN, todo : SUBSET Instruments,
                  wait : 0 .. Interval]

\* What an instrument still has to rest, its entry still has to cool down.
RestIsCooldown ==
  /\ resting \in [Instruments -> Nat]
  /\ \A i \in Instruments : resting[i] <= entries[i].cooldown

IInv == EntriesOK /\ RequestsOK /\ RestOK /\ RestIsCooldown

-----------------------------------------------------------------------------
(* The operators on entries.                                               *)

\* The settings are counts and intervals.
LEMMA BoundsAreNat ==
  /\ Residency \in Nat /\ Cooldown \in Nat /\ TimeToLive \in Nat
  /\ StaleAfter \in Nat /\ Interval \in Nat
  /\ \A s \in Scores : s \in 0 .. 100
BY BoundAssumption

\* An entry is the record of its fields.
LEMMA RecordOfEntry ==
  ASSUME NEW e \in Entries
  PROVE  e = [tier |-> e.tier, status |-> e.status, pinned |-> e.pinned,
              reason |-> e.reason, priority |-> e.priority,
              residency |-> e.residency, cooldown |-> e.cooldown,
              expires |-> e.expires, fresh |-> e.fresh]
BY DEF Entries

\* PRIORITY_BY_REASON of the reasons that have one.
LEMMA PriorityType ==
  \A r \in {"protective", "runtime_active", "seed_watchlist",
            "operator_strategy_watchlist", "tier2_seed"} : Priority(r) \in 0 .. 100
BY DEF Priority

\* _upsert_entry leaves an active Tier-1 entry without a cool-down.
LEMMA UpsertedType ==
  ASSUME NEW e, EntryOK(e), NEW pinned \in BOOLEAN, NEW priority \in 0 .. 100,
         NEW reason \in Reasons \ {"none"}, pinned => reason = "protective"
  PROVE  LET u == Upserted(e, pinned, priority, reason)
         IN  /\ EntryOK(u) /\ InTier1(u) /\ u.cooldown = 0 /\ u.reason = reason
<1> DEFINE u == Upserted(e, pinned, priority, reason)
           larger == Larger(e.priority, priority)
           stay == IF e.residency = 0 THEN Residency ELSE e.residency
           until == IF reason = "promotion_accepted" THEN e.expires ELSE 0
<1>1. e \in Entries
  BY DEF EntryOK
<1>2. u = [tier |-> "TIER1", status |-> "ACTIVE", pinned |-> pinned,
           reason |-> reason, priority |-> larger, residency |-> stay,
           cooldown |-> 0, expires |-> until, fresh |-> e.fresh]
  <2>1. u = [e EXCEPT !.tier = "TIER1", !.status = "ACTIVE", !.pinned = pinned,
                      !.reason = reason, !.priority = larger,
                      !.residency = stay, !.cooldown = 0, !.expires = until]
    BY DEF Upserted
  <2>2. e = [tier |-> e.tier, status |-> e.status, pinned |-> e.pinned,
             reason |-> e.reason, priority |-> e.priority,
             residency |-> e.residency, cooldown |-> e.cooldown,
             expires |-> e.expires, fresh |-> e.fresh]
    BY <1>1, RecordOfEntry
  <2> HIDE DEF u, larger, stay, until
  <2> QED
    BY <2>1, <2>2
<1>3. larger \in 0 .. 100
  BY <1>1 DEF Entries, Larger
<1>4. stay \in 0 .. Residency /\ until \in 0 .. TimeToLive /\ 0 \in 0 .. Cooldown
  BY <1>1, BoundsAreNat DEF Entries
<1>5. reason \in Reasons /\ reason # "none" /\ e.fresh \in 0 .. StaleAfter
  BY <1>1 DEF Entries
<1>6. until > 0 => reason = "promotion_accepted"
  OBVIOUS
<1> HIDE DEF u, larger, stay, until
<1>7. u \in Entries
  BY <1>2, <1>3, <1>4, <1>5 DEF Entries
<1> QED
  BY <1>2, <1>5, <1>6, <1>7 DEF u, EntryOK, InTier1

\* The demotion of _sync_system_entries either leaves the deadlines alone or
\* starts the cool-down.
LEMMA DemotedType ==
  ASSUME NEW e, EntryOK(e)
  PROVE  LET d == Demoted(e)
         IN  /\ EntryOK(d)
             /\ \/ d.status = e.status /\ d.tier = e.tier /\ d.cooldown = e.cooldown
                \/ d.status = "COOLDOWN" /\ d.cooldown = Cooldown
<1> DEFINE d == Demoted(e)
<1>1. e \in Entries
  BY DEF EntryOK
<1>2. CASE e.status # "ACTIVE" \/ e.residency > 0
  <2>1. d = [e EXCEPT !.pinned = FALSE]
    BY <1>2 DEF Demoted
  <2> HIDE DEF d
  <2>2. /\ d \in Entries /\ d.status = e.status /\ d.tier = e.tier
        /\ d.cooldown = e.cooldown /\ ~d.pinned
        /\ d.reason = e.reason /\ d.expires = e.expires
    BY <1>1, <2>1 DEF Entries
  <2> QED
    BY <2>2 DEF d, EntryOK
<1>3. CASE ~(e.status # "ACTIVE" \/ e.residency > 0)
  <2>1. d = [e EXCEPT !.pinned = FALSE, !.status = "COOLDOWN",
                      !.cooldown = Cooldown]
    BY <1>3 DEF Demoted
  <2> HIDE DEF d
  <2>2. /\ d \in Entries /\ d.status = "COOLDOWN" /\ ~d.pinned
        /\ d.cooldown = Cooldown
        /\ d.reason = e.reason /\ d.expires = e.expires
    <3>1. Cooldown \in 0 .. Cooldown
      BY BoundsAreNat
    <3> QED
      BY <1>1, <2>1, <3>1 DEF Entries
  <2>3. e.status = "ACTIVE"
    BY <1>3
  <2> QED
    BY <2>2, <2>3 DEF d, EntryOK
<1> QED
  BY <1>2, <1>3

\* What one step may do to an entry so that its cool-down is kept: it is
\* extended to the full, kept, or dropped by a return to Tier 1.
Keeps(e, f) ==
  \/ f.cooldown = Cooldown
  \/ f.cooldown = e.cooldown /\ (f.status = "COOLDOWN" => ~InTier1(e))
  \/ InTier1(f) /\ f.cooldown = 0

\* _sync_system_entries, for one entry.
LEMMA SyncedType ==
  ASSUME EntriesOK, NEW i \in Instruments
  PROVE  EntryOK(Synced(i)) /\ Keeps(entries[i], Synced(i))
<1> DEFINE e == entries[i]
<1>1. EntryOK(e) /\ e.cooldown \in Nat /\ Cooldown \in Nat
  BY BoundsAreNat DEF EntriesOK, EntryOK, Entries
<1>2. CASE Synced(i) = Demoted(e)
  <2>1. EntryOK(Demoted(e))
    BY <1>1, DemotedType
  <2>2. \/ /\ Demoted(e).status = e.status
           /\ Demoted(e).cooldown = e.cooldown
        \/ Demoted(e).cooldown = Cooldown
    BY <1>1, DemotedType
  <2> QED
    BY <1>2, <2>1, <2>2 DEF Keeps, InTier1
<1>3. CASE Synced(i) = e
  BY <1>1, <1>3 DEF Keeps, InTier1
<1>4. ASSUME NEW pinned \in BOOLEAN,
             NEW reason \in {"protective", "runtime_active", "seed_watchlist",
                             "operator_strategy_watchlist"},
             pinned => reason = "protective",
             Synced(i) = Upserted(e, pinned, Priority(reason), reason)
      PROVE  EntryOK(Synced(i)) /\ Keeps(entries[i], Synced(i))
  <2>1. Priority(reason) \in 0 .. 100 /\ reason \in Reasons \ {"none"}
    BY PriorityType DEF Reasons
  <2> QED
    <3> DEFINE u == Upserted(e, pinned, Priority(reason), reason)
    <3>1. EntryOK(u) /\ InTier1(u) /\ u.cooldown = 0
      BY <1>1, <1>4, <2>1, UpsertedType, ZenonT(30)
    <3> QED
      BY <1>4, <3>1 DEF Keeps
<1> QED
  BY <1>2, <1>3, <1>4 DEF Synced

\* _sync_tier2_seed_entries, after it: an entry it makes active again keeps its
\* cool-down.
LEMMA SeededType ==
  ASSUME EntriesOK, NEW i \in Instruments
  PROVE  LET f == Seeded(i, Synced(i))
         IN  EntryOK(f) /\ Keeps(entries[i], f)
<1> DEFINE e == entries[i]
           s == Synced(i)
           f == Seeded(i, s)
<1>1. EntryOK(s) /\ Keeps(e, s)
  BY SyncedType
<1>2. Priority("tier2_seed") \in 0 .. 100
  BY PriorityType
<1> HIDE DEF e, s
<1>3. EntryOK(f) /\ f.cooldown = s.cooldown
  BY <1>1, <1>2 DEF Seeded, EntryOK, Entries, Larger, Reasons, InTier1
<1>4. f = s \/ f.status = "ACTIVE"
  BY <1>1 DEF Seeded, EntryOK, Entries
<1>5. InTier1(s) => InTier1(f)
  BY <1>1 DEF Seeded, EntryOK, Entries, InTier1
<1>6. Keeps(e, f)
  BY <1>1, <1>3, <1>4, <1>5 DEF Keeps
<1> QED
  BY <1>3, <1>6 DEF e, s

\* Entries that keep their cool-downs keep the instruments resting.
LEMMA SetEntriesKeeps ==
  ASSUME IInv, NEW es, SetEntries(es), es = [i \in Instruments |-> es[i]],
         \A i \in Instruments : EntryOK(es[i]) /\ Keeps(entries[i], es[i])
  PROVE  EntriesOK' /\ RestIsCooldown'
<1>1. entries' = es /\ EntriesOK'
  <2>1. entries' = es
    BY DEF SetEntries
  <2>2. es \in [Instruments -> Entries]
    BY DEF EntryOK
  <2> QED
    BY <2>1, <2>2 DEF EntriesOK
<1>2. ASSUME NEW i \in Instruments
      PROVE  Rested(i, es[i]) \in Nat /\ Rested(i, es[i]) <= es[i].cooldown
  <2>1. /\ resting[i] \in Nat /\ resting[i] <= entries[i].cooldown
        /\ entries[i].cooldown \in 0 .. Cooldown
        /\ es[i].cooldown \in 0 .. Cooldown
        /\ Cooldown \in Nat
    BY BoundsAreNat
       DEF IInv, RestIsCooldown, EntriesOK, EntryOK, Entries
  <2> QED
    BY <2>1 DEF Rested, Keeps, InTier1
<1> QED
  BY <1>1, <1>2 DEF SetEntries, RestIsCooldown

-----------------------------------------------------------------------------
(* Requests.                                                               *)

\* The larger of a score and that of the request there was.
LEMMA MaxOfTwo ==
  ASSUME NEW a \in Nat, NEW b \in Nat
  PROVE  Max({a, b}) \in {a, b}
<1>1. \E x \in {a, b} : \A y \in {a, b} : x >= y
  <2>1. CASE a >= b
    BY <2>1
  <2>2. CASE b >= a
    BY <2>2
  <2> QED
    BY <2>1, <2>2
<1> QED
  BY <1>1 DEF Max

\* An accepted score is one of those that came up.
LEMMA BestScore ==
  ASSUME RequestsOK, NEW i \in Instruments, NEW score \in Scores
  PROVE  Max({score} \cup {r.score : r \in {q \in requests[i] : q.left > 0}})
           \in Scores
<1> DEFINE live == {q \in requests[i] : q.left > 0}
<1>1. score \in Nat
  BY BoundsAreNat
<1>2. CASE live = {}
  <2>1. {score} \cup {r.score : r \in live} = {score, score}
    BY <1>2
  <2> QED
    BY <1>1, <2>1, MaxOfTwo
<1>3. ASSUME NEW q \in live
      PROVE  Max({score} \cup {r.score : r \in live}) \in Scores
  <2>1. q.score \in Scores /\ q.score \in Nat
    <3>1. q \in Requests
      BY DEF RequestsOK
    <3> QED
      BY <3>1, BoundsAreNat DEF Requests
  <2>2. \A r \in live : r = q
    BY DEF RequestsOK
  <2>3. {score} \cup {r.score : r \in live} = {score, q.score}
    BY <2>2
  <2> QED
    BY <1>1, <2>1, <2>3, MaxOfTwo
<1> QED
  BY <1>2, <1>3

-----------------------------------------------------------------------------
(* The steps.                                                              *)

\* No entry, no request, no plan at the start.
LEMMA InitIInv == Init => IInv
<1> SUFFICES ASSUME Init PROVE IInv
  OBVIOUS
<1> USE BoundsAreNat
<1>1. EntriesOK
  BY DEF Init, EntriesOK, EntryOK, Entries, NoEntry, Reasons, InTier1
<1>2. RequestsOK
  BY DEF Init, RequestsOK
<1>3. RestOK
  BY DEF Init, RestOK, Idle
<1>4. RestIsCooldown
  BY DEF Init, RestIsCooldown, NoEntry
<1> QED
  BY <1>1, <1>2, <1>3, <1>4 DEF IInv

\* get_streaming_plan.
LEMMA SynchroniseStep == IInv /\ Synchronise => IInv'
<1> SUFFICES ASSUME IInv, Synchronise PROVE IInv'
  OBVIOUS
<1>1. EntriesOK' /\ RestIsCooldown'
  BY SyncedType, SetEntriesKeeps DEF IInv, Synchronise, SyncedEntries
<1> QED
  BY <1>1 DEF IInv, Synchronise, trading, RequestsOK, RestOK

\* add_to_strategy_watchlist.
LEMMA ChooseStep == IInv /\ (\E i \in Instruments : Choose(i)) => IInv'
<1> SUFFICES ASSUME IInv, NEW c \in Instruments, Choose(c) PROVE IInv'
  OBVIOUS
<1> DEFINE reason == "operator_strategy_watchlist"
           es == [SyncedEntries EXCEPT
                    ![c] = Upserted(@, FALSE, Priority(reason), reason)]
<1>1. SetEntries(es)
  BY DEF Choose
<1>2. ASSUME NEW i \in Instruments
      PROVE  EntryOK(es[i]) /\ Keeps(entries[i], es[i])
  <2>1. CASE i # c
    BY <2>1, SyncedType DEF SyncedEntries, IInv
  <2>2. CASE i = c
    <3>1. es[i] = Upserted(Synced(c), FALSE, Priority(reason), reason)
      BY <2>2 DEF SyncedEntries
    <3>2. Priority(reason) \in 0 .. 100 /\ reason \in Reasons \ {"none"}
      BY PriorityType DEF Reasons
    <3>3. EntryOK(Synced(c))
      BY SyncedType DEF IInv
    <3> DEFINE u == Upserted(Synced(c), FALSE, Priority(reason), reason)
    <3>4. EntryOK(u) /\ InTier1(u) /\ u.cooldown = 0
      BY <3>2, <3>3, UpsertedType
    <3> QED
      BY <2>2, <3>1, <3>4 DEF Keeps
  <2> QED
    BY <2>1, <2>2
<1>3. es = [i \in Instruments |-> es[i]]
  BY DEF SyncedEntries
<1>4. EntriesOK' /\ RestIsCooldown'
  <2> HIDE DEF es
  <2> QED
    BY <1>1, <1>2, <1>3, SetEntriesKeeps
<1> QED
  BY <1>4 DEF IInv, Choose, trading, RequestsOK, RestOK

\* remove_from_strategy_watchlist.
LEMMA UnchooseStep == IInv /\ (\E i \in Instruments : Unchoose(i)) => IInv'
<1> SUFFICES ASSUME IInv, NEW c \in Instruments, Unchoose(c) PROVE IInv'
  OBVIOUS
<1> DEFINE es == [entries EXCEPT ![c].status = "COOLDOWN",
                                 ![c].cooldown = Cooldown]
<1>1. SetEntries(es) /\ entries[c].reason = "operator_strategy_watchlist"
  BY DEF Unchoose
<1>2. es = [i \in Instruments |-> es[i]]
  BY DEF IInv, EntriesOK
<1>3. ASSUME NEW i \in Instruments
      PROVE  EntryOK(es[i]) /\ Keeps(entries[i], es[i])
  <2>1. EntryOK(entries[i]) /\ entries \in [Instruments -> Entries]
    BY DEF IInv, EntriesOK
  <2>2. CASE i # c
    BY <2>1, <2>2 DEF Keeps, InTier1
  <2>3. CASE i = c
    <3>1. EntryOK(es[i])
      BY <1>1, <2>1, <2>3, BoundsAreNat DEF EntryOK, Entries, InTier1
    <3>2. es[i].cooldown = Cooldown
      BY <2>1, <2>3 DEF Entries
    <3> QED
      BY <3>1, <3>2 DEF Keeps
  <2> QED
    BY <2>2, <2>3
<1>4. EntriesOK' /\ RestIsCooldown'
  <2> HIDE DEF es
  <2> QED
    BY <1>1, <1>2, <1>3, SetEntriesKeeps
<1> QED
  BY <1>4 DEF IInv, Unchoose, trading, RequestsOK, RestOK

\* get_tier2_refresh_plan.
LEMMA StartRefreshStep == IInv /\ StartRefresh => IInv'
<1> SUFFICES ASSUME IInv, StartRefresh PROVE IInv'
  OBVIOUS
<1> DEFINE es == [i \in Instruments |-> Seeded(i, SyncedEntries[i])]
<1>1. SetEntries(es) /\ UNCHANGED <<requests, accepted, trading, promotions>>
  BY DEF StartRefresh
<1>2. PICK batch : /\ batch \subseteq Instruments
                   /\ refresh' = [screening |-> batch # {}, todo |-> batch,
                                  wait |-> Interval]
  <2> DEFINE next == PlanOf(SyncedEntries)
             stale == {i \in Instruments \ next.selected :
                  /\ es[i].tier = "TIER2" /\ es[i].status = "ACTIVE"
                  /\ es[i].fresh = 0}
             candidates == next.capped \cup stale
  <2>1. next.capped \subseteq Instruments
    BY DEF PlanOf
  <2>2. PICK k : \E batch \in kSubset(k, candidates) :
           refresh' = [screening |-> batch # {}, todo |-> batch,
                       wait |-> Interval]
    BY DEF StartRefresh
  <2>3. candidates \subseteq Instruments
    BY <2>1
  <2> QED
    BY <2>2, <2>3 DEF kSubset
<1>3. \A i \in Instruments : EntryOK(es[i]) /\ Keeps(entries[i], es[i])
  BY SeededType DEF SyncedEntries, IInv
<1>4. EntriesOK' /\ RestIsCooldown'
  <2>1. es = [i \in Instruments |-> es[i]]
    OBVIOUS
  <2> HIDE DEF es
  <2> QED
    BY <1>1, <1>3, <2>1, SetEntriesKeeps
<1>5. RestOK'
  BY <1>1, <1>2, BoundsAreNat DEF IInv, RestOK, trading
<1> QED
  BY <1>1, <1>4, <1>5 DEF IInv, RequestsOK

\* The market details of one instrument of the batch.
LEMMA ScreenStep == IInv /\ (\E i \in Instruments : Screen(i)) => IInv'
<1> SUFFICES ASSUME IInv, NEW c \in Instruments, Screen(c) PROVE IInv'
  OBVIOUS
<1>1. UNCHANGED <<trading, history, accepted>>
      /\ refresh' = [refresh EXCEPT !.todo = @ \ {c}]
  BY DEF Screen
<1>2. RestOK'
  BY <1>1 DEF IInv, RestOK, trading
<1>3. entries' = entries \/ entries' = [entries EXCEPT ![c].fresh = StaleAfter]
  BY DEF Screen
<1>4. EntriesOK' /\ \A i \in Instruments : entries'[i].cooldown = entries[i].cooldown
  <2>1. CASE entries' = entries
    BY <2>1 DEF IInv, EntriesOK
  <2>2. CASE entries' = [entries EXCEPT ![c].fresh = StaleAfter]
    <3>1. entries \in [Instruments -> Entries]
      BY DEF IInv, EntriesOK
    <3>2. ASSUME NEW i \in Instruments
          PROVE  /\ EntryOK(entries'[i])
                 /\ entries'[i].cooldown = entries[i].cooldown
      <4>1. entries'[i] = entries[i]
            \/ entries'[i] = [entries[i] EXCEPT !.fresh = StaleAfter]
        BY <2>2, <3>1
      <4>2. EntryOK(entries[i])
        BY DEF IInv, EntriesOK
      <4> QED
        BY <4>1, <4>2, BoundsAreNat DEF EntryOK, Entries, InTier1
    <3>3. entries' \in [Instruments -> Entries]
      BY <2>2, <3>1, BoundsAreNat DEF Entries
    <3> QED
      BY <3>2, <3>3 DEF EntriesOK
  <2> QED
    BY <1>3, <2>1, <2>2
<1>5. RestIsCooldown'
  BY <1>1, <1>4 DEF IInv, RestIsCooldown, history
<1>6. RequestsOK'
  <2>1. CASE UNCHANGED requests
    BY <2>1 DEF IInv, RequestsOK
  <2>2. ASSUME NEW score \in Scores, NEW best,
               best = Max({score} \cup {r.score : r \in {q \in requests[c] :
                                                           q.left > 0}}),
               requests' = [requests EXCEPT
                              ![c] = {[score |-> best, left |-> TimeToLive]}]
        PROVE  RequestsOK'
    <3>1. best \in Scores
      BY <2>2, BestScore DEF IInv
    <3> QED
      BY <2>2, <3>1, BoundsAreNat DEF IInv, RequestsOK, Requests
  <2> QED
    BY <2>1, <2>2 DEF Screen
<1> QED
  BY <1>2, <1>4, <1>5, <1>6 DEF IInv

\* allocate_pending_promotions: a promoted entry is one that was promotable.
LEMMA AllocateEntries ==
  ASSUME IInv, Allocate
  PROVE  \E es, winners :
           /\ SetEntries(es) /\ es = [i \in Instruments |-> es[i]]
           /\ winners \subseteq {i \in Instruments : requests[i] # {} /\ Promotable(i)}
           /\ \A i \in Instruments : es[i] =
                IF i \in winners
                  THEN [Upserted(entries[i], FALSE,
                                 Larger(Priority("seed_watchlist") + 5,
                                        Asked(i).score), "promotion_accepted")
                          EXCEPT !.expires = Asked(i).left]
                  ELSE entries[i]
<1> DEFINE alive == {i \in Pending : Asked(i).left > 0}
           served == {i \in alive : Covered(i)}
           eligible == {i \in alive \ served : Promotable(i)}
           Promoted(i) ==
             [Upserted(entries[i], FALSE,
                       Larger(Priority("seed_watchlist") + 5, Asked(i).score),
                       "promotion_accepted")
                EXCEPT !.expires = Asked(i).left]
           After(winners) ==
             [i \in Instruments |-> IF i \in winners THEN Promoted(i)
                                                     ELSE entries[i]]
<1>1. PICK k : \E winners \in kSubset(k, eligible) : SetEntries(After(winners))
  BY DEF Allocate
<1>2. PICK winners \in kSubset(k, eligible) : SetEntries(After(winners))
  BY <1>1
<1>3. winners \subseteq {i \in Instruments : requests[i] # {} /\ Promotable(i)}
  BY DEF kSubset, Pending
<1>4. WITNESS After(winners), winners
<1> QED
  BY <1>2, <1>3

LEMMA AllocateStep == IInv /\ Allocate => IInv'
<1> SUFFICES ASSUME IInv, Allocate PROVE IInv'
  OBVIOUS
<1>1. PICK es, winners :
           /\ SetEntries(es) /\ es = [i \in Instruments |-> es[i]]
           /\ winners \subseteq {i \in Instruments : requests[i] # {} /\ Promotable(i)}
           /\ \A i \in Instruments : es[i] =
                IF i \in winners
                  THEN [Upserted(entries[i], FALSE,
                                 Larger(Priority("seed_watchlist") + 5,
                                        Asked(i).score), "promotion_accepted")
                          EXCEPT !.expires = Asked(i).left]
                  ELSE entries[i]
  BY AllocateEntries
<1>2. ASSUME NEW i \in Instruments
      PROVE  EntryOK(es[i]) /\ Keeps(entries[i], es[i])
  <2>1. EntryOK(entries[i])
    BY DEF IInv, EntriesOK
  <2>2. CASE i \notin winners
    BY <1>1, <2>1, <2>2 DEF Keeps, InTier1
  <2>3. CASE i \in winners
    <3>1. Asked(i) \in requests[i]
      BY <1>1, <2>3 DEF Asked
    <3>2. Asked(i).score \in 0 .. 100 /\ Asked(i).left \in 0 .. TimeToLive
      <4>1. Asked(i) \in Requests
        BY <3>1 DEF IInv, RequestsOK
      <4> QED
        BY <4>1, BoundsAreNat DEF Requests
    <3>3. Larger(Priority("seed_watchlist") + 5, Asked(i).score) \in 0 .. 100
      BY <3>2 DEF Priority, Larger
    <3> DEFINE u == Upserted(entries[i], FALSE,
                             Larger(Priority("seed_watchlist") + 5,
                                    Asked(i).score), "promotion_accepted")
    <3>4. /\ EntryOK(u) /\ InTier1(u) /\ u.cooldown = 0
          /\ u.reason = "promotion_accepted"
      <4>1. "promotion_accepted" \in Reasons \ {"none"}
        BY DEF Reasons
      <4> QED
        BY <2>1, <3>3, <4>1, UpsertedType, ZenonT(30)
    <3>5. es[i] = [u EXCEPT !.expires = Asked(i).left]
      BY <1>1, <2>3
    <3> HIDE DEF u
    <3> QED
      BY <3>2, <3>4, <3>5 DEF EntryOK, Entries, InTier1, Keeps
  <2> QED
    BY <2>2, <2>3
<1>3. EntriesOK' /\ RestIsCooldown'
  BY <1>1, <1>2, SetEntriesKeeps
<1>4. RequestsOK'
  BY DEF Allocate, RequestsOK
<1>5. RestOK'
  BY DEF Allocate, IInv, RestOK, trading
<1> QED
  BY <1>3, <1>4, <1>5 DEF IInv

\* A deadline that is counted down stays in its range.
LEMMA LessType ==
  ASSUME NEW m \in Nat, NEW n \in 0 .. m
  PROVE  Less(n) \in 0 .. m /\ Less(n) <= n
BY DEF Less

\* A tick counts the rest and the cool-down down together.
LEMMA TickStep == IInv /\ Tick => IInv'
<1> SUFFICES ASSUME IInv, Tick PROVE IInv'
  OBVIOUS
<1> USE BoundsAreNat
<1>1. ASSUME NEW i \in Instruments
      PROVE  /\ EntryOK(entries'[i])
             /\ resting'[i] \in Nat
             /\ resting'[i] <= entries'[i].cooldown
  <2> DEFINE e == entries[i]
  <2>1. EntryOK(e) /\ resting[i] \in Nat /\ resting[i] <= e.cooldown
    BY DEF IInv, EntriesOK, RestIsCooldown
  <2>2. /\ entries'[i] = [e EXCEPT !.residency = Less(@), !.cooldown = Less(@),
                                   !.expires = Less(@), !.fresh = Less(@)]
        /\ resting'[i] = Less(resting[i])
    BY DEF Tick
  <2> HIDE DEF e
  <2>3. e \in Entries
    BY <2>1 DEF EntryOK
  <2>4. /\ Less(e.residency) \in 0 .. Residency
        /\ Less(e.cooldown) \in 0 .. Cooldown
        /\ Less(e.expires) \in 0 .. TimeToLive
        /\ Less(e.fresh) \in 0 .. StaleAfter
        /\ Less(e.expires) > 0 => e.expires > 0
    BY <2>3 DEF Entries, Less
  <2>5. /\ entries'[i] \in Entries
        /\ entries'[i].tier = e.tier /\ entries'[i].status = e.status
        /\ entries'[i].reason = e.reason /\ entries'[i].pinned = e.pinned
        /\ entries'[i].expires = Less(e.expires)
        /\ entries'[i].cooldown = Less(e.cooldown)
    <3>1. entries'[i] =
            [tier |-> e.tier, status |-> e.status, pinned |-> e.pinned,
             reason |-> e.reason, priority |-> e.priority,
             residency |-> Less(e.residency), cooldown |-> Less(e.cooldown),
             expires |-> Less(e.expires), fresh |-> Less(e.fresh)]
      BY <2>2, <2>3, RecordOfEntry
    <3> QED
      BY <2>3, <2>4, <3>1 DEF Entries
  <2>6. EntryOK(entries'[i])
    BY <2>1, <2>4, <2>5 DEF EntryOK, InTier1
  <2>7. resting'[i] \in Nat /\ resting'[i] <= entries'[i].cooldown
    BY <2>1, <2>2, <2>3, <2>5 DEF Entries, Less
  <2> QED
    BY <2>6, <2>7
<1>2. EntriesOK' /\ RestIsCooldown'
  <2>1. DOMAIN entries' = Instruments /\ DOMAIN resting' = Instruments
        /\ entries' = [i \in Instruments |-> entries'[i]]
        /\ resting' = [i \in Instruments |-> resting'[i]]
    BY DEF Tick
  <2> QED
    BY <1>1, <2>1 DEF EntriesOK, EntryOK, RestIsCooldown
<1>3. RequestsOK'
  <2>1. ASSUME NEW i \in Instruments
        PROVE  /\ requests'[i] \subseteq Requests
               /\ \A q, r \in requests'[i] : q = r
    <3>1. requests'[i] = {[r EXCEPT !.left = Less(@)] : r \in requests[i]}
      BY DEF Tick
    <3>2. ASSUME NEW r \in Requests
          PROVE  [r EXCEPT !.left = Less(@)] \in Requests
      BY LessType DEF Requests, Less
    <3> QED
      BY <3>1, <3>2 DEF IInv, RequestsOK
  <2>2. requests' = [i \in Instruments |-> requests'[i]]
    BY DEF Tick
  <2> QED
    BY <2>1, <2>2 DEF RequestsOK
<1>4. RestOK'
  <2>1. /\ UNCHANGED <<exposure, runtimes>>
        /\ refresh' = [refresh EXCEPT !.wait = Less(@)]
    BY DEF Tick, trading
  <2>2. Less(refresh.wait) \in 0 .. Interval
    BY LessType DEF IInv, RestOK
  <2> QED
    BY <2>1, <2>2 DEF IInv, RestOK
<1> QED
  BY <1>2, <1>3, <1>4 DEF IInv

LEMMA IInvStep == IInv /\ [Next]_vars => IInv'
<1> SUFFICES ASSUME IInv, [Next]_vars PROVE IInv'
  OBVIOUS
<1>1. CASE AbandonRefresh
  BY <1>1, BoundsAreNat
     DEF AbandonRefresh, Idle, trading, history, IInv, EntriesOK, RequestsOK,
         RestOK, RestIsCooldown
<1>2. ASSUME NEW i \in Instruments, Runs(i) PROVE IInv'
  BY <1>2 DEF Runs, history, IInv, EntriesOK, RequestsOK, RestOK, RestIsCooldown
<1>3. ASSUME NEW i \in Instruments, Trades(i) PROVE IInv'
  <2>1. UNCHANGED <<entries, requests, runtimes, refresh, resting>>
    BY <1>3 DEF Trades, history
  <2>2. exposure' \in [Instruments -> {"none", "pending", "filled", "open"}]
    BY <1>3 DEF Trades, IInv, RestOK
  <2> QED
    BY <2>1, <2>2 DEF IInv, EntriesOK, RequestsOK, RestOK, RestIsCooldown
<1>4. CASE UNCHANGED vars
  BY <1>4 DEF vars, trading, IInv, EntriesOK, RequestsOK, RestOK, RestIsCooldown
<1> QED
  BY <1>1, <1>2, <1>3, <1>4, SynchroniseStep, StartRefreshStep, AllocateStep,
     TickStep, ChooseStep, UnchooseStep, ScreenStep DEF Next

-----------------------------------------------------------------------------
(* The theorems.                                                           *)

\* Deadlines, priorities and reasons stay in range, one request is pending at
\* the most, and a pin is a protected Tier-1 entry.
THEOREM CoverageTypes == Spec => []TypeOK
<1>1. IInv => TypeOK
  <2> SUFFICES ASSUME IInv PROVE TypeOK
    OBVIOUS
  <2>1. ASSUME NEW i \in Instruments PROVE Cardinality(requests[i]) <= 1
    <3>1. CASE requests[i] = {}
      BY <3>1, FS_EmptySet
    <3>2. ASSUME NEW r \in requests[i] PROVE Cardinality(requests[i]) <= 1
      <4>1. requests[i] = {r}
        BY DEF IInv, RequestsOK
      <4>2. Cardinality({r}) = 1
        BY FS_Singleton
      <4> QED
        BY <4>1, <4>2
    <3> QED
      BY <3>1, <3>2
  <2>2. \A i \in Instruments : EntryOK(entries[i])
    BY DEF IInv, EntriesOK
  <2>3. \A i \in Instruments : \A r \in requests[i] :
          r.score \in Scores /\ r.left \in 0 .. TimeToLive
    BY DEF IInv, RequestsOK, Requests
  <2> QED
    BY <2>1, <2>2, <2>3 DEF TypeOK, IInv, RestOK, EntryOK, Entries
<1> QED
  BY InitIInv, IInvStep, <1>1, PTL DEF Spec

\* An instrument that was put out of Tier 1 is not promoted before its
\* cool-down is over, however the seeding, the operator and the plans have
\* changed its entry since.
THEOREM CooldownKept == Spec => CooldownIsKept
<1>1. IInv /\ [Next]_vars =>
        [Allocate => \A i \in Instruments :
                       entries'[i] # entries[i] => resting[i] = 0]_vars
  <2> SUFFICES ASSUME IInv, Allocate, NEW i \in Instruments,
                      entries'[i] # entries[i]
               PROVE  resting[i] = 0
    OBVIOUS
  <2>1. entries[i].cooldown = 0
    BY AllocateEntries DEF SetEntries, Promotable
  <2> QED
    BY <2>1 DEF IInv, RestIsCooldown
<1> QED
  BY InitIInv, IInvStep, <1>1, PTL DEF Spec, CooldownIsKept

-----------------------------------------------------------------------------
(* Sums of counts.                                                         *)

\* A sum of counts, as a number of things: the count of x is that many pairs.
Units(counts, s) == UNION {{x} \X (1 .. counts[x]) : x \in s}

IsSumOf(counts, sum) ==
  sum = [s \in SUBSET DOMAIN counts |->
           IF s = {} THEN 0
           ELSE LET x == CHOOSE x \in s : TRUE
                IN  counts[x] + sum[s \ {x}]]

\* The units of a finite set are as many as those of any member and of the rest.
LEMMA UnitsSplit ==
  ASSUME NEW S, IsFiniteSet(S), NEW counts \in [S -> Nat], NEW s \in SUBSET S
  PROVE  /\ IsFiniteSet(Units(counts, s))
         /\ Cardinality(Units(counts, s)) \in Nat
         /\ \A x \in s : Cardinality(Units(counts, s)) =
                           counts[x] + Cardinality(Units(counts, s \ {x}))
<1>1. ASSUME NEW x \in S
      PROVE  /\ IsFiniteSet({x} \X (1 .. counts[x]))
             /\ Cardinality({x} \X (1 .. counts[x])) = counts[x]
  <2>1. IsFiniteSet(1 .. counts[x]) /\ Cardinality(1 .. counts[x]) = counts[x]
    BY FS_Interval
  <2>2. IsFiniteSet({x}) /\ Cardinality({x}) = 1
    BY FS_Singleton
  <2>3. counts[x] \in Nat
    OBVIOUS
  <2> QED
    BY <2>1, <2>2, <2>3, FS_Product, Z3
<1>2. ASSUME NEW t \in SUBSET S PROVE IsFiniteSet(Units(counts, t))
  <2>1. IsFiniteSet(t)
    BY FS_Subset
  <2> DEFINE own == [x \in t |-> {x} \X (1 .. counts[x])]
             T == {{x} \X (1 .. counts[x]) : x \in t}
  <2>2. own \in Surjection(t, T)
    BY DEF Surjection
  <2>3. IsFiniteSet(T)
    BY <2>1, <2>2, FS_Surjection
  <2> QED
    BY <1>1, <2>3, FS_UNION DEF Units
<1>3. ASSUME NEW x \in s
      PROVE  Cardinality(Units(counts, s)) =
               counts[x] + Cardinality(Units(counts, s \ {x}))
  <2> DEFINE own == {x} \X (1 .. counts[x])
             rest == Units(counts, s \ {x})
  <2>1. Units(counts, s) = own \cup rest
    BY DEF Units
  <2>2. own \cap rest = {}
    BY DEF Units
  <2>3. IsFiniteSet(own) /\ IsFiniteSet(rest) /\ Cardinality(own) = counts[x]
    BY <1>1, <1>2
  <2>4. Cardinality(rest) \in Nat
    BY <2>3, FS_CardinalityType
  <2> HIDE DEF own, rest
  <2>5. Cardinality(own \cup rest) = Cardinality(own) + Cardinality(rest) - 0
    BY <2>2, <2>3, FS_Union, FS_EmptySet
  <2> QED
    BY <2>1, <2>3, <2>4, <2>5 DEF rest
<1> QED
  BY <1>2, <1>3, FS_CardinalityType

\* The equation by which a sum is defined has the number of units as its only
\* solution.
LEMMA SumIsUnique ==
  ASSUME NEW S, IsFiniteSet(S), NEW counts \in [S -> Nat],
         NEW sum, IsSumOf(counts, sum), NEW s \in SUBSET S
  PROVE  sum[s] = Cardinality(Units(counts, s))
<1> DEFINE Wrong == {t \in SUBSET S : sum[t] # Cardinality(Units(counts, t))}
<1>1. SUFFICES ASSUME Wrong # {} PROVE FALSE
  OBVIOUS
<1>2. IsWellFoundedOn(StrictSubsetOrdering(S), SUBSET S)
  BY FS_StrictSubsetOrderingWellFounded, FS_FiniteSubsetsOfFinite
<1>3. PICK t \in Wrong : \A u \in Wrong : <<u, t>> \notin StrictSubsetOrdering(S)
  BY <1>1, <1>2, WFMin, Zenon
<1>4. CASE t = {}
  <2>1. sum[t] = 0
    BY <1>4 DEF IsSumOf
  <2>2. Units(counts, t) = {}
    BY <1>4 DEF Units
  <2> QED
    BY <1>3, <2>1, <2>2, FS_EmptySet
<1>5. CASE t # {}
  <2> DEFINE x == CHOOSE x \in t : TRUE
  <2>1. x \in t /\ t \ {x} \in SUBSET S
    BY <1>5
  <2>2. sum[t] = counts[x] + sum[t \ {x}]
    BY <1>5 DEF IsSumOf
  <2> HIDE DEF x
  <2>3. <<t \ {x}, t>> \in StrictSubsetOrdering(S)
    BY <2>1 DEF StrictSubsetOrdering
  <2>4. sum[t \ {x}] = Cardinality(Units(counts, t \ {x}))
    BY <1>3, <2>1, <2>3
  <2>5. Cardinality(Units(counts, t)) =
          counts[x] + Cardinality(Units(counts, t \ {x}))
    BY <2>1, UnitsSplit
  <2> QED
    BY <1>3, <2>2, <2>4, <2>5
<1> QED
  BY <1>4, <1>5

LEMMA SumExists ==
  ASSUME NEW S, IsFiniteSet(S), NEW counts \in [S -> Nat]
  PROVE  \E sum : IsSumOf(counts, sum)
<1> DEFINE sum == [s \in SUBSET S |-> Cardinality(Units(counts, s))]
<1>1. ASSUME NEW s \in SUBSET S
      PROVE  sum[s] = IF s = {} THEN 0
                      ELSE LET x == CHOOSE x \in s : TRUE
                           IN  counts[x] + sum[s \ {x}]
  <2>1. CASE s = {}
    BY <2>1, FS_EmptySet DEF Units
  <2>2. CASE s # {}
    <3> DEFINE x == CHOOSE x \in s : TRUE
    <3>1. x \in s
      BY <2>2
    <3> HIDE DEF x
    <3>2. sum[s] = counts[x] + sum[s \ {x}]
      BY <3>1, UnitsSplit
    <3> QED
      BY <2>2, <3>2 DEF x
  <2> QED
    BY <2>1, <2>2
<1>2. IsSumOf(counts, sum)
  BY <1>1 DEF IsSumOf
<1> QED
  BY <1>2

LEMMA SumIsUnits ==
  ASSUME NEW S, IsFiniteSet(S), NEW counts \in [S -> Nat]
  PROVE  /\ SumFunction(counts) = Cardinality(Units(counts, S))
         /\ SumFunction(counts) \in Nat
<1> DEFINE sum == CHOOSE sum : IsSumOf(counts, sum)
<1>1. SumFunction(counts) = sum[S]
  <2>1. SumFunction(counts) = sum[DOMAIN counts]
    BY DEF SumFunction, SumFunctionOnSet, FoldFunctionOnSet, MapThenFoldSet, IsSumOf
  <2> QED
    BY <2>1
<1>2. IsSumOf(counts, sum)
  BY SumExists
<1> HIDE DEF sum
<1> QED
  BY <1>1, <1>2, SumIsUnique, UnitsSplit

LEMMA SumIsMonotone ==
  ASSUME NEW S, IsFiniteSet(S), NEW f \in [S -> Nat], NEW g \in [S -> Nat],
         \A x \in S : f[x] <= g[x]
  PROVE  SumFunction(f) <= SumFunction(g)
<1>1. Units(f, S) \subseteq Units(g, S)
  BY DEF Units
<1>2. IsFiniteSet(Units(g, S))
  BY UnitsSplit
<1> QED
  BY <1>1, <1>2, SumIsUnits, FS_Subset

-----------------------------------------------------------------------------
(* The promotions of a minute.                                             *)

Ages == 0 .. Minute - 1

LEMMA AgesAreFinite == IsFiniteSet(Ages) /\ 0 \in Ages
<1>1. Minute - 1 \in Nat
  BY BoundAssumption
<1> QED
  BY <1>1, FS_Interval DEF Ages

\* The minute's promotions are among its accepted requests.
PacedInv ==
  /\ accepted \in [Ages -> Nat] /\ promotions \in [Ages -> Nat]
  /\ \A age \in Ages : promotions[age] <= accepted[age]
  /\ SumFunction(promotions) <= PerMinute

\* What is counted now adds to the sum of the minute.
LEMMA CountedSum ==
  ASSUME NEW counts \in [Ages -> Nat], NEW n \in Nat
  PROVE  /\ Counted(counts, n) \in [Ages -> Nat]
         /\ SumFunction(Counted(counts, n)) = SumFunction(counts) + n
<1> DEFINE more == Counted(counts, n)
<1>1. more \in [Ages -> Nat] /\ more[0] = counts[0] + n
  BY AgesAreFinite DEF Counted
<1>2. Units(more, Ages \ {0}) = Units(counts, Ages \ {0})
  BY AgesAreFinite DEF Counted, Units
<1>3. /\ Cardinality(Units(more, Ages)) =
           more[0] + Cardinality(Units(more, Ages \ {0}))
      /\ Cardinality(Units(counts, Ages)) =
           counts[0] + Cardinality(Units(counts, Ages \ {0}))
      /\ Cardinality(Units(counts, Ages \ {0})) \in Nat
  BY <1>1, AgesAreFinite, UnitsSplit
<1>4. counts[0] \in Nat
  BY AgesAreFinite
<1>5. /\ SumFunction(more) = Cardinality(Units(more, Ages))
      /\ SumFunction(counts) = Cardinality(Units(counts, Ages))
  BY <1>1, AgesAreFinite, SumIsUnits
<1> HIDE DEF more
<1>6. SumFunction(more) = SumFunction(counts) + n
  BY <1>1, <1>2, <1>3, <1>4, <1>5
<1> QED
  BY <1>1, <1>6 DEF more

\* With a tick the oldest leave the sum and the others stay in it.
LEMMA AgedSum ==
  ASSUME NEW counts \in [Ages -> Nat]
  PROVE  /\ Aged(counts) \in [Ages -> Nat]
         /\ SumFunction(Aged(counts)) <= SumFunction(counts)
<1> DEFINE older == Aged(counts)
           T == Units(counts, Ages)
           S == Units(older, Ages)
           before == [u \in S |-> <<u[1] - 1, u[2]>>]
<1>1. older \in [Ages -> Nat]
  BY BoundAssumption DEF Aged, Ages
<1>2. ASSUME NEW u \in S
      PROVE  /\ u = <<u[1], u[2]>> /\ u[1] \in Int
             /\ <<u[1] - 1, u[2]>> \in T
  <2>1. PICK age \in Ages : u \in {age} \X (1 .. older[age])
    BY DEF Units
  <2>2. /\ u = <<u[1], u[2]>> /\ u[1] = age /\ u[2] \in 1 .. older[age]
    BY <2>1
  <2>3. older[age] = IF age = 0 THEN 0 ELSE counts[age - 1]
    BY DEF Aged
  <2>4. age # 0
    BY <2>2, <2>3
  <2>5. age - 1 \in Ages /\ u[2] \in 1 .. counts[age - 1]
    BY <2>2, <2>3, <2>4, BoundAssumption DEF Ages
  <2>6. <<u[1] - 1, u[2]>> \in {age - 1} \X (1 .. counts[age - 1])
    BY <2>2, <2>5
  <2> QED
    BY <2>2, <2>5, <2>6 DEF Units, Ages
<1>3. before \in Injection(S, T)
  <2>1. before \in [S -> T]
    BY <1>2
  <2>2. \A u, v \in S : before[u] = before[v] => u = v
    BY <1>2
  <2> QED
    BY <2>1, <2>2, Fun_IsInj
<1>4. IsFiniteSet(T)
  BY AgesAreFinite, UnitsSplit
<1> HIDE DEF S, T, before
<1>5. Cardinality(S) <= Cardinality(T)
  BY <1>3, <1>4, FS_Injection
<1> QED
  BY <1>1, <1>5, AgesAreFinite, SumIsUnits DEF S, T

\* allocate_pending_promotions counts every promotion among the accepted, and
\* spends no more than the minute has left.
LEMMA AllocateCounts ==
  ASSUME Allocate, Spendable \in Nat
  PROVE  \E n, m \in Nat : /\ n <= m /\ n <= Spendable
                           /\ promotions' = Counted(promotions, n)
                           /\ accepted' = Counted(accepted, m)
<1> DEFINE alive == {i \in Pending : Asked(i).left > 0}
           served == {i \in alive : Covered(i)}
           eligible == {i \in alive \ served : Promotable(i)}
           size == IF Cardinality(eligible) < Spendable
                     THEN Cardinality(eligible) ELSE Spendable
<1>1. PICK winners \in kSubset(size, eligible) :
        /\ accepted' = Counted(accepted, Cardinality(winners \cup served))
        /\ promotions' = Counted(promotions, Cardinality(winners))
  BY DEF Allocate
<1>2. IsFiniteSet(Instruments)
  BY BoundAssumption, FS_Interval DEF Instruments
<1>3. winners \cup served \in SUBSET Instruments
  BY DEF kSubset, Pending
<1>4. IsFiniteSet(winners \cup served) /\ winners \in SUBSET (winners \cup served)
  BY <1>2, <1>3, FS_Subset
<1>5. /\ Cardinality(winners) \in Nat /\ Cardinality(winners \cup served) \in Nat
      /\ Cardinality(winners) <= Cardinality(winners \cup served)
  BY <1>4, FS_Subset, FS_CardinalityType
<1>6. Cardinality(winners) = size
  BY DEF kSubset
<1>7. IsFiniteSet(eligible)
  BY <1>2, FS_Subset DEF Pending
<1>8. Cardinality(winners) <= Spendable
  BY <1>6, <1>7, FS_CardinalityType
<1> HIDE DEF served, eligible
<1> QED
  BY <1>1, <1>5, <1>8

\* No step promotes without counting, and only time makes room again.
LEMMA PacedStep == PacedInv /\ [Next]_vars => PacedInv'
<1> SUFFICES ASSUME PacedInv, [Next]_vars PROVE PacedInv'
  OBVIOUS
<1>0. /\ SumFunction(accepted) \in Nat /\ SumFunction(promotions) \in Nat
      /\ SumFunction(promotions) <= SumFunction(accepted)
  BY AgesAreFinite, SumIsUnits, SumIsMonotone DEF PacedInv
<1>1. CASE Allocate
  <2>1. Spendable \in Nat
    BY <1>0, BoundAssumption DEF Spendable
  <2>2. PICK n, m \in Nat : /\ n <= m /\ n <= Spendable
                            /\ promotions' = Counted(promotions, n)
                            /\ accepted' = Counted(accepted, m)
    BY <1>1, <2>1, AllocateCounts
  <2>3. /\ accepted' \in [Ages -> Nat] /\ promotions' \in [Ages -> Nat]
        /\ SumFunction(promotions') = SumFunction(promotions) + n
    BY <2>2, CountedSum DEF PacedInv
  <2>4. \A age \in Ages : promotions'[age] <= accepted'[age]
    BY <2>2, AgesAreFinite DEF PacedInv, Counted
  <2>5. SumFunction(promotions') <= PerMinute
    BY <1>0, <2>2, <2>3, BoundAssumption DEF Spendable, PacedInv
  <2> QED
    BY <2>3, <2>4, <2>5 DEF PacedInv
<1>2. CASE Tick
  <2>1. accepted' = Aged(accepted) /\ promotions' = Aged(promotions)
    BY <1>2 DEF Tick
  <2>2. /\ accepted' \in [Ages -> Nat] /\ promotions' \in [Ages -> Nat]
        /\ SumFunction(promotions') <= SumFunction(promotions)
    BY <2>1, AgedSum DEF PacedInv
  <2>3. \A age \in Ages : promotions'[age] <= accepted'[age]
    BY <2>1, BoundAssumption DEF PacedInv, Aged, Ages
  <2>4. SumFunction(promotions') \in Nat
    BY <2>2, AgesAreFinite, SumIsUnits
  <2>5. SumFunction(promotions') <= PerMinute
    BY <1>0, <2>2, <2>4, BoundAssumption DEF PacedInv
  <2> QED
    BY <2>2, <2>3, <2>5 DEF PacedInv
<1>3. CASE UNCHANGED <<accepted, promotions>>
  BY <1>3 DEF PacedInv
<1>4. ~Allocate /\ ~Tick => UNCHANGED <<accepted, promotions>>
  BY DEF Next, Synchronise, StartRefresh, AbandonRefresh, Choose, Unchoose,
         Screen, Runs, Trades, history, vars
<1> QED
  BY <1>1, <1>2, <1>3, <1>4

LEMMA InitPaced == Init => PacedInv
<1> SUFFICES ASSUME Init PROVE PacedInv
  OBVIOUS
<1>1. accepted \in [Ages -> Nat] /\ promotions \in [Ages -> Nat]
      /\ promotions = [age \in Ages |-> 0] /\ accepted = [age \in Ages |-> 0]
  BY DEF Init, Ages
<1>2. SumFunction(promotions) = 0
  <2>1. Units(promotions, Ages) = {}
    BY <1>1 DEF Units
  <2> QED
    BY <1>1, <2>1, AgesAreFinite, SumIsUnits, FS_EmptySet
<1> QED
  BY <1>1, <1>2, BoundAssumption DEF PacedInv

\* No minute sees more promotions than ig_streaming_max_promotions_per_minute,
\* refreshes that were cut short included: whatever is promoted is counted by
\* _accepted_in_last_minute for as long as the minute lasts.
THEOREM PromotionsPaced == Spec => []PromotionsArePaced
<1>1. PacedInv => PromotionsArePaced
  BY DEF PacedInv, PromotionsArePaced
<1> QED
  BY InitPaced, PacedStep, <1>1, PTL DEF Spec

-----------------------------------------------------------------------------
(* The plan.                                                               *)

Tier1(es) == {i \in Instruments : InTier1(es[i])}
Rank(es, i) == Cardinality({j \in Tier1(es) : Before(es, j, i)})
Earlier(es, s, i) == {j \in s : Before(es, j, i)}

\* Entries whose order is decided.
Ranked(es) ==
  \A i \in Instruments : es[i].pinned \in BOOLEAN /\ es[i].priority \in Nat

\* The equation of the loop over the ranks.
Grown(es, chosen, n) ==
  chosen \cup {i \in Tier1(es) : Rank(es, i) = n /\ HasSlot(es, chosen, i)}
IsChosen(es, chosen) ==
  chosen = [n \in 0 .. InstrumentCount |->
              IF n = 0 THEN {} ELSE Grown(es, chosen[n - 1], n - 1)]

LEMMA LeastExists ==
  ASSUME NEW S \in SUBSET Nat, S # {}
  PROVE  \E n \in S : \A m \in S : n <= m
<1>1. PICK n \in S : \A m \in S : <<m, n>> \notin OpToRel(<, Nat)
  BY NatLessThanWellFounded, WFMin, Zenon
<1>2. \A m \in S : ~(m < n)
  BY <1>1 DEF OpToRel
<1> QED
  BY <1>2

\* The loop has a result.
LEMMA ChosenExists ==
  ASSUME NEW es
  PROVE  \E chosen : IsChosen(es, chosen)
<1> DEFINE Steps(g, k) == /\ g[0] = {}
                          /\ \A n \in 1 .. k : g[n] = Grown(es, g[n - 1], n - 1)
           Stuck == {k \in 0 .. InstrumentCount : ~\E g : Steps(g, k)}
<1>n. InstrumentCount \in Nat
  BY BoundAssumption
<1>1. Stuck = {}
  <2>1. SUFFICES ASSUME Stuck # {} PROVE FALSE
    OBVIOUS
  <2>0. Stuck \in SUBSET Nat
    BY <1>n
  <2> HIDE DEF Stuck
  <2>2. PICK k \in Stuck : \A m \in Stuck : k <= m
    BY <2>0, <2>1, LeastExists
  <2> USE DEF Stuck
  <2>3. k # 0
    <3>1. Steps([n \in {0} |-> {}], 0)
      OBVIOUS
    <3> QED
      BY <3>1, <2>2
  <2>4. k - 1 \in 0 .. InstrumentCount /\ k - 1 \notin Stuck
    BY <1>n, <2>2, <2>3
  <2>5. PICK g : Steps(g, k - 1)
    BY <2>4
  <2> DEFINE h == [n \in 0 .. k |-> IF n = k THEN Grown(es, g[k - 1], k - 1)
                                             ELSE g[n]]
  <2>6. Steps(h, k)
    <3>1. h[0] = {}
      BY <2>3, <2>5
    <3>2. ASSUME NEW n \in 1 .. k PROVE h[n] = Grown(es, h[n - 1], n - 1)
      <4>1. CASE n = k
        BY <4>1, <1>n, <2>2, <2>3
      <4>2. CASE n # k
        BY <4>2, <1>n, <2>2, <2>5
      <4> QED
        BY <4>1, <4>2
    <3> QED
      BY <3>1, <3>2
  <2> QED
    BY <2>2, <2>6
<1>2. PICK g : Steps(g, InstrumentCount)
  <2>1. InstrumentCount \in 0 .. InstrumentCount
    BY <1>n
  <2> QED
    BY <1>1, <2>1
<1> DEFINE chosen == [n \in 0 .. InstrumentCount |-> g[n]]
<1>3. ASSUME NEW n \in 0 .. InstrumentCount
      PROVE  chosen[n] = IF n = 0 THEN {} ELSE Grown(es, chosen[n - 1], n - 1)
  <2>1. CASE n = 0
    BY <1>2, <2>1
  <2>2. CASE n # 0
    <3>1. n \in 1 .. InstrumentCount /\ n - 1 \in 0 .. InstrumentCount
      BY <1>n, <2>2
    <3>2. g[n] = Grown(es, g[n - 1], n - 1)
      BY <1>2, <3>1
    <3> QED
      BY <2>2, <3>1, <3>2
  <2> QED
    BY <2>1, <2>2
<1>4. chosen = [n \in 0 .. InstrumentCount |->
                  IF n = 0 THEN {} ELSE Grown(es, chosen[n - 1], n - 1)]
  BY <1>3, Zenon
<1> QED
  BY <1>4 DEF IsChosen

\* The entries come one after the other.
LEMMA BeforeIsOrder ==
  ASSUME NEW es, Ranked(es)
  PROVE  \A i, j \in Instruments :
           /\ ~Before(es, i, i)
           /\ i # j => Before(es, i, j) \/ Before(es, j, i)
           /\ Before(es, i, j) => ~Before(es, j, i)
           /\ \A k \in Instruments :
                Before(es, i, j) /\ Before(es, j, k) => Before(es, i, k)
<1>1. \A i \in Instruments : i \in Nat
  BY BoundAssumption DEF Instruments
<1> QED
  BY <1>1 DEF Before, Ranked

LEMMA InstrumentsAreFinite ==
  /\ IsFiniteSet(Instruments) /\ Cardinality(Instruments) = InstrumentCount
  /\ InstrumentCount \in Nat
<1>1. InstrumentCount \in Nat \ {0}
  BY BoundAssumption
<1> QED
  BY <1>1, FS_Interval DEF Instruments

\* Ranks number the entries in their order.
LEMMA RankFacts ==
  ASSUME NEW es, Ranked(es), NEW i \in Tier1(es)
  PROVE  /\ Rank(es, i) \in 0 .. InstrumentCount - 1
         /\ \A j \in Tier1(es) : Rank(es, j) < Rank(es, i) <=> Before(es, j, i)
<1> DEFINE T == Tier1(es)
           Prior(k) == {j \in T : Before(es, j, k)}
<1>1. T \subseteq Instruments /\ IsFiniteSet(T)
  BY InstrumentsAreFinite, FS_Subset DEF Tier1
<1>2. ASSUME NEW k \in T
      PROVE  /\ IsFiniteSet(Prior(k)) /\ Cardinality(Prior(k)) \in Nat
             /\ Rank(es, k) = Cardinality(Prior(k))
  BY <1>1, FS_Subset, FS_CardinalityType DEF Rank
<1>3. ASSUME NEW k \in T, NEW j \in T, Before(es, j, k)
      PROVE  Rank(es, j) < Rank(es, k)
  <2>1. Prior(j) \subseteq Prior(k) /\ j \in Prior(k) /\ j \notin Prior(j)
    BY <1>1, <1>3, BeforeIsOrder
  <2>2. Cardinality(Prior(j)) <= Cardinality(Prior(k))
        /\ Cardinality(Prior(j)) # Cardinality(Prior(k))
    BY <1>2, <2>1, FS_Subset
  <2> QED
    BY <1>2, <2>2
<1>4. Rank(es, i) < InstrumentCount
  <2>1. i \notin Prior(i) /\ i \in Instruments /\ Prior(i) \subseteq Instruments
    BY <1>1, BeforeIsOrder
  <2>2. Cardinality(Prior(i)) <= InstrumentCount
        /\ Cardinality(Prior(i)) # InstrumentCount
    BY <2>1, InstrumentsAreFinite, FS_Subset
  <2> QED
    BY <1>2, <2>2, InstrumentsAreFinite
<1>5. ASSUME NEW j \in T, Rank(es, j) < Rank(es, i) PROVE Before(es, j, i)
  <2>0. Rank(es, i) \in Nat /\ Rank(es, j) \in Nat
    BY <1>2
  <2>1. j # i /\ (Before(es, i, j) => Rank(es, i) < Rank(es, j))
    BY <1>3, <1>5, <2>0
  <2>2. ~Before(es, i, j)
    BY <1>5, <2>0, <2>1
  <2> QED
    BY <1>1, <2>1, <2>2, BeforeIsOrder
<1>6. Rank(es, i) \in Nat /\ InstrumentCount \in Nat
  BY <1>2, InstrumentsAreFinite
<1>7. Rank(es, i) \in 0 .. InstrumentCount - 1
  BY <1>4, <1>6
<1> QED
  BY <1>3, <1>5, <1>7

LEMMA PlanFields ==
  ASSUME NEW es
  PROVE  /\ PlanOf(es).selected =
              (CHOOSE chosen : IsChosen(es, chosen))[InstrumentCount]
         /\ PlanOf(es).pinned = {i \in PlanOf(es).selected : es[i].pinned}
         /\ PlanOf(es).capped = Tier1(es) \ PlanOf(es).selected
BY DEF PlanOf, IsChosen, Grown, Rank, Tier1

\* What the loop has chosen so far are those of the result that rank lower.
LEMMA ChosenGrows ==
  ASSUME NEW es, Ranked(es), NEW chosen, IsChosen(es, chosen),
         NEW n \in 0 .. InstrumentCount
  PROVE  /\ \A i \in chosen[n] : i \in Tier1(es) /\ Rank(es, i) < n
         /\ \A m \in 0 .. n : chosen[m] = {i \in chosen[n] : Rank(es, i) < m}
<1> DEFINE Good(k) ==
      /\ \A i \in chosen[k] : i \in Tier1(es) /\ Rank(es, i) < k
      /\ \A m \in 0 .. k : chosen[m] = {i \in chosen[k] : Rank(es, i) < m}
    Stuck == {k \in 0 .. InstrumentCount : ~Good(k)}
<1>n. InstrumentCount \in Nat
  BY BoundAssumption
<1>1. SUFFICES ASSUME Stuck # {} PROVE FALSE
  OBVIOUS
<1>0. Stuck \in SUBSET Nat
  BY <1>n
<1> HIDE DEF Stuck
<1>2. PICK k \in Stuck : \A m \in Stuck : k <= m
  BY <1>0, <1>1, LeastExists
<1> USE DEF Stuck
<1>3. ASSUME NEW i \in Tier1(es) PROVE Rank(es, i) \in Nat
  BY <1>n, RankFacts
<1>4. k # 0
  <2>1. chosen[0] = {}
    BY <1>n DEF IsChosen
  <2> QED
    BY <2>1, <1>2
<1>5. k \in Nat /\ k - 1 \in 0 .. InstrumentCount /\ k - 1 \notin Stuck
  BY <1>n, <1>2, <1>4
<1>6. Good(k - 1)
  BY <1>5
<1>7. chosen[k] = Grown(es, chosen[k - 1], k - 1)
  BY <1>2, <1>4 DEF IsChosen
<1>8. \A i \in chosen[k] : /\ i \in Tier1(es) /\ Rank(es, i) < k
                           /\ i \in chosen[k - 1] <=> Rank(es, i) < k - 1
  BY <1>3, <1>5, <1>6, <1>7 DEF Grown
<1>9. \A i \in chosen[k - 1] : i \in chosen[k]
  BY <1>7 DEF Grown
<1>10. ASSUME NEW m \in 0 .. k
       PROVE  chosen[m] = {i \in chosen[k] : Rank(es, i) < m}
  <2>1. CASE m = k
    BY <1>8, <2>1
  <2>2. CASE m # k
    <3>1. m \in 0 .. k - 1
      BY <1>5, <2>2
    <3>2. chosen[m] = {i \in chosen[k - 1] : Rank(es, i) < m}
      BY <1>6, <3>1
    <3>3. \A i \in chosen[k] : Rank(es, i) < m => i \in chosen[k - 1]
      BY <1>3, <1>5, <1>8, <3>1
    <3> QED
      BY <1>9, <3>2, <3>3
  <2> QED
    BY <2>1, <2>2
<1> QED
  BY <1>2, <1>8, <1>10

\* get_streaming_plan is greedy: an entry has a slot exactly if the entries
\* selected before it leave it one.
LEMMA PlanIsGreedy ==
  ASSUME NEW es, Ranked(es)
  PROVE  /\ PlanOf(es).selected =
              {i \in Tier1(es) :
                 HasSlot(es, Earlier(es, PlanOf(es).selected, i), i)}
         /\ PlanOf(es).selected \subseteq Tier1(es)
<1> DEFINE chosen == CHOOSE chosen : IsChosen(es, chosen)
           all == chosen[InstrumentCount]
<1>n. InstrumentCount \in Nat
  BY BoundAssumption
<1>1. IsChosen(es, chosen) /\ PlanOf(es).selected = all
  BY ChosenExists, PlanFields
<1> HIDE DEF chosen
<1>2. InstrumentCount \in 0 .. InstrumentCount
  BY <1>n
<1>3. /\ \A i \in all : i \in Tier1(es)
      /\ \A m \in 0 .. InstrumentCount : chosen[m] = {i \in all : Rank(es, i) < m}
  BY <1>1, <1>2, ChosenGrows
<1>4. ASSUME NEW i \in Tier1(es)
      PROVE  i \in all <=> HasSlot(es, Earlier(es, all, i), i)
  <2> DEFINE r == Rank(es, i)
  <2>1. r \in 0 .. InstrumentCount - 1
    BY RankFacts
  <2>2. r \in 0 .. InstrumentCount /\ r + 1 \in 0 .. InstrumentCount
        /\ r + 1 # 0 /\ (r + 1) - 1 = r /\ r < r + 1 /\ ~(r < r)
    BY <1>n, <2>1
  <2>3. chosen[r + 1] = Grown(es, chosen[r], r)
    BY <1>1, <2>2 DEF IsChosen
  <2>4. chosen[r] = Earlier(es, all, i)
    BY <1>3, <2>2, RankFacts DEF Earlier
  <2>5. i \in all <=> i \in chosen[r + 1]
    BY <1>3, <2>2
  <2>6. i \notin chosen[r]
    BY <1>3, <2>2
  <2> QED
    BY <2>3, <2>4, <2>5, <2>6 DEF Grown
<1> QED
  BY <1>1, <1>3, <1>4

\* Of any entries one comes last.
LEMMA LastExists ==
  ASSUME NEW es, Ranked(es), NEW S \in SUBSET Tier1(es), S # {}
  PROVE  \E i \in S : \A j \in S : j # i => Before(es, j, i)
<1> DEFINE Back(i) == InstrumentCount - 1 - Rank(es, i)
           B == {n \in Nat : \E i \in S : n = Back(i)}
<1>n. InstrumentCount \in Nat
  BY BoundAssumption
<1>1. ASSUME NEW i \in S PROVE Back(i) \in Nat /\ Rank(es, i) \in Nat
  BY <1>n, RankFacts
<1>2. B \in SUBSET Nat /\ B # {}
  BY <1>1
<1> HIDE DEF B
<1>3. PICK n \in B : \A m \in B : n <= m
  BY <1>2, LeastExists
<1> USE DEF B
<1>4. PICK i \in S : n = Back(i)
  BY <1>3
<1>5. ASSUME NEW j \in S, j # i PROVE Before(es, j, i)
  <2>1. Back(i) <= Back(j)
    BY <1>1, <1>3, <1>4
  <2>2. ~(Rank(es, i) < Rank(es, j))
    BY <1>1, <1>n, <2>1
  <2>3. ~Before(es, i, j)
    BY <2>2, RankFacts
  <2>4. i \in Instruments /\ j \in Instruments
    BY DEF Tier1
  <2> QED
    BY <1>5, <2>3, <2>4, BeforeIsOrder
<1> QED
  BY <1>5

\* A set with one element more than a set that was below a bound.
LEMMA OneMore ==
  ASSUME NEW S, IsFiniteSet(S), NEW i \in S, NEW R, S \ {i} \subseteq R,
         IsFiniteSet(R), NEW k \in Nat, Cardinality(R) < k
  PROVE  Cardinality(S) <= k
<1>1. IsFiniteSet(S \ {i}) /\ Cardinality(S \ {i}) = Cardinality(S) - 1
  BY FS_RemoveElement
<1>2. Cardinality(S \ {i}) <= Cardinality(R)
  BY FS_Subset
<1>3. Cardinality(S) \in Nat /\ Cardinality(R) \in Nat
  BY FS_CardinalityType
<1> QED
  BY <1>1, <1>2, <1>3

\* A greedy plan whose pins are the exposed instruments is sound.
LEMMA GreedyIsSound ==
  ASSUME NEW es, Ranked(es),
         \A i \in Instruments : exposure[i] \in {"open", "pending"} =>
                                  InTier1(es[i]) /\ es[i].pinned
  PROVE  Sound(PlanOf(es), es)
<1> DEFINE p == PlanOf(es)
           s == p.selected
           Prior(i) == Earlier(es, s, i)
<1>1. /\ s = {i \in Tier1(es) : HasSlot(es, Prior(i), i)}
      /\ s \subseteq Tier1(es) /\ Tier1(es) \subseteq Instruments
  BY PlanIsGreedy DEF Tier1
<1>2. /\ p.pinned = {i \in s : es[i].pinned}
      /\ p.capped = Tier1(es) \ s
      /\ Normal(p) = {i \in s : ~es[i].pinned}
  BY PlanFields DEF Normal
<1> HIDE DEF p
<1>3. ASSUME NEW R, R \subseteq s PROVE IsFiniteSet(R) /\ Cardinality(R) \in Nat
  BY <1>1, <1>3, InstrumentsAreFinite, FS_Subset, FS_CardinalityType
<1>4. {i \in Instruments : exposure[i] \in {"open", "pending"}} \subseteq s
  BY <1>1 DEF HasSlot, Tier1
<1>5. Cardinality(Normal(p)) <= MaxInstruments
  <2>1. CASE Normal(p) = {}
    BY <2>1, FS_EmptySet, BoundAssumption
  <2>2. CASE Normal(p) # {}
    <3>1. PICK i \in Normal(p) : \A j \in Normal(p) : j # i => Before(es, j, i)
      BY <1>1, <1>2, <2>2, LastExists
    <3>2. HasSlot(es, Prior(i), i) /\ ~es[i].pinned
      BY <1>1, <1>2
    <3>3. Cardinality({j \in Prior(i) : ~es[j].pinned}) < MaxInstruments
      BY <3>2 DEF HasSlot
    <3>4. Normal(p) \ {i} \subseteq {j \in Prior(i) : ~es[j].pinned}
      BY <1>2, <3>1 DEF Earlier
    <3>5. IsFiniteSet(Normal(p)) /\ IsFiniteSet({j \in Prior(i) : ~es[j].pinned})
      BY <1>2, <1>3 DEF Earlier
    <3> QED
      BY <3>3, <3>4, <3>5, OneMore, BoundAssumption
  <2> QED
    BY <2>1, <2>2
<1>6. ASSUME NEW class \in DOMAIN ClassBudget, Slots(p, class) \cap Normal(p) # {}
      PROVE  Cardinality(Slots(p, class)) <= ClassBudget[class]
  <2>1. Slots(p, class) \cap Normal(p) \in SUBSET Tier1(es)
    BY <1>1, <1>2
  <2>2. PICK i \in Slots(p, class) \cap Normal(p) :
          \A j \in Slots(p, class) \cap Normal(p) : j # i => Before(es, j, i)
    BY <1>6, <2>1, LastExists
  <2>3. i \in s /\ Class[i] = class /\ ~es[i].pinned
    BY <1>2, <2>2 DEF Slots
  <2>4. Cardinality({j \in Prior(i) : Class[j] = class}) < ClassBudget[class]
    BY <1>1, <2>3 DEF HasSlot
  <2>5. ASSUME NEW j \in Slots(p, class) \ {i}
        PROVE  j \in Prior(i) /\ Class[j] = class
    <3>1. j \in s /\ Class[j] = class
      BY DEF Slots
    <3>2. CASE es[j].pinned
      BY <2>3, <3>1, <3>2 DEF Before, Earlier
    <3>3. CASE ~es[j].pinned
      BY <1>2, <2>2, <3>1, <3>3 DEF Earlier
    <3> QED
      BY <3>1, <3>2, <3>3
  <2>6. /\ IsFiniteSet(Slots(p, class))
        /\ IsFiniteSet({j \in Prior(i) : Class[j] = class})
    BY <1>3 DEF Slots, Earlier
  <2>7. ClassBudget[class] \in Nat
    BY InstrumentAssumption
  <2> QED
    BY <2>2, <2>4, <2>5, <2>6, <2>7, OneMore
<1>7. ASSUME NEW i \in p.capped
      PROVE  \/ Full(p, Class[i])
             \/ /\ Cardinality(Normal(p)) = MaxInstruments
                /\ \A j \in Normal(p) : Before(es, j, i)
  <2>1. i \in Tier1(es) /\ ~HasSlot(es, Prior(i), i)
    BY <1>1, <1>2
  <2> DEFINE N == {j \in Prior(i) : ~es[j].pinned}
             C == {j \in Prior(i) : Class[j] = Class[i]}
  <2>2. \/ ~(Cardinality(N) < MaxInstruments)
        \/ /\ Class[i] \in DOMAIN ClassBudget
           /\ ~(Cardinality(C) < ClassBudget[Class[i]])
    BY <2>1 DEF HasSlot
  <2>3. /\ N \subseteq Normal(p) /\ C \subseteq Slots(p, Class[i])
        /\ Normal(p) \subseteq s /\ Slots(p, Class[i]) \subseteq s
    BY <1>2 DEF Earlier, Slots
  <2>4. /\ Cardinality(N) <= Cardinality(Normal(p))
        /\ Cardinality(N) = Cardinality(Normal(p)) => Normal(p) = N
        /\ Cardinality(C) <= Cardinality(Slots(p, Class[i]))
    BY <1>3, <2>3, FS_Subset
  <2>5. /\ Cardinality(N) \in Nat /\ Cardinality(Normal(p)) \in Nat
        /\ Cardinality(C) \in Nat /\ Cardinality(Slots(p, Class[i])) \in Nat
    BY <1>3, <2>3
  <2>6. CASE ~(Cardinality(N) < MaxInstruments)
    <3>1. MaxInstruments \in Nat
      BY BoundAssumption
    <3>2. /\ Cardinality(Normal(p)) = MaxInstruments
          /\ Cardinality(N) = Cardinality(Normal(p))
      BY <1>5, <2>4, <2>5, <2>6, <3>1
    <3> QED
      BY <2>4, <3>2 DEF Earlier
  <2>7. CASE /\ Class[i] \in DOMAIN ClassBudget
             /\ ~(Cardinality(C) < ClassBudget[Class[i]])
    <3>1. ClassBudget[Class[i]] \in Nat
      BY <2>7, InstrumentAssumption
    <3>2. Cardinality(Slots(p, Class[i])) >= ClassBudget[Class[i]]
      BY <2>4, <2>5, <2>7, <3>1
    <3> QED
      BY <2>7, <3>2 DEF Full
  <2> QED
    BY <2>2, <2>6, <2>7
<1> QED
  BY <1>4, <1>5, <1>6, <1>7 DEF Sound, p

\* Every plan covers every instrument with an open position or a pending
\* intent; the others keep to ig_streaming_max_instruments and to the budgets
\* of their asset classes, and one is left out only for a cap, never for the
\* sake of one that comes after it (get_streaming_plan).
THEOREM PlansAreSound == Spec => PlanIsSound
<1>1. IInv => Sound(PlanOf(SyncedEntries), SyncedEntries)
  <2> SUFFICES ASSUME IInv PROVE Sound(PlanOf(SyncedEntries), SyncedEntries)
    OBVIOUS
  <2>1. ASSUME NEW i \in Instruments
        PROVE  /\ SyncedEntries[i] = Synced(i)
               /\ Synced(i).pinned \in BOOLEAN /\ Synced(i).priority \in Nat
    <3>1. EntryOK(Synced(i))
      BY SyncedType DEF IInv
    <3> QED
      BY <3>1 DEF EntryOK, Entries, SyncedEntries
  <2>2. ASSUME NEW i \in Instruments, exposure[i] \in {"open", "pending"}
        PROVE  InTier1(Synced(i)) /\ Synced(i).pinned
    <3>1. i \in Pinned
      BY <2>2 DEF Pinned
    <3>2. Synced(i) = Upserted(entries[i], TRUE, Priority("protective"), "protective")
      BY <3>1 DEF Synced
    <3>3. entries[i] \in Entries
      BY DEF IInv, EntriesOK
    <3> QED
      BY <3>2, <3>3 DEF Upserted, InTier1, Entries
  <2> QED
    BY <2>1, <2>2, GreedyIsSound DEF Ranked
<1>2. IInv /\ [Next]_vars =>
        [Plans => Sound(PlanOf(SyncedEntries), SyncedEntries)]_vars
  BY <1>1
<1> QED
  BY InitIInv, IInvStep, <1>2, PTL DEF Spec, PlanIsSound
=============================================================================
