----------------------------- MODULE Allocation -----------------------------
(***************************************************************************)
(* The risk budgets, from the signals of one price to the positions they   *)
(* end in:                                                                 *)
(*   services/capital_allocator_service   budgets, ranking, order sizes    *)
(*   services/allocation_admission_lock   one admission at a time          *)
(*   services/trade_decision_service      PROPOSED, APPROVED and REJECTED  *)
(*   services/portfolio_risk_service      the hard limits                  *)
(*   services/strategy_service            execution and the position row   *)
(*   services/reconciliation_service      a deal without a row gets one    *)
(* (paths under backend/app).                                              *)
(*                                                                         *)
(* A cycle computes its budgets from two queries, the open positions and   *)
(* then the intents that reserve risk.  The admission lock keeps cycles    *)
(* apart; what executes what an earlier cycle admitted does not take it,   *)
(* and belongs to another process when two leaders overlap.                *)
(*                                                                         *)
(* Risk is counted in whole units of account risk, and so are sizes: a     *)
(* trade of size n risks n units and has notional Weight[t] * n.  A trade  *)
(* of the model is a signal, the intent that comes of it, its deal and its *)
(* position.  TradeLifecycle has the rest of its life.                     *)
(***************************************************************************)
EXTENDS LifecycleRules, Integers, Sequences, FiniteSets, FiniteSetsExt,
        SequencesExt

CONSTANTS
  Processes,     \* the leader, and the one it took the lease from
  Trades,        \* every signal, used once
  Strategy, Family, Instrument,  \* of each trade
  Currencies,    \* the two currency codes of its instrument, or none
  Wanted,        \* the risk it asks for
  Weight,        \* notional per unit of size
  MinDeal,       \* the broker's minimum deal size
  Step,          \* and its size step
  Limit,         \* the risk limit of each kind of budget
  CycleRisk, CyclePositions,     \* allocation_max_new_*_per_cycle
  MaxPositions, MaxPerStrategy,  \* runtime_max_open_positions, _per_strategy
  MaxNotional, GrossLimit,       \* of one position, and of the whole book
  Tolerance,     \* allocation_under_minimum_round_up_tolerance_percent
  Slippages,     \* the risk that a fill may add
  MaxBatch,      \* bound on the signals of a cycle
  MaxCrashes     \* bound on the crashes

Kinds == {"portfolio", "strategy", "family", "instrument", "currency"}
NoOne == "no one"

ASSUME ProcessesAssumption == NoOne \notin Processes
ASSUME LimitsAssumption ==
  /\ Limit \in [Kinds -> Nat]
  /\ {CycleRisk, CyclePositions, MaxPositions, MaxPerStrategy, MaxNotional,
      GrossLimit, Tolerance, MaxBatch, MaxCrashes} \subseteq Nat
ASSUME TradesAssumption ==
  /\ Wanted \in [Trades -> Nat]
  /\ {Weight, MinDeal} \subseteq [Trades -> Nat \ {0}]
  /\ Step \in [Trades -> Nat \ {0}]
  /\ Slippages \subseteq Nat

VARIABLES
  intents,    \* TradeIntent rows: state, allocated risk, position_id set?
  positions,  \* Position rows, each with the trade_intent_id of its trade
  deals,      \* what the broker really holds of each trade, 0: nothing
  lock,       \* who holds the admission lock
  calls,      \* the price call in progress of each process
  crashes

vars == <<intents, positions, deals, lock, calls, crashes>>

NoRow == [open |-> FALSE, risk |-> 0, size |-> 0]

\* "raced": another process, or a reconciliation, recorded a position during
\* the admission.
IdleCall == [at |-> "idle", seen |-> {}, chosen |-> <<>>, admitted |-> <<>>,
             raced |-> FALSE]

Rows == {t \in Trades : positions[t].open}
States(S) == {t \in Trades : intents[t].state \in S}
Unused == States({Absent})

TypeOK ==
  /\ intents \in [Trades -> [state : IntentStates \cup {Absent}, risk : Nat,
                             linked : BOOLEAN]]
  /\ positions \in [Trades -> [open : BOOLEAN, risk : Nat, size : Nat]]
  /\ deals \in [Trades -> Nat]
  /\ lock \in Processes \cup {NoOne}
  /\ calls \in [Processes ->
       [at : {"idle", "reading", "deciding", "executing"},
        seen : SUBSET [trade : Trades, risk : Nat, size : Nat],
        chosen : Seq([trade : Trades, risk : Nat]),
        admitted : Seq(Trades), raced : BOOLEAN]]
  /\ crashes \in 0 .. MaxCrashes
  /\ \A p \in Processes :
       lock = p <=> calls[p].at \in {"reading", "deciding"}

Init ==
  /\ intents = [t \in Trades |-> [state |-> Absent, risk |-> 0,
                                  linked |-> FALSE]]
  /\ positions = [t \in Trades |-> NoRow]
  /\ deals = [t \in Trades |-> 0]
  /\ lock = NoOne
  /\ calls = [p \in Processes |-> IdleCall]
  /\ crashes = 0

-----------------------------------------------------------------------------
(* The book: the entries that use up budgets.                              *)

Entry(t, risk, size) == [trade |-> t, risk |-> risk, size |-> size]
Listed == {Entry(t, positions[t].risk, positions[t].size) : t \in Rows}

\* RISK_RESERVED_INTENT_STATES (the mutant ends the reservation at the fill).
RiskReservedStates_Unfilled ==
  {"APPROVED", "SUBMITTED", "ACKNOWLEDGED", "PARTIALLY_FILLED"}
RiskReservedStates ==
  {"APPROVED", "SUBMITTED", "ACKNOWLEDGED", "PARTIALLY_FILLED", "FILLED"}

\* _build_open_state: an intent whose position was listed, or that is linked
\* to one, reserves nothing.
Reserved(listed) ==
  {Entry(t, intents[t].risk, intents[t].risk) :
     t \in {u \in States(RiskReservedStates) :
              ~intents[u].linked /\ \A e \in listed : e.trade # u}}
Book(listed) == listed \cup Reserved(listed)

\* A position uses up half a currency budget for each of its currencies: the
\* sums are in halves of a unit.
Budgets(t) ==
  {<<"portfolio", "all">>, <<"strategy", Strategy[t]>>,
   <<"family", Family[t]>>, <<"instrument", Instrument[t]>>}
    \cup {<<"currency", c>> : c \in Currencies[t]}
Share(b) == IF b[1] = "currency" THEN 1 ELSE 2
Risk(book) == MapThenSumSet(LAMBDA e : e.risk, book)
Spent(b, book) == Share(b) * Risk({e \in book : b \in Budgets(e.trade)})
RoomLeft(b, book) == Max({2 * Limit[b[1]] - Spent(b, book), 0}) \div 2
Gross(book) == MapThenSumSet(LAMBDA e : Weight[e.trade] * e.size, book)
OfStrategy(s, book) == {e \in book : Strategy[e.trade] = s}

-----------------------------------------------------------------------------
(* CapitalAllocatorService.allocate.                                       *)

\* _allocatable_risk_percent: what the tightest budget leaves, "cycle" being
\* the entries granted so far (the mutant does not count them).
HardLimit_CycleIgnored(t, book, cycle) ==
  Min({Max({CycleRisk - Risk(cycle), 0})}
        \cup {RoomLeft(b, book) : b \in Budgets(t)})
HardLimit(t, book, cycle) ==
  Min({Max({CycleRisk - Risk(cycle), 0})}
        \cup {RoomLeft(b, book \cup cycle) : b \in Budgets(t)})

\* _allocate_candidate up to the sizes: the notional of the position and of
\* the book cap what the budgets allow.
Capped(t, book, cycle) ==
  Min({Wanted[t], HardLimit(t, book, cycle), MaxNotional \div Weight[t],
       Max({GrossLimit - Gross(book \cup cycle), 0}) \div Weight[t]})

\* normalize_order_size and _normalize_size: down to the size step; a size
\* below the minimum goes up to it, within the tolerance and the budgets.
RoundedUp(t) == ((MinDeal[t] + Step[t] - 1) \div Step[t]) * Step[t]
Normalized(t, size, hard) ==
  LET down == (size \div Step[t]) * Step[t]
      up == RoundedUp(t)
  IN  IF down >= MinDeal[t] THEN down
      ELSE IF down > 0 /\ up <= hard /\ up * 100 <= size * (100 + Tolerance)
        THEN up
      ELSE 0

\* 0: rejected.
Granted(t, book, cycle) ==
  IF /\ Cardinality(book \cup cycle) < MaxPositions
     /\ Cardinality(OfStrategy(Strategy[t], book \cup cycle)) < MaxPerStrategy
     /\ Cardinality(cycle) < CyclePositions
    THEN Normalized(t, Capped(t, book, cycle), HardLimit(t, book, cycle))
    ELSE 0

\* _suppress_weaker_duplicates and _resolve_direction_conflicts: of the
\* signals on an instrument only the strongest is left, whatever their
\* directions (the mutant leaves one of each strategy).
Strongest_PerStrategy(ranked) ==
  {ranked[n] : n \in {k \in DOMAIN ranked :
     \A m \in 1 .. k - 1 : \/ Instrument[ranked[m]] # Instrument[ranked[k]]
                           \/ Strategy[ranked[m]] # Strategy[ranked[k]]}}
Strongest(ranked) ==
  {ranked[n] : n \in {k \in DOMAIN ranked :
     \A m \in 1 .. k - 1 : Instrument[ranked[m]] # Instrument[ranked[k]]}}

\* The decisions for a batch ranked by priority, in their order.
CycleOf(grants) == {Entry(g.trade, g.risk, g.risk) : g \in ToSet(grants)}
Grants(ranked, book) ==
  FoldLeft(LAMBDA grants, t :
             LET risk == IF t \in Strongest(ranked)
                           THEN Granted(t, book, CycleOf(grants)) ELSE 0
             IN  IF risk = 0 THEN grants
                 ELSE Append(grants, [trade |-> t, risk |-> risk]),
           <<>>, ranked)

\* Priorities are scores of the signals: any ranking.  A candidate that is
\* stale or that the broker does not quote is rejected at once, and is not in
\* the batch.
Batches ==
  {b \in UNION {[1 .. n -> Unused] : n \in 1 .. MaxBatch} :
     Cardinality(ToSet(b)) = Len(b)}

\* decide_signal_candidates takes the lock and lists the positions (the
\* mutant does not wait for the lock).
Admissible_Unlocked == TRUE
Admissible == lock = NoOne

BeginCycle(p) ==
  /\ calls[p].at = "idle"
  /\ Admissible
  /\ Unused # {}
  /\ lock' = p
  /\ calls' = [calls EXCEPT ![p].at = "reading", ![p].seen = Listed]
  /\ UNCHANGED <<intents, positions, deals, crashes>>

\* The reserved intents are listed, and the batch decided.
Allocate(p) ==
  /\ calls[p].at = "reading"
  /\ \E batch \in Batches :
       LET grants == Grants(batch, Book(calls[p].seen))
           refused == ToSet(batch) \ {g.trade : g \in ToSet(grants)}
       IN  /\ intents' = [t \in Trades |-> IF t \in refused
                 THEN [intents[t] EXCEPT !.state = "REJECTED"]
                 ELSE intents[t]]
           /\ calls' = [calls EXCEPT ![p].at = "deciding",
                                     ![p].chosen = grants]
  /\ UNCHANGED <<positions, deals, lock, crashes>>

-----------------------------------------------------------------------------
(* Admission, decision by decision.                                        *)

Deciding(p, state) ==
  /\ calls[p].at = "deciding"
  /\ calls[p].chosen # <<>>
  /\ intents[Head(calls[p].chosen).trade].state = state
SetState(t, state) == intents' = [intents EXCEPT ![t].state = state]
DropChosen(p) == calls' = [calls EXCEPT ![p].chosen = Tail(@)]
Owned(t) == \E u \in States(ActiveOwnershipStates) :
              u # t /\ Instrument[u] = Instrument[t]

\* The intent is PROPOSED, or REJECTED when the instrument has an owner.
Propose(p) ==
  /\ Deciding(p, Absent)
  /\ LET grant == Head(calls[p].chosen)
     IN  IF Owned(grant.trade)
           THEN SetState(grant.trade, "REJECTED") /\ DropChosen(p)
           ELSE /\ intents' = [intents EXCEPT
                     ![grant.trade].state = "PROPOSED",
                     ![grant.trade].risk = grant.risk]
                /\ UNCHANGED calls
  /\ UNCHANGED <<positions, deals, lock, crashes>>

\* assess_entry, given the positions listed at the start of the cycle: what
\* it sees of the book is the positions alone.
PassesPreTrade(t, seen) ==
  /\ Cardinality(OfStrategy(Strategy[t], seen)) < MaxPerStrategy
  /\ \A e \in seen : Instrument[e.trade] # Instrument[t]
PassesPortfolio(t, risk, seen) ==
  /\ Cardinality(seen) < MaxPositions
  /\ Risk(seen) + risk <= Limit["portfolio"]
  /\ Weight[t] * risk <= MaxNotional
PassesHardRisk(p, grant) ==
  /\ PassesPreTrade(grant.trade, calls[p].seen)
  /\ PassesPortfolio(grant.trade, grant.risk, calls[p].seen)

Approve(p) ==
  /\ Deciding(p, "PROPOSED")
  /\ LET grant == Head(calls[p].chosen)
     IN  /\ PassesHardRisk(p, grant)
         /\ SetState(grant.trade, "APPROVED")
         /\ calls' = [calls EXCEPT
              ![p].chosen = Tail(@),
              ![p].admitted = Append(@, grant.trade)]
  /\ UNCHANGED <<positions, deals, lock, crashes>>

\* Operational policy, market status, or any layer of the risk service.
Reject(p) ==
  /\ Deciding(p, "PROPOSED")
  /\ SetState(Head(calls[p].chosen).trade, "REJECTED")
  /\ DropChosen(p)
  /\ UNCHANGED <<positions, deals, lock, crashes>>

\* The lock is released when every decision is committed.
EndCycle(p) ==
  /\ calls[p].at = "deciding"
  /\ calls[p].chosen = <<>>
  /\ lock' = IF lock = p THEN NoOne ELSE lock
  /\ calls' = [calls EXCEPT ![p].at = "executing", ![p].seen = {},
                            ![p].raced = FALSE]
  /\ UNCHANGED <<intents, positions, deals, crashes>>

-----------------------------------------------------------------------------
(* Execution of what was admitted, one after the other.                    *)

Executing(p, state) ==
  /\ calls[p].at = "executing"
  /\ calls[p].admitted # <<>>
  /\ intents[Head(calls[p].admitted)].state \in state
DropAdmitted(p) == calls' = [calls EXCEPT ![p].admitted = Tail(@)]

\* _assert_account_and_sizing_allow_execution: the account or the broker's
\* quote cannot be read, or has drifted from what the cycle decided on.
RefuseOrder(p) ==
  /\ Executing(p, {"APPROVED"})
  /\ SetState(Head(calls[p].admitted), "FAILED")
  /\ DropAdmitted(p)
  /\ UNCHANGED <<positions, deals, lock, crashes>>

Submit(p) ==
  /\ Executing(p, {"APPROVED"})
  /\ SetState(Head(calls[p].admitted), "SUBMITTED")
  /\ UNCHANGED <<positions, deals, lock, calls, crashes>>

Fill(p, size, state) ==
  LET t == Head(calls[p].admitted)
  IN  deals' = [deals EXCEPT ![t] = size] /\ SetState(t, state)

\* The fill may slip.  Without an answer the intent stays ACKNOWLEDGED, for
\* manual review, whatever the broker did.
Answered(p) ==
  /\ Executing(p, {"SUBMITTED"})
  /\ LET risk == intents[Head(calls[p].admitted)].risk
     IN  \/ /\ \E extra \in Slippages : Fill(p, risk + extra, "FILLED")
            /\ UNCHANGED calls
         \/ /\ \E part \in 1 .. risk - 1 : Fill(p, part, "PARTIALLY_FILLED")
            /\ UNCHANGED calls
         \/ Fill(p, 0, "FAILED") /\ DropAdmitted(p)
         \/ /\ \E size \in {0, risk} : Fill(p, size, "ACKNOWLEDGED")
            /\ DropAdmitted(p)
  /\ UNCHANGED <<positions, lock, crashes>>

RowOf(t, risk) == [open |-> TRUE, risk |-> risk, size |-> deals[t]]
Race(own) == [q \in Processes |->
  IF q \notin own /\ calls[q].at \in {"reading", "deciding"}
    THEN [calls[q] EXCEPT !.raced = TRUE] ELSE calls[q]]

\* record_broker_position: the row, with the risk derived from the fill.
RecordPosition(p) ==
  /\ Executing(p, {"FILLED", "PARTIALLY_FILLED"})
  /\ LET t == Head(calls[p].admitted)
     IN  /\ t \notin Rows
         /\ positions' = [positions EXCEPT ![t] = RowOf(t, deals[t])]
  /\ calls' = Race({p})
  /\ UNCHANGED <<intents, deals, lock, crashes>>

\* The intent gets the position_id.
LinkPosition(p) ==
  /\ Executing(p, {"FILLED", "PARTIALLY_FILLED"})
  /\ LET t == Head(calls[p].admitted)
     IN  /\ t \in Rows
         /\ intents' = [intents EXCEPT
              ![t].state = IF @ = "FILLED" THEN "POSITION_OPENED" ELSE @,
              ![t].linked = TRUE]
  /\ DropAdmitted(p)
  /\ UNCHANGED <<positions, deals, lock, crashes>>

EndCall(p) ==
  /\ calls[p].at = "executing"
  /\ calls[p].admitted = <<>>
  /\ calls' = [calls EXCEPT ![p] = IdleCall]
  /\ UNCHANGED <<intents, positions, deals, lock, crashes>>

-----------------------------------------------------------------------------
(* Closes, crashes and reconciliation.                                     *)

\* A later price call closes the deal, its row and its intent.
Close(p, t) ==
  /\ calls[p].at = "idle"
  /\ t \in Rows
  /\ intents[t].state \in CloseAdmissibleStates
  /\ positions' = [positions EXCEPT ![t] = NoRow]
  /\ deals' = [deals EXCEPT ![t] = 0]
  /\ SetState(t, "CLOSED")
  /\ UNCHANGED <<lock, calls, crashes>>

\* The lock goes with the connection that holds it.
Crash(p) ==
  /\ crashes < MaxCrashes
  /\ calls[p].at # "idle"
  /\ crashes' = crashes + 1
  /\ calls' = [calls EXCEPT ![p] = IdleCall]
  /\ lock' = IF lock = p THEN NoOne ELSE lock
  /\ UNCHANGED <<intents, positions, deals>>

\* reconcile_open_positions finds a deal without a row, by the intent that
\* carries its reference: the new row has no risk_percent, which counts as 0.
\* POSITION_OPENED is not a move that a partial fill may make.
Reconcile(t) ==
  /\ deals[t] > 0
  /\ t \notin Rows
  /\ \A p \in Processes : t \notin ToSet(calls[p].admitted)
  /\ positions' = [positions EXCEPT ![t] = RowOf(t, 0)]
  /\ intents' = IF "POSITION_OPENED" \in IntentTransitions[intents[t].state]
       THEN [intents EXCEPT ![t].state = "POSITION_OPENED", ![t].linked = TRUE]
       ELSE intents
  /\ calls' = Race({})
  /\ UNCHANGED <<deals, lock, crashes>>

Cycle(p) == \/ BeginCycle(p) \/ Allocate(p) \/ Propose(p) \/ Approve(p)
            \/ Reject(p) \/ EndCycle(p)
Execute(p) == \/ RefuseOrder(p) \/ Submit(p) \/ Answered(p)
              \/ RecordPosition(p) \/ LinkPosition(p) \/ EndCall(p)

Next ==
  \/ \E p \in Processes : Cycle(p) \/ Execute(p) \/ Crash(p)
  \/ \E p \in Processes, t \in Trades : Close(p, t)
  \/ \E t \in Trades : Reconcile(t)

Spec == Init /\ [][Next]_vars

-----------------------------------------------------------------------------
(* Properties                                                              *)

Approves(p, t) ==
  /\ intents[t].state # "APPROVED" /\ intents'[t].state = "APPROVED"
  /\ calls'[p].admitted # calls[p].admitted
  /\ ~calls[p].raced

\* No budget that the trade is charged to is overdrawn, the positions are
\* within their numbers, and the gross exposure within its limit but for what
\* rounding up to the minimum deal size may add to this trade.
Fits(t, book) ==
  /\ \A b \in Budgets(t) : Spent(b, book) <= 2 * Limit[b[1]]
  /\ Cardinality(book) <= MaxPositions
  /\ Cardinality(OfStrategy(Strategy[t], book)) <= MaxPerStrategy
  /\ LET others == {e \in book : e.trade # t}
         size == Gross(book \ others)
     IN  (Gross(others) - GrossLimit) * (100 + Tolerance) + size * 100 <= 0

\* An entry is approved only if the whole book, as the database has it at
\* that moment, fits its budgets with it (docs/spec/08-risk-allocation-invariants.md,
\* RISK-014): unless a position was recorded during the admission, which
\* moves risk from the second query of the cycle to the first.
AdmissionsFit ==
  [][\A p \in Processes, t \in Trades :
       Approves(p, t) => Fits(t, Book(Listed)')]_vars

\* What one cycle admits fits the limits of a cycle, and no two of its
\* admissions are on one instrument.
CycleFits ==
  \A p \in Processes : calls[p].at = "deciding" =>
    LET grants == ToSet(calls[p].chosen)
        trades == {g.trade : g \in grants} \cup ToSet(calls[p].admitted)
        entries == CycleOf(calls[p].chosen) \cup
                   {Entry(t, intents[t].risk, intents[t].risk) :
                      t \in ToSet(calls[p].admitted)}
    IN  /\ Risk(entries) <= CycleRisk
        /\ Cardinality(trades) <= CyclePositions
        /\ \A t, u \in trades : Instrument[t] = Instrument[u] => t = u

\* Whatever the broker holds of a trade uses up budget, at every point of the
\* hand-over from the intent to the position row, and across a crash in the
\* middle of it.
DealsAreBooked ==
  \A t \in Trades : deals[t] > 0 => \E e \in Book(Listed) : e.trade = t

\* An entry is approved only if what the broker really holds, with what is
\* reserved besides, leaves room for it in every risk budget
\* (docs/spec/08-risk-allocation-invariants.md, RISK-001).
TrueBook ==
  {Entry(t, deals[t], deals[t]) : t \in {u \in Trades : deals[u] > 0}}
    \cup {e \in Reserved({}) : deals[e.trade] = 0}
LiveRiskIsBudgeted ==
  [][\A p \in Processes, t \in Trades :
       Approves(p, t) =>
         \A b \in Budgets(t) : Spent(b, TrueBook') <= 2 * Limit[b[1]]]_vars
=============================================================================
