--------------------------- MODULE AllocationProofs ---------------------------
(***************************************************************************)
(* Admission is exclusive, what the broker holds is always booked, what a  *)
(* cycle admits fits the limits of a cycle, and what is approved fits the  *)
(* budgets of the whole book, for every number of processes and trades,    *)
(* every limit, slippage and crash bound.                                  *)
(*                                                                         *)
(* The last two rest on what sums of risk are, on what is granted to one   *)
(* trade, on what a fold over a ranked batch of them grants, and on what   *)
(* the admission lock lets other processes do to the book meanwhile.       *)
(***************************************************************************)
EXTENDS Allocation, TLAPS, FiniteSetTheorems, FunctionTheorems,
        SequenceTheorems

\* The rows are there for every trade, with the columns the states need; what
\* the numbers are does not matter here.
Shape ==
  /\ DOMAIN intents = Trades
  /\ \A t \in Trades : DOMAIN intents[t] = {"state", "risk", "linked"}
  /\ DOMAIN positions = Trades
  /\ \A t \in Trades : DOMAIN positions[t] = {"open", "risk", "size"}
  /\ DOMAIN deals = Trades
  /\ DOMAIN calls = Processes
  /\ \A p \in Processes :
       DOMAIN calls[p] = {"at", "seen", "chosen", "admitted", "raced"}

\* Before its order was answered an intent has neither a deal nor a position.
UnansweredStates == {Absent, "PROPOSED", "APPROVED", "SUBMITTED"}
UnansweredHasNothing ==
  \A t \in Trades : intents[t].state \in UnansweredStates =>
                      deals[t] = 0 /\ ~intents[t].linked

\* A deal is held by its open row, or by an unlinked intent that reserves.
Backed(t) ==
  \/ positions[t].open
  \/ intents[t].state \in RiskReservedStates /\ ~intents[t].linked
DealsAreBacked == \A t \in Trades : deals[t] > 0 => Backed(t)

\* The admission lock is held exactly by the process that is admitting.
Admitting(p) == calls[p].at \in {"reading", "deciding"}
LockIsAdmission == \A p \in Processes : lock = p <=> Admitting(p)

IInv == Shape /\ UnansweredHasNothing /\ DealsAreBacked

AdmissionInv == Shape /\ LockIsAdmission

-----------------------------------------------------------------------------
(* What is written to one intent leaves the others alone.                  *)

\* TradeService.transition_trade_intent changes the state of one row.
LEMMA SetStateLemma ==
  ASSUME Shape, NEW t, NEW s, SetState(t, s)
  PROVE  /\ DOMAIN intents' = Trades
         /\ \A u \in Trades :
              /\ DOMAIN intents'[u] = {"state", "risk", "linked"}
              /\ intents'[u].linked = intents[u].linked
              /\ u = t => intents'[u].state = s
              /\ u # t => intents'[u] = intents[u]
BY DEF SetState, Shape

\* Nothing is wanted, held or admitted at the start.
LEMMA InitIInv == Init => IInv /\ AdmissionInv
<1> SUFFICES ASSUME Init PROVE IInv /\ AdmissionInv
  OBVIOUS
<1>1. Shape
  BY DEF Init, Shape, NoRow, IdleCall
<1>2. UnansweredHasNothing /\ DealsAreBacked
  BY DEF Init, UnansweredHasNothing, DealsAreBacked
<1>3. LockIsAdmission
  BY ProcessesAssumption DEF Init, LockIsAdmission, Admitting, IdleCall
<1> QED
  BY <1>1, <1>2, <1>3 DEF IInv, AdmissionInv

\* Every step keeps the shape of the rows.
LEMMA ShapeStep == Shape /\ [Next]_vars => Shape'
<1> SUFFICES ASSUME Shape, [Next]_vars PROVE Shape'
  OBVIOUS
<1> USE DEF Shape
<1>1. ASSUME NEW p \in Processes, Cycle(p) PROVE Shape'
  <2>1. CASE BeginCycle(p)
    BY <2>1 DEF BeginCycle
  <2>2. CASE Allocate(p)
    BY <2>2 DEF Allocate
  <2>3. CASE Propose(p)
    BY <2>3 DEF Propose, SetState, DropChosen
  <2>4. CASE Approve(p)
    BY <2>4 DEF Approve, SetState
  <2>5. CASE Reject(p)
    BY <2>5 DEF Reject, SetState, DropChosen
  <2>6. CASE EndCycle(p)
    BY <2>6 DEF EndCycle
  <2> QED
    BY <1>1, <2>1, <2>2, <2>3, <2>4, <2>5, <2>6 DEF Cycle
<1>2. ASSUME NEW p \in Processes, Execute(p) PROVE Shape'
  <2>0. CASE RefuseOrder(p)
    BY <2>0 DEF RefuseOrder, SetState, DropAdmitted
  <2>1. CASE Submit(p)
    BY <2>1 DEF Submit, SetState
  <2>2. CASE Answered(p)
    BY <2>2, ZenonT(30) DEF Answered, Fill, SetState, DropAdmitted
  <2>3. CASE RecordPosition(p)
    BY <2>3 DEF RecordPosition, RowOf, Race
  <2>4. CASE LinkPosition(p)
    BY <2>4 DEF LinkPosition, DropAdmitted
  <2>5. CASE EndCall(p)
    BY <2>5 DEF EndCall, IdleCall
  <2> QED
    BY <1>2, <2>0, <2>1, <2>2, <2>3, <2>4, <2>5 DEF Execute
<1>3. ASSUME NEW p \in Processes, Crash(p) PROVE Shape'
  BY <1>3 DEF Crash, IdleCall
<1>4. ASSUME NEW p \in Processes, NEW t \in Trades, Close(p, t) PROVE Shape'
  BY <1>4 DEF Close, NoRow, SetState
<1>5. ASSUME NEW t \in Trades, Reconcile(t) PROVE Shape'
  BY <1>5 DEF Reconcile, RowOf, Race
<1>6. CASE UNCHANGED vars
  BY <1>6 DEF vars
<1> QED
  BY <1>1, <1>2, <1>3, <1>4, <1>5, <1>6 DEF Next

-----------------------------------------------------------------------------
(* What the broker holds is booked.                                        *)

\* The hand-over from the intent to the position row, and everything else,
\* keeps each deal backed by one of the two.
LEMMA BackedStep == IInv /\ [Next]_vars => IInv'
<1> SUFFICES ASSUME IInv, [Next]_vars
             PROVE  UnansweredHasNothing' /\ DealsAreBacked'
  BY ShapeStep DEF IInv
<1> USE DEF IInv, UnansweredHasNothing, DealsAreBacked, Backed
<1> USE DEF Absent, UnansweredStates, RiskReservedStates
<1>s. Shape
  OBVIOUS
<1>1. ASSUME NEW p \in Processes, Cycle(p)
      PROVE  UnansweredHasNothing' /\ DealsAreBacked'
  <2>1. CASE BeginCycle(p)
    BY <2>1 DEF BeginCycle
  <2>2. CASE Allocate(p)
    <3>1. UNCHANGED <<positions, deals>>
      BY <2>2 DEF Allocate
    <3>2. \A t \in Trades : \/ intents'[t] = intents[t]
                            \/ /\ intents[t].state = Absent
                               /\ intents'[t] = [intents[t] EXCEPT !.state = "REJECTED"]
      BY <2>2, <1>s DEF Allocate, Batches, Unused, States, ToSet, Shape
    <3>3. \A t \in Trades : intents'[t] # intents[t] =>
            /\ deals[t] = 0
            /\ intents'[t].state = "REJECTED"
      BY <3>2, <1>s DEF Shape
    <3> QED
      BY <3>1, <3>3
  <2>3. CASE Propose(p)
    <3>1. PICK t : /\ intents[t].state = Absent
                   /\ \/ SetState(t, "REJECTED")
                      \/ intents' = [intents EXCEPT
                           ![t].state = "PROPOSED",
                           ![t].risk = Head(calls[p].chosen).risk]
      BY <2>3 DEF Propose, Deciding
    <3>2. UNCHANGED <<positions, deals>>
      BY <2>3 DEF Propose
    <3> QED
      BY <3>1, <3>2, <1>s DEF Shape, SetState
  <2>4. CASE Approve(p)
    BY <2>4, <1>s DEF Approve, Deciding, SetState, Shape
  <2>5. CASE Reject(p)
    BY <2>5, <1>s DEF Reject, Deciding, SetState, Shape
  <2>6. CASE EndCycle(p)
    BY <2>6 DEF EndCycle
  <2> QED
    BY <1>1, <2>1, <2>2, <2>3, <2>4, <2>5, <2>6 DEF Cycle
<1>2. ASSUME NEW p \in Processes, Execute(p)
      PROVE  UnansweredHasNothing' /\ DealsAreBacked'
  <2>0. CASE RefuseOrder(p)
    BY <2>0, <1>s DEF RefuseOrder, Executing, SetState, Shape
  <2>1. CASE Submit(p)
    BY <2>1, <1>s DEF Submit, Executing, SetState, Shape
  <2>2. CASE Answered(p)
    <3>1. PICK t, size, state :
            /\ intents[t].state = "SUBMITTED"
            /\ state \in {"FILLED", "PARTIALLY_FILLED", "FAILED", "ACKNOWLEDGED"}
            /\ state = "FAILED" => size = 0
            /\ deals' = [deals EXCEPT ![t] = size]
            /\ SetState(t, state)
      BY <2>2 DEF Answered, Executing, Fill
    <3>2. UNCHANGED positions
      BY <2>2 DEF Answered
    <3>3. \A u \in Trades : u # t => /\ intents'[u] = intents[u]
                                     /\ deals'[u] = deals[u]
      BY <3>1, <1>s, SetStateLemma DEF Shape
    <3>4. t \in Trades => /\ intents'[t].state = state
                          /\ ~intents'[t].linked
                          /\ deals'[t] = size
      BY <3>1, <1>s, SetStateLemma DEF Shape
    <3> QED
      BY <3>1, <3>2, <3>3, <3>4
  <2>3. CASE RecordPosition(p)
    <3>1. UNCHANGED <<intents, deals>>
      BY <2>3 DEF RecordPosition
    <3>2. \A t \in Trades : positions[t].open => positions'[t].open
      BY <2>3, <1>s DEF RecordPosition, RowOf, Shape
    <3> QED
      BY <3>1, <3>2
  <2>4. CASE LinkPosition(p)
    <3> DEFINE t == Head(calls[p].admitted)
    <3>1. /\ intents[t].state \in {"FILLED", "PARTIALLY_FILLED"}
          /\ positions[t].open
          /\ intents' = [intents EXCEPT
               ![t].state = IF @ = "FILLED" THEN "POSITION_OPENED" ELSE @,
               ![t].linked = TRUE]
      BY <2>4 DEF LinkPosition, Executing, Rows
    <3> HIDE DEF t
    <3>2. UNCHANGED <<positions, deals>>
      BY <2>4 DEF LinkPosition
    <3>3. \A u \in Trades : u # t => intents'[u] = intents[u]
      BY <3>1, <1>s DEF Shape
    <3>4. t \in Trades =>
            intents'[t].state \in {"POSITION_OPENED", "PARTIALLY_FILLED"}
      BY <3>1, <1>s DEF Shape
    <3> QED
      BY <3>1, <3>2, <3>3, <3>4
  <2>5. CASE EndCall(p)
    BY <2>5 DEF EndCall
  <2> QED
    BY <1>2, <2>0, <2>1, <2>2, <2>3, <2>4, <2>5 DEF Execute
<1>3. ASSUME NEW p \in Processes, Crash(p)
      PROVE  UnansweredHasNothing' /\ DealsAreBacked'
  BY <1>3 DEF Crash
<1>4. ASSUME NEW p \in Processes, NEW t \in Trades, Close(p, t)
      PROVE  UnansweredHasNothing' /\ DealsAreBacked'
  <2>1. /\ deals' = [deals EXCEPT ![t] = 0]
        /\ \A u \in Trades : u # t => positions'[u] = positions[u]
        /\ SetState(t, "CLOSED")
    BY <1>4, <1>s DEF Close, Shape
  <2>2. /\ \A u \in Trades : u # t => /\ intents'[u] = intents[u]
                                      /\ deals'[u] = deals[u]
        /\ intents'[t].state = "CLOSED"
        /\ deals'[t] = 0
    BY <2>1, <1>s, SetStateLemma DEF Shape
  <2> QED
    BY <2>1, <2>2
<1>5. ASSUME NEW t \in Trades, Reconcile(t)
      PROVE  UnansweredHasNothing' /\ DealsAreBacked'
  <2>1. /\ deals[t] > 0
        /\ UNCHANGED deals
        /\ \A u \in Trades : positions'[u].open <=> (u = t \/ positions[u].open)
    BY <1>5, <1>s DEF Reconcile, RowOf, Shape
  <2>2. \A u \in Trades : u # t => intents'[u] = intents[u]
    BY <1>5, <1>s DEF Reconcile, Shape
  <2>3. \/ intents'[t] = intents[t]
        \/ intents'[t].state = "POSITION_OPENED"
    BY <1>5, <1>s DEF Reconcile, Shape
  <2> QED
    BY <2>1, <2>2, <2>3
<1>6. CASE UNCHANGED vars
  BY <1>6 DEF vars
<1> QED
  BY <1>1, <1>2, <1>3, <1>4, <1>5, <1>6 DEF Next

\* A row that is listed, or an unlinked intent that reserves, is an entry of
\* the book that _build_open_state computes.
LEMMA BackedIsBooked ==
  ASSUME NEW t \in Trades, Backed(t)
  PROVE  \E e \in Book(Listed) : e.trade = t
<1>1. CASE positions[t].open
  <2>1. Entry(t, positions[t].risk, positions[t].size) \in Listed
    BY <1>1 DEF Listed, Rows
  <2> QED
    BY <2>1 DEF Book, Entry
<1>2. CASE /\ ~positions[t].open
           /\ intents[t].state \in RiskReservedStates
           /\ ~intents[t].linked
  <2>1. \A e \in Listed : e.trade # t
    BY <1>2 DEF Listed, Rows, Entry
  <2>2. Entry(t, intents[t].risk, intents[t].risk) \in Reserved(Listed)
    BY <1>2, <2>1 DEF Reserved, States
  <2> QED
    BY <2>2 DEF Book, Entry
<1> QED
  BY <1>1, <1>2 DEF Backed

\* Whatever the broker holds of a trade uses up budget, at every point of the
\* hand-over from the intent to the position row and across every crash.
THEOREM DealsBooked == Spec => []DealsAreBooked
<1>1. IInv => DealsAreBooked
  BY BackedIsBooked DEF IInv, DealsAreBacked, DealsAreBooked
<1> QED
  BY InitIInv, BackedStep, <1>1, PTL DEF Spec

-----------------------------------------------------------------------------
(* One admission at a time.                                                *)

\* Every step of allocation_admission_lock keeps the lock with the process
\* whose cycle it protects, a crash of the holder included.
LEMMA LockStep == AdmissionInv /\ [Next]_vars => AdmissionInv'
<1> SUFFICES ASSUME AdmissionInv, [Next]_vars PROVE LockIsAdmission'
  BY ShapeStep DEF AdmissionInv
<1> USE ProcessesAssumption DEF AdmissionInv, LockIsAdmission, Admitting, Shape
<1>1. ASSUME NEW p \in Processes, Cycle(p) PROVE LockIsAdmission'
  <2>1. CASE BeginCycle(p)
    BY <2>1 DEF BeginCycle, Admissible
  <2>2. CASE Allocate(p)
    BY <2>2 DEF Allocate
  <2>3. CASE Propose(p)
    BY <2>3 DEF Propose, DropChosen
  <2>4. CASE Approve(p)
    BY <2>4 DEF Approve
  <2>5. CASE Reject(p)
    BY <2>5 DEF Reject, DropChosen
  <2>6. CASE EndCycle(p)
    BY <2>6 DEF EndCycle
  <2> QED
    BY <1>1, <2>1, <2>2, <2>3, <2>4, <2>5, <2>6 DEF Cycle
<1>2. ASSUME NEW p \in Processes, Execute(p) PROVE LockIsAdmission'
  <2>0. CASE RefuseOrder(p)
    BY <2>0 DEF RefuseOrder, DropAdmitted
  <2>1. CASE Submit(p)
    BY <2>1 DEF Submit
  <2>2. CASE Answered(p)
    BY <2>2 DEF Answered, DropAdmitted
  <2>3. CASE RecordPosition(p)
    BY <2>3 DEF RecordPosition, Race
  <2>4. CASE LinkPosition(p)
    BY <2>4 DEF LinkPosition, DropAdmitted
  <2>5. CASE EndCall(p)
    BY <2>5 DEF EndCall, IdleCall, Executing
  <2> QED
    BY <1>2, <2>0, <2>1, <2>2, <2>3, <2>4, <2>5 DEF Execute
<1>3. ASSUME NEW p \in Processes, Crash(p) PROVE LockIsAdmission'
  BY <1>3 DEF Crash, IdleCall
<1>4. ASSUME NEW p \in Processes, NEW t \in Trades, Close(p, t)
      PROVE  LockIsAdmission'
  BY <1>4 DEF Close
<1>5. ASSUME NEW t \in Trades, Reconcile(t) PROVE LockIsAdmission'
  BY <1>5 DEF Reconcile, Race
<1>6. CASE UNCHANGED vars
  BY <1>6 DEF vars
<1> QED
  BY <1>1, <1>2, <1>3, <1>4, <1>5, <1>6 DEF Next

\* No two processes compute and spend budgets at the same time, however many
\* leaders overlap (allocation_admission_lock).
AdmissionIsExclusive ==
  \A p, q \in Processes : Admitting(p) /\ Admitting(q) => p = q
THEOREM ExclusiveAdmission == Spec => []AdmissionIsExclusive
<1>1. AdmissionInv => AdmissionIsExclusive
  BY DEF AdmissionInv, LockIsAdmission, AdmissionIsExclusive
<1> QED
  BY InitIInv, LockStep, <1>1, PTL DEF Spec

-----------------------------------------------------------------------------
(* Sums of risk and of notional.                                           *)

\* A sum of counts, as a number of things: the count of x is that many pairs.
Units(counts, s) == UNION {{x} \X (1 .. counts[x]) : x \in s}

\* The equation by which MapThenSumSet is defined.
IsSumOf(counts, sum) ==
  sum = [s \in SUBSET DOMAIN counts |->
           IF s = {} THEN 0
           ELSE LET x == CHOOSE x \in s : TRUE
                IN  counts[x] + sum[s \ {x}]]

\* The units of a finite set are as many as those of any member and of the rest.
LEMMA UnitsSplit ==
  ASSUME NEW S, IsFiniteSet(S), NEW counts \in [S -> Nat], NEW s \in SUBSET S
  PROVE  /\ IsFiniteSet(Units(counts, s))
         /\ Cardinality(Units(counts, s)) \in Nat
         /\ \A x \in s : Cardinality(Units(counts, s)) =
                           counts[x] + Cardinality(Units(counts, s \ {x}))
<1>1. ASSUME NEW x \in S
      PROVE  /\ IsFiniteSet({x} \X (1 .. counts[x]))
             /\ Cardinality({x} \X (1 .. counts[x])) = counts[x]
  <2>1. IsFiniteSet(1 .. counts[x]) /\ Cardinality(1 .. counts[x]) = counts[x]
    BY FS_Interval
  <2>2. IsFiniteSet({x}) /\ Cardinality({x}) = 1
    BY FS_Singleton
  <2>3. counts[x] \in Nat
    OBVIOUS
  <2> QED
    BY <2>1, <2>2, <2>3, FS_Product, Z3
<1>2. ASSUME NEW t \in SUBSET S PROVE IsFiniteSet(Units(counts, t))
  <2>1. IsFiniteSet(t)
    BY FS_Subset
  <2> DEFINE own == [x \in t |-> {x} \X (1 .. counts[x])]
             T == {{x} \X (1 .. counts[x]) : x \in t}
  <2>2. own \in Surjection(t, T)
    BY DEF Surjection
  <2>3. IsFiniteSet(T)
    BY <2>1, <2>2, FS_Surjection
  <2> QED
    BY <1>1, <2>3, FS_UNION DEF Units
<1>3. ASSUME NEW x \in s
      PROVE  Cardinality(Units(counts, s)) =
               counts[x] + Cardinality(Units(counts, s \ {x}))
  <2> DEFINE own == {x} \X (1 .. counts[x])
             rest == Units(counts, s \ {x})
  <2>1. Units(counts, s) = own \cup rest
    BY DEF Units
  <2>2. own \cap rest = {}
    BY DEF Units
  <2>3. IsFiniteSet(own) /\ IsFiniteSet(rest) /\ Cardinality(own) = counts[x]
    BY <1>1, <1>2
  <2>4. Cardinality(rest) \in Nat
    BY <2>3, FS_CardinalityType
  <2> HIDE DEF own, rest
  <2>5. Cardinality(own \cup rest) = Cardinality(own) + Cardinality(rest) - 0
    BY <2>2, <2>3, FS_Union, FS_EmptySet
  <2> QED
    BY <2>1, <2>3, <2>4, <2>5 DEF rest
<1> QED
  BY <1>2, <1>3, FS_CardinalityType

\* The equation by which a sum is defined has the number of units as its only
\* solution.
LEMMA SumIsUnique ==
  ASSUME NEW S, IsFiniteSet(S), NEW counts \in [S -> Nat],
         NEW sum, IsSumOf(counts, sum), NEW s \in SUBSET S
  PROVE  sum[s] = Cardinality(Units(counts, s))
<1> DEFINE Wrong == {t \in SUBSET S : sum[t] # Cardinality(Units(counts, t))}
<1>1. SUFFICES ASSUME Wrong # {} PROVE FALSE
  OBVIOUS
<1>2. IsWellFoundedOn(StrictSubsetOrdering(S), SUBSET S)
  BY FS_StrictSubsetOrderingWellFounded, FS_FiniteSubsetsOfFinite
<1>3. PICK t \in Wrong : \A u \in Wrong : <<u, t>> \notin StrictSubsetOrdering(S)
  BY <1>1, <1>2, WFMin, Zenon
<1>4. CASE t = {}
  <2>1. sum[t] = 0
    BY <1>4 DEF IsSumOf
  <2>2. Units(counts, t) = {}
    BY <1>4 DEF Units
  <2> QED
    BY <1>3, <2>1, <2>2, FS_EmptySet
<1>5. CASE t # {}
  <2> DEFINE x == CHOOSE x \in t : TRUE
  <2>1. x \in t /\ t \ {x} \in SUBSET S
    BY <1>5
  <2>2. sum[t] = counts[x] + sum[t \ {x}]
    BY <1>5 DEF IsSumOf
  <2> HIDE DEF x
  <2>3. <<t \ {x}, t>> \in StrictSubsetOrdering(S)
    BY <2>1 DEF StrictSubsetOrdering
  <2>4. sum[t \ {x}] = Cardinality(Units(counts, t \ {x}))
    BY <1>3, <2>1, <2>3
  <2>5. Cardinality(Units(counts, t)) =
          counts[x] + Cardinality(Units(counts, t \ {x}))
    BY <2>1, UnitsSplit
  <2> QED
    BY <1>3, <2>2, <2>4, <2>5
<1> QED
  BY <1>4, <1>5

\* It has a solution: the number of units is one.
LEMMA SumExists ==
  ASSUME NEW S, IsFiniteSet(S), NEW counts \in [S -> Nat]
  PROVE  \E sum : IsSumOf(counts, sum)
<1> DEFINE sum == [s \in SUBSET S |-> Cardinality(Units(counts, s))]
<1>1. ASSUME NEW s \in SUBSET S
      PROVE  sum[s] = IF s = {} THEN 0
                      ELSE LET x == CHOOSE x \in s : TRUE
                           IN  counts[x] + sum[s \ {x}]
  <2>1. CASE s = {}
    BY <2>1, FS_EmptySet DEF Units
  <2>2. CASE s # {}
    <3> DEFINE x == CHOOSE x \in s : TRUE
    <3>1. x \in s
      BY <2>2
    <3> HIDE DEF x
    <3>2. sum[s] = counts[x] + sum[s \ {x}]
      BY <3>1, UnitsSplit
    <3> QED
      BY <2>2, <3>2 DEF x
  <2> QED
    BY <2>1, <2>2
<1>2. IsSumOf(counts, sum)
  BY <1>1 DEF IsSumOf
<1> QED
  BY <1>2


\* So the sum over a finite set is the number of its units.
LEMMA SumEquation ==
  ASSUME NEW S, IsFiniteSet(S), NEW counts \in [S -> Nat]
  PROVE  (CHOOSE sum : IsSumOf(counts, sum))[S] = Cardinality(Units(counts, S))
<1> DEFINE sum == CHOOSE sum : IsSumOf(counts, sum)
<1>1. IsSumOf(counts, sum)
  BY SumExists
<1> HIDE DEF sum
<1> QED
  BY <1>1, SumIsUnique DEF sum

\* The entries of a book, and the units of each.
Entries == [trade : Trades, risk : Nat, size : Nat]
Risks(book) == [e \in book |-> e.risk]
Notionals(book) == [e \in book |-> Weight[e.trade] * e.size]

\* The risk and the notional of an entry are counts.
LEMMA BookTypes ==
  ASSUME NEW book \in SUBSET Entries
  PROVE  Risks(book) \in [book -> Nat] /\ Notionals(book) \in [book -> Nat]
<1>1. ASSUME NEW e \in book
      PROVE  e.risk \in Nat /\ Weight[e.trade] \in Nat /\ e.size \in Nat
  BY TradesAssumption DEF Entries
<1>2. \A m, n \in Nat : m * n \in Nat
  OBVIOUS
<1> QED
  BY <1>1, <1>2 DEF Risks, Notionals

\* The risk of a book is the number of its units of risk.
LEMMA RiskIsUnits ==
  ASSUME NEW book \in SUBSET Entries, IsFiniteSet(book)
  PROVE  Risk(book) = Cardinality(Units(Risks(book), book))
<1> DEFINE Eq(sum) == sum = [s \in SUBSET book |->
                               IF s = {} THEN 0
                               ELSE LET x == CHOOSE x \in s : TRUE
                                    IN  x.risk + sum[s \ {x}]]
<1>1. Risk(book) = (CHOOSE sum : Eq(sum))[book]
  BY DEF Risk, MapThenSumSet, MapThenFoldSet
<1>2. ASSUME NEW sum PROVE Eq(sum) <=> IsSumOf(Risks(book), sum)
  <2>1. DOMAIN Risks(book) = book
    BY DEF Risks
  <2>2. ASSUME NEW s \in SUBSET book, s # {}
        PROVE  Risks(book)[CHOOSE x \in s : TRUE] = (CHOOSE x \in s : TRUE).risk
    <3>1. (CHOOSE x \in s : TRUE) \in book
      BY <2>2
    <3> QED
      BY <3>1 DEF Risks
  <2>3. [s \in SUBSET book |-> IF s = {} THEN 0
                               ELSE LET x == CHOOSE x \in s : TRUE
                                    IN  x.risk + sum[s \ {x}]]
        = [s \in SUBSET DOMAIN Risks(book) |->
             IF s = {} THEN 0
             ELSE LET x == CHOOSE x \in s : TRUE
                  IN  Risks(book)[x] + sum[s \ {x}]]
    BY <2>1, <2>2
  <2> QED
    BY <2>3 DEF IsSumOf
<1>3. (CHOOSE sum : Eq(sum)) = (CHOOSE sum : IsSumOf(Risks(book), sum))
  BY <1>2, Zenon
<1> QED
  BY <1>1, <1>3, BookTypes, SumEquation

\* And its notional the number of its units of notional.
LEMMA GrossIsUnits ==
  ASSUME NEW book \in SUBSET Entries, IsFiniteSet(book)
  PROVE  Gross(book) = Cardinality(Units(Notionals(book), book))
<1> DEFINE Eq(sum) == sum = [s \in SUBSET book |->
                               IF s = {} THEN 0
                               ELSE LET x == CHOOSE x \in s : TRUE
                                    IN  Weight[x.trade] * x.size + sum[s \ {x}]]
<1>1. Gross(book) = (CHOOSE sum : Eq(sum))[book]
  BY DEF Gross, MapThenSumSet, MapThenFoldSet
<1>2. ASSUME NEW sum PROVE Eq(sum) <=> IsSumOf(Notionals(book), sum)
  <2>1. DOMAIN Notionals(book) = book
    BY DEF Notionals
  <2>2. ASSUME NEW s \in SUBSET book, s # {}
        PROVE  Notionals(book)[CHOOSE x \in s : TRUE]
                 = Weight[(CHOOSE x \in s : TRUE).trade]
                     * (CHOOSE x \in s : TRUE).size
    <3>1. (CHOOSE x \in s : TRUE) \in book
      BY <2>2
    <3> QED
      BY <3>1 DEF Notionals
  <2>3. [s \in SUBSET book |->
           IF s = {} THEN 0
           ELSE LET x == CHOOSE x \in s : TRUE
                IN  Weight[x.trade] * x.size + sum[s \ {x}]]
        = [s \in SUBSET DOMAIN Notionals(book) |->
             IF s = {} THEN 0
             ELSE LET x == CHOOSE x \in s : TRUE
                  IN  Notionals(book)[x] + sum[s \ {x}]]
    BY <2>1, <2>2
  <2> QED
    BY <2>3 DEF IsSumOf
<1>3. (CHOOSE sum : Eq(sum)) = (CHOOSE sum : IsSumOf(Notionals(book), sum))
  BY <1>2, Zenon
<1> QED
  BY <1>1, <1>3, BookTypes, SumEquation

\* A larger set has more units, and one more member adds its count.
LEMMA UnitsGrow ==
  ASSUME NEW S, IsFiniteSet(S), NEW counts \in [S -> Nat], NEW s \in SUBSET S
  PROVE  Cardinality(Units(counts, s)) <= Cardinality(Units(counts, S))
<1>1. Units(counts, s) \subseteq Units(counts, S)
  BY DEF Units
<1>2. IsFiniteSet(Units(counts, S))
  BY UnitsSplit
<1> QED
  BY <1>1, <1>2, FS_Subset

\* The risk of a book: none of an empty one, never less with more entries, and
\* each entry adds its own.
LEMMA RiskOfBooks ==
  ASSUME NEW book \in SUBSET Entries, IsFiniteSet(book)
  PROVE  /\ Risk(book) \in Nat
         /\ \A part \in SUBSET book : Risk(part) \in Nat /\ Risk(part) <= Risk(book)
         /\ \A e \in book : Risk(book) = e.risk + Risk(book \ {e})
<1>1. ASSUME NEW part \in SUBSET book
      PROVE  Risk(part) = Cardinality(Units(Risks(book), part))
  <2>1. part \in SUBSET Entries /\ IsFiniteSet(part)
    BY FS_Subset
  <2>2. Units(Risks(part), part) = Units(Risks(book), part)
    BY DEF Units, Risks
  <2> QED
    BY <2>1, <2>2, RiskIsUnits
<1>2. Risks(book) \in [book -> Nat]
  BY BookTypes
<1>3. ASSUME NEW part \in SUBSET book
      PROVE  Risk(part) \in Nat /\ Risk(part) <= Risk(book)
  BY <1>1, <1>2, UnitsGrow, UnitsSplit
<1>4. ASSUME NEW e \in book
      PROVE  Risk(book) = e.risk + Risk(book \ {e})
  <2>1. Risks(book)[e] = e.risk
    BY DEF Risks
  <2>2. Risk(book) = Cardinality(Units(Risks(book), book))
    BY <1>1
  <2>3. Risk(book \ {e}) = Cardinality(Units(Risks(book), book \ {e}))
    BY <1>1
  <2> QED
    BY <1>2, <2>1, <2>2, <2>3, UnitsSplit
<1> QED
  BY <1>3, <1>4

\* So has the notional.
LEMMA GrossOfBooks ==
  ASSUME NEW book \in SUBSET Entries, IsFiniteSet(book)
  PROVE  /\ Gross(book) \in Nat
         /\ \A part \in SUBSET book : Gross(part) \in Nat /\ Gross(part) <= Gross(book)
         /\ \A e \in book : Gross(book) = Weight[e.trade] * e.size
                                            + Gross(book \ {e})
<1>1. ASSUME NEW part \in SUBSET book
      PROVE  Gross(part) = Cardinality(Units(Notionals(book), part))
  <2>1. part \in SUBSET Entries /\ IsFiniteSet(part)
    BY FS_Subset
  <2>2. Units(Notionals(part), part) = Units(Notionals(book), part)
    BY DEF Units, Notionals
  <2> QED
    BY <2>1, <2>2, GrossIsUnits
<1>2. Notionals(book) \in [book -> Nat]
  BY BookTypes
<1>3. ASSUME NEW part \in SUBSET book
      PROVE  Gross(part) \in Nat /\ Gross(part) <= Gross(book)
  BY <1>1, <1>2, UnitsGrow, UnitsSplit
<1>4. ASSUME NEW e \in book
      PROVE  Gross(book) = Weight[e.trade] * e.size + Gross(book \ {e})
  <2>1. Notionals(book)[e] = Weight[e.trade] * e.size
    BY DEF Notionals
  <2>2. Gross(book) = Cardinality(Units(Notionals(book), book))
    BY <1>1
  <2>3. Gross(book \ {e}) = Cardinality(Units(Notionals(book), book \ {e}))
    BY <1>1
  <2>4. Cardinality(Units(Notionals(book), book))
          = Notionals(book)[e] + Cardinality(Units(Notionals(book), book \ {e}))
    BY <1>2, UnitsSplit
  <2> HIDE DEF Notionals
  <2> QED
    BY <2>1, <2>2, <2>3, <2>4
<1> QED
  BY <1>3, <1>4

\* An empty book has no risk and no notional.
LEMMA EmptyRisk == Risk({}) = 0
<1>1. IsFiniteSet({}) /\ {} \in SUBSET Entries
  BY FS_EmptySet
<1>2. Units(Risks({}), {}) = {}
  BY DEF Units
<1> QED
  BY <1>1, <1>2, RiskIsUnits, FS_EmptySet

LEMMA EmptyGross == Gross({}) = 0
<1>1. IsFiniteSet({}) /\ {} \in SUBSET Entries
  BY FS_EmptySet
<1>2. Units(Notionals({}), {}) = {}
  BY DEF Units
<1> QED
  BY <1>1, <1>2, GrossIsUnits, FS_EmptySet

\* What a budget has spent: the risk charged to it, in halves of a unit.
LEMMA SpentOfBooks ==
  ASSUME NEW book \in SUBSET Entries, IsFiniteSet(book), NEW b
  PROVE  /\ Share(b) \in {1, 2}
         /\ Spent(b, book) \in Nat
         /\ \A part \in SUBSET book : Spent(b, part) <= Spent(b, book)
         /\ \A e \in book : e.risk \in Nat
              /\ Spent(b, book) <= 2 * e.risk + Spent(b, book \ {e})
<1> DEFINE Charged(S) == {e \in S : b \in Budgets(e.trade)}
<1>1. Share(b) \in {1, 2}
  BY DEF Share
<1>a. \A m, n \in Nat : /\ Share(b) * n \in Nat
                        /\ Share(b) * (m + n) <= 2 * m + Share(b) * n
  <2>1. CASE Share(b) = 1
    BY <2>1
  <2>2. CASE Share(b) = 2
    BY <2>2
  <2> QED
    BY <1>1, <2>1, <2>2
<1>2. ASSUME NEW part \in SUBSET book
      PROVE  /\ Charged(part) \in SUBSET Entries
             /\ IsFiniteSet(Charged(part))
             /\ Risk(Charged(part)) \in Nat
             /\ Spent(b, part) = Share(b) * Risk(Charged(part))
  <2>1. Charged(part) \in SUBSET book
    OBVIOUS
  <2>2. IsFiniteSet(Charged(part)) /\ Charged(part) \in SUBSET Entries
    BY <2>1, FS_Subset
  <2>3. Risk(Charged(part)) \in Nat
    BY <2>2, RiskOfBooks
  <2>4. Spent(b, part) = Share(b) * Risk(Charged(part))
    BY DEF Spent
  <2> QED
    BY <2>2, <2>3, <2>4
<1>3. ASSUME NEW part \in SUBSET book PROVE Spent(b, part) <= Spent(b, book)
  <2>1. Charged(part) \in SUBSET Charged(book)
    OBVIOUS
  <2>2. Risk(Charged(part)) <= Risk(Charged(book))
    BY <1>2, <2>1, RiskOfBooks
  <2> HIDE DEF Charged
  <2>3. /\ Spent(b, part) = Share(b) * Risk(Charged(part))
        /\ Spent(b, book) = Share(b) * Risk(Charged(book))
        /\ Risk(Charged(part)) \in Nat /\ Risk(Charged(book)) \in Nat
    BY <1>2
  <2> QED
    BY <1>1, <2>2, <2>3
<1>4. ASSUME NEW e \in book
      PROVE  e.risk \in Nat /\ Spent(b, book) <= 2 * e.risk + Spent(b, book \ {e})
  <2>1. e.risk \in Nat
    BY DEF Entries
  <2>2. CASE e \in Charged(book)
    <3>1. Charged(book \ {e}) = Charged(book) \ {e}
      OBVIOUS
    <3>2. Risk(Charged(book)) = e.risk + Risk(Charged(book) \ {e})
      BY <1>2, <2>2, RiskOfBooks
    <3> HIDE DEF Charged
    <3>3. /\ Spent(b, book) = Share(b) * Risk(Charged(book))
          /\ Spent(b, book \ {e}) = Share(b) * Risk(Charged(book \ {e}))
          /\ Risk(Charged(book \ {e})) \in Nat
      BY <1>2
    <3>4. Spent(b, book) = Share(b) * (e.risk + Risk(Charged(book \ {e})))
      BY <3>1, <3>2, <3>3
    <3> QED
      BY <1>a, <2>1, <3>3, <3>4
  <2>3. CASE e \notin Charged(book)
    <3>1. Charged(book \ {e}) = Charged(book)
      BY <2>3
    <3>2. Spent(b, book \ {e}) = Spent(b, book)
      BY <1>2, <3>1
    <3>3. Spent(b, book) \in Nat
      <4>1. /\ Spent(b, book) = Share(b) * Risk(Charged(book))
            /\ Risk(Charged(book)) \in Nat
        BY <1>2
      <4> QED
        BY <1>a, <4>1
    <3> QED
      BY <2>1, <3>2, <3>3
  <2> QED
    BY <2>1, <2>2, <2>3
<1> HIDE DEF Charged
<1>5. Spent(b, book) \in Nat
  <2>1. /\ Spent(b, book) = Share(b) * Risk(Charged(book))
        /\ Risk(Charged(book)) \in Nat
    BY <1>2
  <2> QED
    BY <1>a, <2>1
<1> QED
  BY <1>1, <1>3, <1>4, <1>5

-----------------------------------------------------------------------------
(* Limits and sizes: what one trade is granted.                            *)

\* Numbers: the least of some, and what Min and Max of naturals give.
LEMMA LeastExists ==
  ASSUME NEW S \in SUBSET Nat, S # {}
  PROVE  \E n \in S : \A m \in S : n <= m
<1>1. PICK n \in S : \A m \in S : <<m, n>> \notin OpToRel(<, Nat)
  BY NatLessThanWellFounded, WFMin, Zenon
<1>2. \A m \in S : ~(m < n)
  BY <1>1 DEF OpToRel
<1> QED
  BY <1>2

LEMMA MinOfNats ==
  ASSUME NEW S \in SUBSET Nat, S # {}
  PROVE  Min(S) \in S /\ \A m \in S : Min(S) <= m
BY LeastExists DEF Min

LEMMA AtLeastZero ==
  ASSUME NEW n \in Int
  PROVE  Max({n, 0}) = IF n > 0 THEN n ELSE 0
<1>1. \E x \in {n, 0} : \A y \in {n, 0} : x >= y
  OBVIOUS
<1> QED
  BY <1>1 DEF Max

\* What rounding down to a step leaves, and products grow with their factors.
LEMMA DividedDown ==
  ASSUME NEW n \in Nat, NEW d \in Nat \ {0}
  PROVE  n \div d \in Nat /\ (n \div d) * d \in Nat /\ (n \div d) * d <= n
OBVIOUS

LEMMA ScaledUp ==
  ASSUME NEW w \in Nat, NEW m \in Nat, NEW n \in Nat, m <= n
  PROVE  w * m \in Nat /\ w * n \in Nat /\ w * m <= w * n
OBVIOUS

\* What the constants are.
LEMMA LimitTypes ==
  /\ \A k \in Kinds : Limit[k] \in Nat
  /\ CycleRisk \in Nat /\ CyclePositions \in Nat /\ MaxPositions \in Nat
  /\ MaxPerStrategy \in Nat /\ MaxNotional \in Nat /\ GrossLimit \in Nat
  /\ Tolerance \in Nat /\ MaxCrashes \in Nat
  /\ \A t \in Trades : /\ Wanted[t] \in Nat
                       /\ Weight[t] \in Nat \ {0}
                       /\ MinDeal[t] \in Nat \ {0}
                       /\ Step[t] \in Nat \ {0}
BY LimitsAssumption, TradesAssumption

\* Every budget of a trade is of one of the kinds that have a limit.
LEMMA BudgetKinds == \A t \in Trades : \A b \in Budgets(t) : b[1] \in Kinds
BY DEF Budgets, Kinds

\* What a budget has left is spent by no more than it leaves.
LEMMA RoomLeftFacts ==
  ASSUME NEW book \in SUBSET Entries, IsFiniteSet(book),
         NEW t \in Trades, NEW b \in Budgets(t)
  PROVE  /\ RoomLeft(b, book) \in Nat
         /\ \A n \in Nat : 0 < n /\ n <= RoomLeft(b, book) =>
              2 * n + Spent(b, book) <= 2 * Limit[b[1]]
<1> DEFINE L == Limit[b[1]]
           s == Spent(b, book)
<1>1. L \in Nat
  BY BudgetKinds, LimitTypes
<1>2. s \in Nat
  BY SpentOfBooks
<1>3. RoomLeft(b, book) = Max({2 * L - s, 0}) \div 2
  BY DEF RoomLeft
<1> HIDE DEF L, s
<1>4. Max({2 * L - s, 0}) = IF 2 * L - s > 0 THEN 2 * L - s ELSE 0
  BY <1>1, <1>2, AtLeastZero
<1>5. RoomLeft(b, book) \in Nat
  BY <1>1, <1>2, <1>3, <1>4
<1>6. ASSUME NEW n \in Nat, 0 < n, n <= RoomLeft(b, book)
      PROVE  2 * n + s <= 2 * L
  BY <1>1, <1>2, <1>3, <1>4, <1>6
<1> QED
  BY <1>5, <1>6 DEF L, s

\* _allocatable_risk_percent grants no more than the cycle and every budget
\* of the trade have left.
LEMMA HardLimitFacts ==
  ASSUME NEW t \in Trades,
         NEW book \in SUBSET Entries, IsFiniteSet(book),
         NEW cycle \in SUBSET Entries, IsFiniteSet(cycle)
  PROVE  /\ HardLimit(t, book, cycle) \in Nat
         /\ \A n \in Nat : 0 < n /\ n <= HardLimit(t, book, cycle) =>
              /\ n + Risk(cycle) <= CycleRisk
              /\ \A b \in Budgets(t) :
                   2 * n + Spent(b, book \cup cycle) <= 2 * Limit[b[1]]
<1> DEFINE B == book \cup cycle
           left == Max({CycleRisk - Risk(cycle), 0})
           S == {left} \cup {RoomLeft(b, B) : b \in Budgets(t)}
<1>1. B \in SUBSET Entries /\ IsFiniteSet(B)
  BY FS_Union
<1>2. Risk(cycle) \in Nat /\ CycleRisk \in Nat
  BY RiskOfBooks, LimitTypes
<1>3. left = IF CycleRisk - Risk(cycle) > 0 THEN CycleRisk - Risk(cycle) ELSE 0
  <2>1. CycleRisk - Risk(cycle) \in Int
    BY <1>2
  <2> QED
    BY <2>1, AtLeastZero
<1>4. HardLimit(t, book, cycle) = Min(S)
  BY DEF HardLimit
<1> HIDE DEF B, left
<1>5. \A b \in Budgets(t) : RoomLeft(b, B) \in Nat
  BY <1>1, RoomLeftFacts
<1>6. left \in Nat
  BY <1>2, <1>3
<1>7. S \in SUBSET Nat /\ S # {} /\ left \in S
      /\ \A b \in Budgets(t) : RoomLeft(b, B) \in S
  BY <1>5, <1>6
<1> HIDE DEF S
<1>8. Min(S) \in Nat /\ \A m \in S : Min(S) <= m
  BY <1>7, MinOfNats
<1>9. ASSUME NEW n \in Nat, 0 < n, n <= Min(S)
      PROVE  /\ n + Risk(cycle) <= CycleRisk
             /\ \A b \in Budgets(t) : 2 * n + Spent(b, B) <= 2 * Limit[b[1]]
  <2>1. n <= left
    BY <1>6, <1>7, <1>8, <1>9
  <2>2. n + Risk(cycle) <= CycleRisk
    BY <1>2, <1>3, <1>9, <2>1
  <2>3. ASSUME NEW b \in Budgets(t)
        PROVE  2 * n + Spent(b, B) <= 2 * Limit[b[1]]
    <3>1. n <= RoomLeft(b, B)
      BY <1>5, <1>7, <1>8, <1>9
    <3> QED
      BY <1>1, <1>9, <3>1, RoomLeftFacts
  <2> QED
    BY <2>2, <2>3
<1> QED
  BY <1>4, <1>8, <1>9 DEF B

\* The size before rounding is within the budgets and the notional that is left.
LEMMA CappedFacts ==
  ASSUME NEW t \in Trades,
         NEW book \in SUBSET Entries, IsFiniteSet(book),
         NEW cycle \in SUBSET Entries, IsFiniteSet(cycle)
  PROVE  /\ Capped(t, book, cycle) \in Nat
         /\ Capped(t, book, cycle) <= HardLimit(t, book, cycle)
         /\ Capped(t, book, cycle) > 0 =>
              Weight[t] * Capped(t, book, cycle) + Gross(book \cup cycle)
                <= GrossLimit
<1> DEFINE G == Gross(book \cup cycle)
           w == Weight[t]
           left == Max({GrossLimit - G, 0})
           hard == HardLimit(t, book, cycle)
           S == {Wanted[t], hard, MaxNotional \div w, left \div w}
           n == Min(S)
<1>1. G \in Nat
  <2>1. book \cup cycle \in SUBSET Entries /\ IsFiniteSet(book \cup cycle)
    BY FS_Union
  <2> QED
    BY <2>1, GrossOfBooks
<1>2. w \in Nat \ {0} /\ GrossLimit \in Nat /\ Wanted[t] \in Nat /\ MaxNotional \in Nat
  BY LimitTypes
<1>3. hard \in Nat
  BY HardLimitFacts
<1>4. Capped(t, book, cycle) = n
  BY DEF Capped
<1> HIDE DEF G, w, hard
<1>5. left = IF GrossLimit - G > 0 THEN GrossLimit - G ELSE 0
  <2>1. GrossLimit - G \in Int
    BY <1>1, <1>2
  <2> QED
    BY <2>1, AtLeastZero
<1> HIDE DEF left
<1>6. left \in Nat
  BY <1>1, <1>2, <1>5
<1>7. left \div w \in Nat /\ MaxNotional \div w \in Nat /\ (left \div w) * w <= left
  BY <1>2, <1>6, DividedDown
<1>8. n \in Nat /\ n <= hard /\ n <= left \div w
  <2>1. S \in SUBSET Nat /\ S # {}
    BY <1>2, <1>3, <1>7
  <2>2. hard \in S /\ left \div w \in S
    OBVIOUS
  <2> HIDE DEF S
  <2> QED
    BY <2>1, <2>2, MinOfNats
<1> HIDE DEF n
<1>9. ASSUME n > 0 PROVE w * n + G <= GrossLimit
  <2>1. w * n <= w * (left \div w)
    BY <1>2, <1>7, <1>8, ScaledUp
  <2>2. w * (left \div w) = (left \div w) * w
    BY <1>2, <1>7
  <2>3. w * n <= left /\ w * n \in Nat /\ w * n >= w
    <3>1. w * 1 <= w * n /\ w * n \in Nat
      BY <1>2, <1>8, <1>9, ScaledUp
    <3>2. w * (left \div w) \in Nat
      BY <1>2, <1>7
    <3> QED
      BY <1>2, <1>6, <1>7, <2>1, <2>2, <3>1, <3>2
  <2> QED
    BY <1>1, <1>2, <1>5, <2>3
<1> QED
  BY <1>4, <1>8, <1>9 DEF G, w, hard

\* normalize_order_size and _normalize_size give a size within the budgets and
\* within the tolerance of what was asked for, or none.
LEMMA NormalizedFacts ==
  ASSUME NEW t \in Trades, NEW size \in Nat, NEW hard \in Nat, size <= hard,
         Normalized(t, size, hard) # 0
  PROVE  /\ Normalized(t, size, hard) \in Nat \ {0}
         /\ Normalized(t, size, hard) <= hard
         /\ Normalized(t, size, hard) * 100 <= size * (100 + Tolerance)
         /\ size > 0
<1> DEFINE down == (size \div Step[t]) * Step[t]
           up == RoundedUp(t)
           r == Normalized(t, size, hard)
<1>1. Step[t] \in Nat \ {0} /\ MinDeal[t] \in Nat \ {0} /\ Tolerance \in Nat
  BY LimitTypes
<1>2. down \in Nat /\ down <= size
  BY <1>1, DividedDown
<1>3. up \in Nat
  <2>1. MinDeal[t] + Step[t] - 1 \in Nat
    BY <1>1
  <2> QED
    BY <1>1, <2>1, DividedDown DEF RoundedUp
<1>4. r = IF down >= MinDeal[t] THEN down
          ELSE IF down > 0 /\ up <= hard /\ up * 100 <= size * (100 + Tolerance)
            THEN up ELSE 0
  BY DEF Normalized
<1>5. r # 0
  OBVIOUS
<1> HIDE DEF down, up, r
<1>6. size * (100 + Tolerance) >= size * 100
  BY <1>1, ScaledUp
<1>7. CASE down >= MinDeal[t]
  <2>1. r = down
    BY <1>4, <1>7
  <2> QED
    BY <1>1, <1>2, <1>5, <1>6, <2>1 DEF r
<1>8. CASE ~(down >= MinDeal[t])
  <2>1. r = up /\ down > 0 /\ up <= hard /\ up * 100 <= size * (100 + Tolerance)
    BY <1>4, <1>5, <1>8
  <2> QED
    BY <1>2, <1>3, <1>5, <2>1 DEF r
<1> QED
  BY <1>7, <1>8

\* A size within the limit, scaled up within the tolerance, exceeds the limit by
\* no more than the tolerance gives.
LEMMA Scaling ==
  ASSUME NEW w \in Nat, NEW c \in Nat, NEW r \in Nat, NEW gross \in Nat,
         NEW limit \in Nat, NEW k \in Nat,
         w * c + gross <= limit, r * 100 <= c * k
  PROVE  (gross - limit) * k + (w * r) * 100 <= 0
<1>1. w * (r * 100) <= w * (c * k)
  <2>1. r * 100 \in Nat /\ c * k \in Nat
    OBVIOUS
  <2> QED
    BY <2>1, ScaledUp
<1>2. (w * r) * 100 = w * (r * 100) /\ w * (c * k) = k * (w * c)
  OBVIOUS
<1>3. k * (w * c) <= k * (limit - gross)
  <2>1. w * c \in Nat
    OBVIOUS
  <2>2. limit - gross \in Nat /\ w * c <= limit - gross
    BY <2>1
  <2> QED
    BY <2>1, <2>2, ScaledUp
<1>4. (gross - limit) * k = - (k * (limit - gross))
  OBVIOUS
<1>5. w * (r * 100) \in Nat /\ k * (w * c) \in Nat /\ k * (limit - gross) \in Int
  OBVIOUS
<1> QED
  BY <1>1, <1>2, <1>3, <1>4, <1>5

\* A book that fits a trade fits it with less in it.
LEMMA FitsLess ==
  ASSUME NEW t \in Trades, NEW book \in SUBSET Entries, IsFiniteSet(book),
         Fits(t, book), NEW part \in SUBSET book
  PROVE  Fits(t, part)
<1>1. part \in SUBSET Entries /\ IsFiniteSet(part)
  BY FS_Subset
<1>2. ASSUME NEW b \in Budgets(t) PROVE Spent(b, part) <= 2 * Limit[b[1]]
  <2>1. Spent(b, book) <= 2 * Limit[b[1]]
    BY DEF Fits
  <2>2. Spent(b, part) <= Spent(b, book)
    BY SpentOfBooks
  <2>3. Spent(b, part) \in Nat /\ Spent(b, book) \in Nat
    BY <1>1, SpentOfBooks
  <2>4. Limit[b[1]] \in Nat
    BY BudgetKinds, LimitTypes
  <2> QED
    BY <2>1, <2>2, <2>3, <2>4
<1>3. Cardinality(part) <= MaxPositions
  <2>1. Cardinality(book) <= MaxPositions
    BY DEF Fits
  <2>2. Cardinality(part) <= Cardinality(book)
    BY FS_Subset
  <2>3. Cardinality(part) \in Nat /\ Cardinality(book) \in Nat
    BY <1>1, FS_CardinalityType
  <2> QED
    BY <2>1, <2>2, <2>3, LimitTypes
<1>4. Cardinality(OfStrategy(Strategy[t], part)) <= MaxPerStrategy
  <2> DEFINE P == OfStrategy(Strategy[t], part)
             Q == OfStrategy(Strategy[t], book)
  <2>1. Cardinality(Q) <= MaxPerStrategy
    BY DEF Fits
  <2>2. P \in SUBSET Q /\ Q \in SUBSET book
    BY DEF OfStrategy
  <2> HIDE DEF P, Q
  <2>3. IsFiniteSet(Q)
    BY <2>2, FS_Subset
  <2>4. IsFiniteSet(P) /\ Cardinality(P) <= Cardinality(Q)
    BY <2>2, <2>3, FS_Subset
  <2>5. Cardinality(P) \in Nat /\ Cardinality(Q) \in Nat
    BY <2>3, <2>4, FS_CardinalityType
  <2> QED
    BY <2>1, <2>4, <2>5, LimitTypes DEF P
<1>5. LET others == {e \in part : e.trade # t}
          size == Gross(part \ others)
      IN  (Gross(others) - GrossLimit) * (100 + Tolerance) + size * 100 <= 0
  <2> DEFINE O == {e \in book : e.trade # t}
             o == {e \in part : e.trade # t}
             k == 100 + Tolerance
             X == Gross(O)
             Y == Gross(book \ O)
             x == Gross(o)
             y == Gross(part \ o)
  <2>1. (X - GrossLimit) * k + Y * 100 <= 0
    BY DEF Fits
  <2>2. o \in SUBSET O /\ part \ o \in SUBSET (book \ O)
    OBVIOUS
  <2>3. /\ O \in SUBSET Entries /\ IsFiniteSet(O)
        /\ book \ O \in SUBSET Entries /\ IsFiniteSet(book \ O)
    <3>1. O \in SUBSET book /\ book \ O \in SUBSET book
      OBVIOUS
    <3> QED
      BY <3>1, FS_Subset
  <2> HIDE DEF O, o
  <2>4. X \in Nat /\ x \in Nat /\ x <= X
    BY <2>2, <2>3, GrossOfBooks
  <2>5. Y \in Nat /\ y \in Nat /\ y <= Y
    BY <2>2, <2>3, GrossOfBooks
  <2>6. k \in Nat /\ GrossLimit \in Nat
    BY LimitTypes
  <2> HIDE DEF X, Y, x, y, k
  <2>7. k * x <= k * X /\ k * x \in Nat /\ k * X \in Nat
    BY <2>4, <2>6, ScaledUp
  <2>8. (X - GrossLimit) * k = k * X - k * GrossLimit
        /\ (x - GrossLimit) * k = k * x - k * GrossLimit
        /\ k * GrossLimit \in Nat
    BY <2>4, <2>6
  <2>9. (x - GrossLimit) * k + y * 100 <= 0
    BY <2>1, <2>5, <2>7, <2>8
  <2> QED
    BY <2>9 DEF o, x, y, k
<1> QED
  BY <1>2, <1>3, <1>4, <1>5 DEF Fits

\* What allocate grants to a trade fits the book, the cycle so far and the
\* limits of the cycle.
LEMMA GrantFits ==
  ASSUME NEW t \in Trades,
         NEW book \in SUBSET Entries, IsFiniteSet(book),
         NEW cycle \in SUBSET Entries, IsFiniteSet(cycle),
         \A e \in book \cup cycle : e.trade # t,
         NEW r, r = Granted(t, book, cycle), r # 0
  PROVE  /\ r \in Nat \ {0}
         /\ Fits(t, book \cup (cycle \cup {Entry(t, r, r)}))
         /\ Risk(cycle \cup {Entry(t, r, r)}) <= CycleRisk
         /\ Cardinality(cycle) < CyclePositions
<1> DEFINE B == book \cup cycle
           e == Entry(t, r, r)
           New == book \cup (cycle \cup {e})
           size == Capped(t, book, cycle)
           hard == HardLimit(t, book, cycle)
<1>1. /\ Cardinality(B) < MaxPositions
      /\ Cardinality(OfStrategy(Strategy[t], B)) < MaxPerStrategy
      /\ Cardinality(cycle) < CyclePositions
      /\ r = Normalized(t, size, hard)
  BY DEF Granted
<1>2. B \in SUBSET Entries /\ IsFiniteSet(B)
  BY FS_Union
<1>3. size \in Nat /\ hard \in Nat /\ size <= hard
  BY CappedFacts, HardLimitFacts
<1>4. r \in Nat \ {0} /\ r <= hard /\ size > 0
      /\ r * 100 <= size * (100 + Tolerance)
  BY <1>1, <1>3, NormalizedFacts
<1>5. Weight[t] * size + Gross(B) <= GrossLimit
  BY <1>4, CappedFacts
<1>6. r + Risk(cycle) <= CycleRisk
      /\ \A b \in Budgets(t) : 2 * r + Spent(b, B) <= 2 * Limit[b[1]]
  BY <1>4, HardLimitFacts
<1>7. e \in Entries /\ e.trade = t /\ e.risk = r /\ e.size = r
  BY <1>4 DEF Entries, Entry
<1>8. \A x \in B : x.trade # t
  OBVIOUS
<1>9. e \notin B /\ New = B \cup {e}
  BY <1>7, <1>8
<1> HIDE DEF e, size, hard
<1>10. New \in SUBSET Entries /\ IsFiniteSet(New) /\ e \in New /\ New \ {e} = B
  <2> HIDE DEF B, New
  <2>1. IsFiniteSet(B \cup {e})
    BY <1>2, FS_AddElement
  <2> QED
    BY <1>2, <1>7, <1>9, <2>1
<1>11. ASSUME NEW b \in Budgets(t) PROVE Spent(b, New) <= 2 * Limit[b[1]]
  <2>1. Spent(b, New) <= 2 * r + Spent(b, B)
    BY <1>7, <1>10, SpentOfBooks
  <2>2. Spent(b, New) \in Nat /\ Spent(b, B) \in Nat
    BY <1>2, <1>10, SpentOfBooks
  <2>3. Limit[b[1]] \in Nat
    BY BudgetKinds, LimitTypes
  <2> HIDE DEF New, B
  <2> QED
    BY <1>4, <1>6, <2>1, <2>2, <2>3 DEF B
<1>12. Cardinality(New) <= MaxPositions
  <2>1. Cardinality(New) = Cardinality(B) + 1
    BY <1>2, <1>9, FS_AddElement
  <2>2. Cardinality(B) \in Nat
    BY <1>2, FS_CardinalityType
  <2> HIDE DEF New, B
  <2> QED
    BY <1>1, <2>1, <2>2, LimitTypes DEF B
<1>13. Cardinality(OfStrategy(Strategy[t], New)) <= MaxPerStrategy
  <2> DEFINE P == OfStrategy(Strategy[t], B)
  <2>1. OfStrategy(Strategy[t], New) = P \cup {e}
    BY <1>7, <1>9 DEF OfStrategy
  <2>2. P \in SUBSET B /\ e \notin P
    BY <1>9 DEF OfStrategy
  <2>3. IsFiniteSet(P)
    BY <1>2, <2>2, FS_Subset
  <2>4. Cardinality(P) < MaxPerStrategy
    BY <1>1
  <2> HIDE DEF P, New
  <2>5. Cardinality(P \cup {e}) = Cardinality(P) + 1 /\ Cardinality(P) \in Nat
    BY <2>2, <2>3, FS_AddElement, FS_CardinalityType
  <2> QED
    BY <2>1, <2>4, <2>5, LimitTypes
<1>14. LET others == {x \in New : x.trade # t}
           n == Gross(New \ others)
       IN  (Gross(others) - GrossLimit) * (100 + Tolerance) + n * 100 <= 0
  <2>1. {x \in New : x.trade # t} = B
    BY <1>7, <1>8, <1>9
  <2>2. New \ B = {e}
    BY <1>9
  <2>3. Gross({e}) = Weight[t] * r
    <3>1. {e} \in SUBSET Entries /\ IsFiniteSet({e})
      BY <1>7, FS_Singleton
    <3>2. Gross({e}) = Weight[t] * r + Gross({e} \ {e})
      BY <1>7, <3>1, GrossOfBooks
    <3>3. {e} \ {e} = {}
      OBVIOUS
    <3>4. Gross({e}) = Weight[t] * r + 0
      BY <3>2, <3>3, EmptyGross
    <3>5. Weight[t] * r \in Nat
      BY <1>4, LimitTypes
    <3> QED
      BY <3>4, <3>5
  <2>4. Gross(B) \in Nat
    BY <1>2, GrossOfBooks
  <2>5. 100 + Tolerance \in Nat /\ Weight[t] \in Nat /\ GrossLimit \in Nat
    BY LimitTypes
  <2> HIDE DEF B, New
  <2>6. (Gross(B) - GrossLimit) * (100 + Tolerance) + (Weight[t] * r) * 100 <= 0
    BY <1>3, <1>4, <1>5, <2>4, <2>5, Scaling DEF B
  <2> QED
    BY <2>1, <2>2, <2>3, <2>6
<1>15. Fits(t, New)
  BY <1>11, <1>12, <1>13, <1>14 DEF Fits
<1>16. Risk(cycle \cup {e}) <= CycleRisk
  <2>1. cycle \cup {e} \in SUBSET Entries /\ IsFiniteSet(cycle \cup {e})
    BY <1>7, FS_AddElement
  <2>2. (cycle \cup {e}) \ {e} = cycle
    BY <1>9
  <2>3. Risk(cycle \cup {e}) = r + Risk(cycle)
    BY <1>7, <2>1, <2>2, RiskOfBooks
  <2> QED
    BY <1>6, <2>3
<1> QED
  BY <1>1, <1>4, <1>15, <1>16 DEF e

-----------------------------------------------------------------------------
(* The decisions for a batch.                                              *)

\* One candidate more.
After(grants, t, ranked, book) ==
  LET risk == IF t \in Strongest(ranked)
                THEN Granted(t, book, CycleOf(grants)) ELSE 0
  IN  IF risk = 0 THEN grants ELSE Append(grants, [trade |-> t, risk |-> risk])

\* The equation by which the fold over a batch is defined: f[S] is what is
\* granted to the candidates at the places of S.
FoldOver(ranked, book, f) ==
  [s \in SUBSET DOMAIN ranked |->
     IF s = {} THEN <<>>
     ELSE LET x == Max(s) IN After(f[s \ {x}], ranked[x], ranked, book)]
IsFoldOf(ranked, book, f) == f = FoldOver(ranked, book, f)

\* Some places of a batch have a last one, which is the one a fold takes.
LEMMA GreatestExists ==
  ASSUME NEW n \in Nat, NEW s \in SUBSET (1 .. n), s # {}
  PROVE  Max(s) \in s /\ \A m \in s : m <= Max(s)
<1> DEFINE B == {n - m : m \in s}
<1>1. B \in SUBSET Nat /\ B # {}
  <2>1. \A m \in s : m \in Int /\ n - m \in Nat
    OBVIOUS
  <2> QED
    BY <2>1
<1>2. PICK k \in B : \A m \in B : k <= m
  BY <1>1, LeastExists
<1>3. PICK x \in s : k = n - x
  BY <1>2
<1>4. \A m \in s : n - m \in B /\ m \in Nat
  <2>1. \A m \in s : m \in Nat
    OBVIOUS
  <2> QED
    BY <2>1
<1>5. \A m \in s : m <= x
  <2>1. x \in Nat
    BY <1>4
  <2> HIDE DEF B
  <2> QED
    BY <1>2, <1>3, <1>4, <2>1
<1>6. x \in s /\ \A m \in s : x >= m
  BY <1>4, <1>5
<1>7. Max(s) \in s /\ \A m \in s : Max(s) >= m
  BY <1>6 DEF Max
<1> QED
  BY <1>7

\* The fold over a batch has a result.
LEMMA FoldExists ==
  ASSUME NEW n \in Nat, NEW ranked, DOMAIN ranked = 1 .. n, NEW book
  PROVE  \E f : IsFoldOf(ranked, book, f)
<1> DEFINE D == SUBSET (1 .. n)
           Solves(f, k) == /\ f = [s \in D |-> f[s]]
                           /\ \A s \in D : Cardinality(s) <= k =>
                                f[s] = FoldOver(ranked, book, f)[s]
           Stuck == {k \in Nat : \A f : ~Solves(f, k)}
<1>0. \A s \in D : IsFiniteSet(s) /\ Cardinality(s) \in Nat /\ Cardinality(s) <= n
  <2>1. IsFiniteSet(1 .. n) /\ Cardinality(1 .. n) = n
    BY FS_Interval
  <2> QED
    BY <2>1, FS_Subset, FS_CardinalityType
<1>1. \A f : \A s \in D : FoldOver(ranked, book, f)[s] =
         IF s = {} THEN <<>>
         ELSE After(f[s \ {Max(s)}], ranked[Max(s)], ranked, book)
  BY DEF FoldOver
<1>f. \A f : FoldOver(ranked, book, f) =
               [s \in D |-> FoldOver(ranked, book, f)[s]]
  BY DEF FoldOver
<1>3. Stuck = {}
  <2>1. SUFFICES ASSUME Stuck # {} PROVE FALSE
    OBVIOUS
  <2>2. PICK k \in Stuck : \A m \in Stuck : k <= m
    BY <2>1, LeastExists
  <2>3. k # 0
    <3> DEFINE f == [s \in D |-> <<>>]
    <3>1. ASSUME NEW s \in D, Cardinality(s) <= 0
          PROVE  f[s] = FoldOver(ranked, book, f)[s]
      <4>1. s = {}
        BY <1>0, <3>1, FS_EmptySet
      <4> QED
        BY <1>1, <4>1
    <3>2. Solves(f, 0)
      BY <3>1
    <3> QED
      BY <2>2, <3>2
  <2>4. k - 1 \in Nat /\ k - 1 \notin Stuck
    <3>1. k \in Nat /\ k - 1 \in Nat /\ ~(k <= k - 1)
      BY <2>2, <2>3
    <3> HIDE DEF Stuck
    <3> QED
      BY <2>2, <3>1
  <2>5. PICK f : Solves(f, k - 1)
    BY <2>4
  <2> DEFINE g == FoldOver(ranked, book, f)
  <2>6. ASSUME NEW s \in D, Cardinality(s) <= k
        PROVE  g[s] = FoldOver(ranked, book, g)[s]
    <3>1. CASE s = {}
      BY <1>1, <3>1
    <3>2. CASE s # {}
      <4> DEFINE x == Max(s)
                 r == s \ {x}
      <4>1. x \in s
        BY <3>2, GreatestExists
      <4> HIDE DEF x
      <4>2. r \in D /\ Cardinality(r) = Cardinality(s) - 1
        BY <1>0, <4>1, FS_RemoveElement
      <4>3. Cardinality(r) <= k - 1
        BY <1>0, <2>2, <2>6, <4>2
      <4> HIDE DEF r
      <4>4. f[r] = g[r]
        BY <2>5, <4>2, <4>3
      <4>5. g[s] = After(f[r], ranked[x], ranked, book)
        BY <1>1, <3>2 DEF r, x
      <4> HIDE DEF g
      <4>6. FoldOver(ranked, book, g)[s] = After(g[r], ranked[x], ranked, book)
        BY <1>1, <3>2 DEF r, x
      <4> QED
        BY <4>4, <4>5, <4>6
    <3> QED
      BY <3>1, <3>2
  <2>7. Solves(g, k)
    BY <1>f, <2>6
  <2> QED
    BY <2>2, <2>7
<1>4. PICK f : Solves(f, n)
  BY <1>3
<1>5. f = FoldOver(ranked, book, f)
  <2>1. /\ f = [s \in D |-> f[s]]
        /\ \A s \in D : f[s] = FoldOver(ranked, book, f)[s]
    BY <1>0, <1>4
  <2> QED
    BY <1>f, <2>1
<1> QED
  BY <1>5 DEF IsFoldOf

\* Grants is the result at the whole batch of such a fold.
LEMMA GrantsAreFolded ==
  ASSUME NEW n \in Nat, NEW ranked, DOMAIN ranked = 1 .. n, NEW book
  PROVE  \E f : IsFoldOf(ranked, book, f) /\ Grants(ranked, book) = f[1 .. n]
<1> DEFINE Eq(f) == f = [s \in SUBSET DOMAIN ranked |->
             IF s = {} THEN <<>>
             ELSE LET x == Max(s)
                  IN  LET grants == f[s \ {x}]
                          t == ranked[x]
                          risk == IF t \in Strongest(ranked)
                                    THEN Granted(t, book, CycleOf(grants)) ELSE 0
                      IN  IF risk = 0 THEN grants
                          ELSE Append(grants, [trade |-> t, risk |-> risk])]
<1>1. Grants(ranked, book) = (CHOOSE f : Eq(f))[DOMAIN ranked]
  BY DEF Grants, FoldLeft, MapThenFoldSet
<1>2. ASSUME NEW f PROVE Eq(f) <=> IsFoldOf(ranked, book, f)
  BY Zenon DEF IsFoldOf, FoldOver, After
<1>3. (CHOOSE f : Eq(f)) = (CHOOSE f : IsFoldOf(ranked, book, f))
  BY <1>2, Zenon
<1>4. IsFoldOf(ranked, book, CHOOSE f : IsFoldOf(ranked, book, f))
  BY FoldExists, Zenon
<1> QED
  BY <1>1, <1>3, <1>4

\* The grants, the entries they become, those of the first k, and whether no two
\* are of one trade.
GrantRows == [trade : Trades, risk : Nat]
Granting(g) == Entry(g.trade, g.risk, g.risk)
UpTo(grants, k) == {Granting(grants[m]) : m \in 1 .. k}
Distinct(grants) ==
  \A i, j \in 1 .. Len(grants) : grants[i].trade = grants[j].trade => i = j

\* Grants of different trades are as many entries.
LEMMA EntriesOfGrants ==
  ASSUME NEW grants \in Seq(GrantRows)
  PROVE  /\ CycleOf(grants) = UpTo(grants, Len(grants))
         /\ CycleOf(grants) \in SUBSET Entries
         /\ IsFiniteSet(CycleOf(grants))
         /\ \A k \in 1 .. Len(grants) : UpTo(grants, k) \in SUBSET CycleOf(grants)
         /\ Distinct(grants) => Cardinality(CycleOf(grants)) = Len(grants)
<1> DEFINE n == Len(grants)
           f == [m \in 1 .. n |-> Granting(grants[m])]
           C == CycleOf(grants)
<1>1. n \in Nat /\ DOMAIN grants = 1 .. n /\ \A m \in 1 .. n : grants[m] \in GrantRows
  OBVIOUS
<1>2. C = UpTo(grants, n)
  BY <1>1 DEF CycleOf, UpTo, Granting, ToSet
<1>3. \A m \in 1 .. n : Granting(grants[m]) \in Entries
                        /\ Granting(grants[m]).trade = grants[m].trade
  BY <1>1 DEF GrantRows, Granting, Entry, Entries
<1>4. f \in Surjection(1 .. n, C)
  BY <1>2 DEF UpTo, Surjection
<1>5. IsFiniteSet(1 .. n) /\ Cardinality(1 .. n) = n
  <2> HIDE DEF n
  <2> QED
    BY <1>1, FS_Interval
<1>6. IsFiniteSet(C)
  BY <1>4, <1>5, FS_Surjection
<1>7. ASSUME Distinct(grants) PROVE Cardinality(C) = n
  <2>1. \A i, j \in 1 .. n : f[i] = f[j] => i = j
    BY <1>3, <1>7 DEF Distinct
  <2> HIDE DEF f, C, n
  <2>2. f \in Injection(1 .. n, C)
    BY <1>4, <2>1, Zenon DEF Injection, IsInjective, Surjection
  <2> QED
    BY <1>4, <1>5, <2>2, FS_Surjection
<1>8. C \in SUBSET Entries
  BY <1>2, <1>3 DEF UpTo
<1>9. \A k \in 1 .. n : UpTo(grants, k) \in SUBSET C
  BY <1>1, <1>2 DEF UpTo
<1> QED
  BY <1>2, <1>6, <1>7, <1>8, <1>9

\* What the decisions for the first k candidates of a batch come to.
Sound(grants, ranked, book, k) ==
  /\ grants \in Seq(GrantRows)
  /\ Len(grants) <= CyclePositions
  /\ \A i \in 1 .. Len(grants) :
       /\ \E m \in 1 .. k : grants[i].trade = ranked[m]
       /\ grants[i].trade \in Strongest(ranked)
       /\ Fits(grants[i].trade, book \cup UpTo(grants, i))
  /\ Distinct(grants)
  /\ Risk(CycleOf(grants)) <= CycleRisk

\* Before the first candidate nothing is granted.
LEMMA NothingIsSound ==
  ASSUME NEW ranked, NEW book
  PROVE  Sound(<<>>, ranked, book, 0)
<1>1. Len(<<>>) = 0 /\ <<>> \in Seq(GrantRows)
  BY EmptySeq
<1>2. CycleOf(<<>>) = {}
  BY DEF CycleOf, ToSet
<1> QED
  <2>1. 1 .. Len(<<>>) = {}
    BY <1>1
  <2>2. Distinct(<<>>)
    BY <2>1 DEF Distinct
  <2>3. Len(<<>>) <= CyclePositions /\ Risk(CycleOf(<<>>)) <= CycleRisk
    <3>1. Risk(CycleOf(<<>>)) = 0
      BY <1>2, EmptyRisk, Zenon
    <3>2. CycleRisk \in Nat /\ CyclePositions \in Nat
      BY LimitTypes
    <3>3. \A n \in Nat : 0 <= n
      OBVIOUS
    <3> QED
      BY <1>1, <3>1, <3>2, <3>3, Zenon
  <2> QED
    BY <1>1, <2>1, <2>2, <2>3 DEF Sound

\* Whatever is decided for one more candidate, the decisions stay sound.
LEMMA OneMoreIsSound ==
  ASSUME NEW n \in Nat, NEW ranked \in [1 .. n -> Trades],
         \A i, j \in 1 .. n : ranked[i] = ranked[j] => i = j,
         NEW book \in SUBSET Entries, IsFiniteSet(book),
         \A e \in book : \A i \in 1 .. n : e.trade # ranked[i],
         NEW k \in 1 .. n, NEW grants, Sound(grants, ranked, book, k - 1)
  PROVE  Sound(After(grants, ranked[k], ranked, book), ranked, book, k)
<1> DEFINE t == ranked[k]
           cycle == CycleOf(grants)
           r == Granted(t, book, cycle)
<1>1. t \in Trades
  OBVIOUS
<1>2. CASE t \notin Strongest(ranked) \/ r = 0
  <2>1. After(grants, t, ranked, book) = grants
    BY <1>2 DEF After
  <2>2. \A m \in 1 .. k - 1 : m \in 1 .. k
    OBVIOUS
  <2> QED
    BY <2>1, <2>2 DEF Sound
<1>3. CASE t \in Strongest(ranked) /\ r # 0
  <2> DEFINE g == [trade |-> t, risk |-> r]
             new == Append(grants, g)
             N == Len(grants)
  <2>1. After(grants, t, ranked, book) = new
    BY <1>3 DEF After
  <2>2. /\ grants \in Seq(GrantRows) /\ N \in Nat /\ Distinct(grants)
        /\ \A i \in 1 .. N : grants[i] \in GrantRows
    BY DEF Sound
  <2>3. \A i \in 1 .. N : grants[i].trade # t
    <3>1. SUFFICES ASSUME NEW i \in 1 .. N PROVE grants[i].trade # t
      OBVIOUS
    <3>2. PICK m \in 1 .. k - 1 : grants[i].trade = ranked[m]
      BY DEF Sound
    <3>3. m \in 1 .. n /\ m # k
      OBVIOUS
    <3> QED
      BY <3>2, <3>3
  <2>4. cycle \in SUBSET Entries /\ IsFiniteSet(cycle) /\ Cardinality(cycle) = N
        /\ cycle = UpTo(grants, N)
    BY <2>2, EntriesOfGrants
  <2>5. \A e \in book \cup cycle : e.trade # t
    <3>1. \A e \in cycle : \E i \in 1 .. N : e.trade = grants[i].trade
      <4>1. \A i \in 1 .. N : Granting(grants[i]).trade = grants[i].trade
        BY DEF Granting, Entry
      <4> HIDE DEF cycle
      <4> QED
        BY <2>4, <4>1 DEF UpTo
    <3> HIDE DEF cycle
    <3> QED
      BY <2>3, <3>1
  <2>r. r = Granted(t, book, cycle)
    OBVIOUS
  <2> HIDE DEF cycle, r, t
  <2>6. /\ r \in Nat
        /\ Fits(t, book \cup (cycle \cup {Entry(t, r, r)}))
        /\ Risk(cycle \cup {Entry(t, r, r)}) <= CycleRisk
        /\ N < CyclePositions
    <3>1. /\ r \in Nat \ {0}
          /\ Fits(t, book \cup (cycle \cup {Entry(t, r, r)}))
          /\ Risk(cycle \cup {Entry(t, r, r)}) <= CycleRisk
          /\ Cardinality(cycle) < CyclePositions
      <4>1. r # 0
        BY <1>3
      <4>2. t \in Trades /\ cycle \in SUBSET Entries /\ IsFiniteSet(cycle)
        BY <1>1, <2>4
      <4> QED
        BY <2>r, <2>5, <4>1, <4>2, GrantFits, Zenon
    <3> QED
      BY <2>4, <3>1
  <2>7. g \in GrantRows
    BY <1>1, <2>6 DEF GrantRows
  <2>8. /\ new \in Seq(GrantRows) /\ Len(new) = N + 1
        /\ \A i \in 1 .. N : new[i] = grants[i]
        /\ new[N + 1] = g
    BY <2>2, <2>7, AppendProperties
  <2>9. g.trade = t /\ Granting(g) = Entry(t, r, r)
    BY DEF Granting
  <2> HIDE DEF new, g
  <2>10. /\ \A i \in 1 .. N : UpTo(new, i) = UpTo(grants, i)
         /\ UpTo(new, N + 1) = cycle \cup {Entry(t, r, r)}
    <3>1. \A i \in 1 .. N : 1 .. i \subseteq 1 .. N
      BY <2>2
    <3>2. 1 .. N + 1 = (1 .. N) \cup {N + 1}
      BY <2>2
    <3>3. \A i \in 1 .. N : UpTo(new, i) = UpTo(grants, i)
      BY <2>8, <3>1 DEF UpTo
    <3>4. UpTo(new, N + 1) = UpTo(grants, N) \cup {Granting(g)}
      BY <2>8, <3>2 DEF UpTo
    <3> QED
      BY <2>4, <2>9, <3>3, <3>4
  <2>11. CycleOf(new) = cycle \cup {Entry(t, r, r)}
    BY <2>8, <2>10, EntriesOfGrants
  <2>12. Distinct(new)
    <3>1. SUFFICES ASSUME NEW i \in 1 .. N + 1, NEW j \in 1 .. N + 1,
                          new[i].trade = new[j].trade
                   PROVE  i = j
      BY <2>8 DEF Distinct
    <3>2. CASE i \in 1 .. N /\ j \in 1 .. N
      BY <2>2, <2>8, <3>1, <3>2 DEF Distinct
    <3>3. CASE i = N + 1 /\ j \in 1 .. N
      BY <2>3, <2>8, <2>9, <3>1, <3>3
    <3>4. CASE i \in 1 .. N /\ j = N + 1
      BY <2>3, <2>8, <2>9, <3>1, <3>4
    <3> QED
      BY <2>2, <3>2, <3>3, <3>4
  <2>13. ASSUME NEW i \in 1 .. N + 1
         PROVE  /\ \E m \in 1 .. k : new[i].trade = ranked[m]
                /\ new[i].trade \in Strongest(ranked)
                /\ Fits(new[i].trade, book \cup UpTo(new, i))
    <3>1. CASE i \in 1 .. N
      <4>1. /\ \E m \in 1 .. k - 1 : grants[i].trade = ranked[m]
            /\ grants[i].trade \in Strongest(ranked)
            /\ Fits(grants[i].trade, book \cup UpTo(grants, i))
        BY <3>1 DEF Sound
      <4>2. \A m \in 1 .. k - 1 : m \in 1 .. k
        OBVIOUS
      <4> QED
        BY <2>8, <2>10, <3>1, <4>1, <4>2
    <3>2. CASE i = N + 1
      <4>1. new[i].trade = ranked[k] /\ k \in 1 .. k
        BY <2>8, <2>9, <3>2 DEF t
      <4> QED
        BY <1>3, <2>6, <2>8, <2>9, <2>10, <3>2, <4>1
    <3> QED
      BY <2>2, <3>1, <3>2
  <2>14. Len(new) <= CyclePositions
    BY <2>2, <2>6, <2>8, LimitTypes
  <2>15. Sound(new, ranked, book, k)
    BY <2>6, <2>8, <2>11, <2>12, <2>13, <2>14 DEF Sound
  <2> QED
    BY <2>1, <2>15 DEF t
<1> QED
  BY <1>2, <1>3

\* The decisions for a whole batch.
LEMMA GrantsAreSound ==
  ASSUME NEW n \in Nat, NEW ranked \in [1 .. n -> Trades],
         \A i, j \in 1 .. n : ranked[i] = ranked[j] => i = j,
         NEW book \in SUBSET Entries, IsFiniteSet(book),
         \A e \in book : \A i \in 1 .. n : e.trade # ranked[i]
  PROVE  Sound(Grants(ranked, book), ranked, book, n)
<1>1. PICK f : IsFoldOf(ranked, book, f) /\ Grants(ranked, book) = f[1 .. n]
  BY GrantsAreFolded
<1>2. f[{}] = <<>>
  BY <1>1 DEF IsFoldOf, FoldOver
<1>3. ASSUME NEW k \in 1 .. n
      PROVE  f[1 .. k] = After(f[1 .. k - 1], ranked[k], ranked, book)
  <2>1. 1 .. k \in SUBSET (1 .. n) /\ 1 .. k # {}
    OBVIOUS
  <2>2. Max(1 .. k) \in 1 .. k /\ \A m \in 1 .. k : m <= Max(1 .. k)
    BY <2>1, GreatestExists
  <2>3. Max(1 .. k) = k
    BY <2>2
  <2>4. (1 .. k) \ {k} = 1 .. k - 1
    OBVIOUS
  <2>5. f[1 .. k] = LET x == Max(1 .. k)
                    IN  After(f[(1 .. k) \ {x}], ranked[x], ranked, book)
    BY <1>1, <2>1 DEF IsFoldOf, FoldOver
  <2> QED
    BY <2>3, <2>4, <2>5
<1> DEFINE Wrong == {k \in Nat : k <= n /\ ~Sound(f[1 .. k], ranked, book, k)}
<1>4. Wrong = {}
  <2>1. SUFFICES ASSUME Wrong # {} PROVE FALSE
    OBVIOUS
  <2>2. PICK k \in Wrong : \A m \in Wrong : k <= m
    BY <2>1, LeastExists
  <2>3. k # 0
    <3>1. 1 .. 0 = {}
      OBVIOUS
    <3> QED
      BY <1>2, <2>2, <3>1, NothingIsSound
  <2>4. k \in 1 .. n /\ k - 1 \in Nat /\ k - 1 <= n /\ ~(k <= k - 1)
    BY <2>2, <2>3
  <2>5. Sound(f[1 .. k - 1], ranked, book, k - 1)
    BY <2>2, <2>4
  <2>6. Sound(f[1 .. k], ranked, book, k)
    BY <1>3, <2>4, <2>5, OneMoreIsSound
  <2> QED
    BY <2>2, <2>6
<1> QED
  BY <1>1, <1>4

\* No two of the strongest signals are on one instrument.
LEMMA StrongestDiffer ==
  ASSUME NEW n \in Nat, NEW ranked, DOMAIN ranked = 1 .. n,
         NEW t \in Strongest(ranked), NEW u \in Strongest(ranked),
         Instrument[t] = Instrument[u]
  PROVE  t = u
<1>1. PICK i \in 1 .. n : /\ t = ranked[i]
                          /\ \A m \in 1 .. i - 1 :
                               Instrument[ranked[m]] # Instrument[ranked[i]]
  BY DEF Strongest
<1>2. PICK j \in 1 .. n : /\ u = ranked[j]
                          /\ \A m \in 1 .. j - 1 :
                               Instrument[ranked[m]] # Instrument[ranked[j]]
  BY DEF Strongest
<1>3. ~(i < j) /\ ~(j < i)
  <2>1. i < j => i \in 1 .. j - 1
    OBVIOUS
  <2>2. j < i => j \in 1 .. i - 1
    OBVIOUS
  <2> QED
    BY <1>1, <1>2, <2>1, <2>2
<1> QED
  BY <1>1, <1>2, <1>3

-----------------------------------------------------------------------------
(* The inductive invariant.                                                *)

\* What the budgets of the admission in progress rest on, beyond the types.

\* Only finitely many signals have been handled.
UsedIsFinite == IsFiniteSet({t \in Trades : intents[t].state # Absent})

\* A position has an order that was answered.
RowsAreAnswered == \A t \in Rows : intents[t].state \notin UnansweredStates

\* Before the batch is decided nothing is chosen or admitted.
NothingYet(p) ==
  calls[p].at \in {"idle", "reading"} =>
    calls[p].chosen = <<>> /\ calls[p].admitted = <<>>

\* The positions listed first: of answered orders, and, unless one was
\* recorded since, all those there are and none but what was closed since.
SeenIsFinite(p) == IsFiniteSet(calls[p].seen)
SeenAreAnswered(p) ==
  \A e \in calls[p].seen : intents[e.trade].state \notin UnansweredStates
SeenIsCurrent(p) ==
  calls[p].at = "reading" /\ ~calls[p].raced =>
    /\ Listed \subseteq calls[p].seen
    /\ \A e \in calls[p].seen :
         e.trade \in Rows \/ intents[e.trade].state = "CLOSED"

\* What is admitted was approved.
Unapproved == {Absent, "PROPOSED"}
AdmittedAreApproved(p) ==
  \A i \in 1 .. Len(calls[p].admitted) :
    intents[calls[p].admitted[i]].state \notin Unapproved

\* What is chosen is still to be decided, and the head, once PROPOSED, has the
\* risk that it was granted.
ChosenArePending(p) ==
  calls[p].at = "deciding" =>
    /\ Distinct(calls[p].chosen)
    /\ \A i \in 1 .. Len(calls[p].chosen) :
         LET grant == calls[p].chosen[i]
         IN  \/ intents[grant.trade].state = Absent
             \/ /\ i = 1
                /\ intents[grant.trade].state = "PROPOSED"
                /\ intents[grant.trade].risk = grant.risk

\* The cycle's own limits hold of what it has chosen and admitted.
CycleTrades(p) ==
  {g.trade : g \in ToSet(calls[p].chosen)} \cup ToSet(calls[p].admitted)
CycleEntries(p) ==
  CycleOf(calls[p].chosen) \cup
    {Entry(t, intents[t].risk, intents[t].risk) : t \in ToSet(calls[p].admitted)}
CycleFitsOf(p) ==
  /\ Risk(CycleEntries(p)) <= CycleRisk
  /\ Cardinality(CycleTrades(p)) <= CyclePositions
  /\ \A t, u \in CycleTrades(p) : Instrument[t] = Instrument[u] => t = u

\* Unless a position was recorded since, the book as it is fits each of them
\* with those before it.
ChosenFit(p) ==
  calls[p].at = "deciding" /\ ~calls[p].raced =>
    \A i \in 1 .. Len(calls[p].chosen) :
      Fits(calls[p].chosen[i].trade, Book(Listed) \cup UpTo(calls[p].chosen, i))

CallInv(p) ==
  /\ NothingYet(p) /\ SeenIsFinite(p) /\ SeenAreAnswered(p) /\ SeenIsCurrent(p)
  /\ AdmittedAreApproved(p) /\ ChosenArePending(p) /\ ChosenFit(p)
  /\ calls[p].at = "deciding" => CycleFitsOf(p)

BudgetInv ==
  /\ IInv /\ TypeOK /\ UsedIsFinite /\ RowsAreAnswered
  /\ \A p \in Processes : CallInv(p)

-----------------------------------------------------------------------------
(* What a step outside the admission does.                                 *)

\* The types, column by column.
LEMMA Columns ==
  ASSUME TypeOK
  PROVE  /\ \A t \in Trades :
              /\ intents[t].state \in IntentStates \cup {Absent}
              /\ intents[t].risk \in Nat /\ intents[t].linked \in BOOLEAN
              /\ positions[t].open \in BOOLEAN
              /\ positions[t].risk \in Nat /\ positions[t].size \in Nat
              /\ deals[t] \in Nat
         /\ \A p \in Processes :
              /\ calls[p].seen \in SUBSET Entries
              /\ calls[p].chosen \in Seq(GrantRows)
              /\ calls[p].admitted \in Seq(Trades)
              /\ calls[p].raced \in BOOLEAN
              /\ calls[p].at \in {"idle", "reading", "deciding", "executing"}
              /\ lock = p <=> calls[p].at \in {"reading", "deciding"}
BY DEF TypeOK, Entries, GrantRows

\* The book is of finitely many entries, whichever positions were listed.
LEMMA BookIsFinite ==
  ASSUME TypeOK, UsedIsFinite, NEW listed \in SUBSET Entries, IsFiniteSet(listed)
  PROVE  Book(listed) \in SUBSET Entries /\ IsFiniteSet(Book(listed))
<1> DEFINE X == {u \in States(RiskReservedStates) :
                   ~intents[u].linked /\ \A e \in listed : e.trade # u}
           f == [t \in X |-> Entry(t, intents[t].risk, intents[t].risk)]
<1>1. X \in SUBSET {t \in Trades : intents[t].state # Absent}
  BY DEF States, RiskReservedStates, Absent
<1>2. IsFiniteSet(X)
  BY <1>1, FS_Subset DEF UsedIsFinite
<1>3. \A t \in X : Entry(t, intents[t].risk, intents[t].risk) \in Entries
  BY Columns DEF States, Entry, Entries
<1>4. Reserved(listed) = {Entry(t, intents[t].risk, intents[t].risk) : t \in X}
  BY DEF Reserved
<1> HIDE DEF X
<1>5. f \in Surjection(X, Reserved(listed))
  BY <1>4 DEF Surjection
<1>6. IsFiniteSet(Reserved(listed))
  BY <1>2, <1>5, FS_Surjection
<1>7. Reserved(listed) \in SUBSET Entries
  BY <1>3, <1>4
<1> QED
  BY <1>6, <1>7, FS_Union DEF Book

\* So are the positions.
LEMMA ListedIsFinite ==
  ASSUME TypeOK, UsedIsFinite, RowsAreAnswered
  PROVE  Listed \in SUBSET Entries /\ IsFiniteSet(Listed)
<1> DEFINE f == [t \in Rows |-> Entry(t, positions[t].risk, positions[t].size)]
<1>1. Rows \in SUBSET {t \in Trades : intents[t].state # Absent}
  BY DEF Rows, RowsAreAnswered, UnansweredStates
<1>2. IsFiniteSet(Rows)
  BY <1>1, FS_Subset DEF UsedIsFinite
<1>3. f \in Surjection(Rows, Listed)
  BY DEF Surjection, Listed
<1>4. IsFiniteSet(Listed)
  BY <1>2, <1>3, FS_Surjection
<1>5. Listed \in SUBSET Entries
  BY Columns DEF Listed, Rows, Entry, Entries
<1> QED
  BY <1>4, <1>5

\* What a step outside the admission may do to an intent.
IntentMove(t) ==
  /\ intents'[t].risk = intents[t].risk
  /\ intents[t].state \in Unapproved => intents'[t].state = intents[t].state
  /\ intents[t].state \notin Unapproved => intents'[t].state \notin Unapproved
  /\ intents[t].state \notin UnansweredStates =>
       intents'[t].state \notin UnansweredStates
  /\ intents'[t].state \in RiskReservedStates /\ ~intents'[t].linked =>
       intents[t].state \in RiskReservedStates /\ ~intents[t].linked

\* To a position, when none is recorded.
RowMove(t) ==
  /\ \/ positions'[t] = positions[t]
     \/ positions'[t] = NoRow /\ intents'[t].state = "CLOSED"
  /\ intents[t].state = "CLOSED" => intents'[t].state = "CLOSED"

\* And to a call.
CallMove(q) ==
  \/ calls'[q] = IdleCall
  \/ /\ calls'[q].at = calls[q].at
     /\ calls'[q].seen = calls[q].seen
     /\ calls'[q].chosen = calls[q].chosen
     /\ calls[q].raced => calls'[q].raced
     /\ \/ calls'[q].admitted = calls[q].admitted
        \/ /\ calls[q].at = "executing" /\ calls[q].admitted # <<>>
           /\ calls'[q].admitted = Tail(calls[q].admitted)

\* A step outside the admission: a new position marks every admission as raced.
Background ==
  /\ \A t \in Trades : IntentMove(t)
  /\ \/ \A t \in Trades : RowMove(t)
     \/ \A q \in Processes : Admitting(q)' => calls'[q].raced
  /\ RowsAreAnswered'
  /\ \A q \in Processes : CallMove(q)

\* Without a new position the book only loses entries.
LEMMA BookShrinks ==
  ASSUME TypeOK, \A t \in Trades : IntentMove(t), \A t \in Trades : RowMove(t)
  PROVE  Listed' \subseteq Listed /\ Book(Listed)' \subseteq Book(Listed)
<1>1. \A t \in Rows' : t \in Rows /\ positions'[t] = positions[t]
  BY DEF Rows, RowMove, NoRow
<1>2. Listed' \subseteq Listed
  BY <1>1 DEF Listed, Entry
<1>3. ASSUME NEW e \in Reserved(Listed)' PROVE e \in Book(Listed)
  <2>1. PICK t \in Trades :
          /\ intents'[t].state \in RiskReservedStates
          /\ ~intents'[t].linked
          /\ \A x \in Listed' : x.trade # t
          /\ e = Entry(t, intents'[t].risk, intents'[t].risk)
    BY <1>3 DEF Reserved, States, Entry
  <2>2. /\ intents[t].state \in RiskReservedStates /\ ~intents[t].linked
        /\ intents'[t].risk = intents[t].risk
    BY <2>1 DEF IntentMove
  <2>3. t \notin Rows
    <3>1. SUFFICES ASSUME t \in Rows PROVE FALSE
      OBVIOUS
    <3>2. intents'[t].state # "CLOSED"
      BY <2>1 DEF RiskReservedStates
    <3>3. positions'[t] = positions[t]
      BY <3>2 DEF RowMove
    <3>4. Entry(t, positions'[t].risk, positions'[t].size) \in Listed'
      BY <3>1, <3>3 DEF Listed, Rows, Entry
    <3> QED
      BY <2>1, <3>4 DEF Entry
  <2>4. \A x \in Listed : x.trade # t
    BY <2>3 DEF Listed, Entry
  <2> QED
    BY <2>1, <2>2, <2>4 DEF Book, Reserved, States
<1> QED
  BY <1>2, <1>3 DEF Book

-----------------------------------------------------------------------------
(* The types.                                                              *)

\* Sequences: head, tail and members.
LEMMA SeqFacts ==
  ASSUME NEW S, NEW s \in Seq(S)
  PROVE  /\ s # <<>> => /\ Head(s) \in S /\ Head(s) = s[1] /\ Tail(s) \in Seq(S)
                        /\ Len(s) \in Nat \ {0} /\ Len(Tail(s)) = Len(s) - 1
                        /\ \A i \in 1 .. Len(s) - 1 : Tail(s)[i] = s[i + 1]
                        /\ 1 \in 1 .. Len(s)
         /\ Len(s) \in Nat /\ DOMAIN s = 1 .. Len(s)
         /\ \A i \in 1 .. Len(s) : s[i] \in S
<1>1. Len(s) \in Nat /\ DOMAIN s = 1 .. Len(s) /\ \A i \in 1 .. Len(s) : s[i] \in S
  BY LenProperties
<1>2. ASSUME s # <<>>
      PROVE  /\ Head(s) \in S /\ Head(s) = s[1] /\ Tail(s) \in Seq(S)
             /\ Len(s) \in Nat \ {0} /\ Len(Tail(s)) = Len(s) - 1
             /\ \A i \in 1 .. Len(s) - 1 : Tail(s)[i] = s[i + 1]
             /\ 1 \in 1 .. Len(s)
  <2>1. Len(s) \in Nat \ {0}
    BY <1>2, EmptySeq
  <2>2. /\ Head(s) \in S /\ Tail(s) \in Seq(S) /\ Len(Tail(s)) = Len(s) - 1
        /\ \A i \in 1 .. Len(Tail(s)) : Tail(s)[i] = s[i + 1]
    BY <1>2, HeadTailProperties
  <2>3. Head(s) = s[1]
    OBVIOUS
  <2>4. 1 \in 1 .. Len(s)
    BY <2>1
  <2> QED
    BY <2>1, <2>2, <2>3, <2>4
<1> QED
  BY <1>1, <1>2

\* A batch: unused signals, each once.
LEMMA BatchFacts ==
  ASSUME NEW batch \in Batches
  PROVE  \E n \in Nat :
           /\ batch \in [1 .. n -> Trades]
           /\ \A i \in 1 .. n : intents[batch[i]].state = Absent
           /\ \A i, j \in 1 .. n : batch[i] = batch[j] => i = j
           /\ IsFiniteSet(ToSet(batch)) /\ ToSet(batch) \in SUBSET Trades
           /\ \A t \in ToSet(batch) : intents[t].state = Absent
<1>1. PICK n \in 1 .. MaxBatch : batch \in [1 .. n -> Unused]
  BY DEF Batches
<1>2. n \in Nat
  BY LimitsAssumption
<1>3. \A i \in 1 .. n : batch[i] \in Trades /\ intents[batch[i]].state = Absent
  BY <1>1 DEF Unused, States
<1>4. Len(batch) = n
  BY <1>1, <1>2
<1>5. Cardinality(ToSet(batch)) = n
  BY <1>4 DEF Batches
<1>6. DOMAIN batch = 1 .. n
  BY <1>1
<1>7. IsFiniteSet(1 .. n) /\ Cardinality(1 .. n) = n
  BY <1>2, FS_Interval
<1>8. batch \in Surjection(1 .. n, ToSet(batch))
  BY <1>1, <1>6 DEF Surjection, ToSet
<1>9. IsFiniteSet(ToSet(batch)) /\ batch \in Injection(1 .. n, ToSet(batch))
  BY <1>5, <1>7, <1>8, FS_Surjection
<1>10. \A i, j \in 1 .. n : batch[i] = batch[j] => i = j
  BY <1>9 DEF Injection, IsInjective
<1>11. batch \in [1 .. n -> Trades]
  BY <1>1, <1>3
<1>12. \A t \in ToSet(batch) : t \in Trades /\ intents[t].state = Absent
  BY <1>3, <1>6 DEF ToSet
<1> QED
  BY <1>2, <1>3, <1>9, <1>10, <1>11, <1>12

\* The decisions of Allocate, on the two lists that the process has read.
LEMMA DecisionsAreSound ==
  ASSUME BudgetInv, NEW p \in Processes, calls[p].at = "reading",
         NEW batch \in Batches,
         NEW grants, grants = Grants(batch, Book(calls[p].seen))
  PROVE  \E n \in Nat : /\ DOMAIN batch = 1 .. n
                        /\ Sound(grants, batch, Book(calls[p].seen), n)
<1> DEFINE seen == calls[p].seen
           book == Book(seen)
<1>1. PICK n \in Nat :
        /\ batch \in [1 .. n -> Trades]
        /\ \A i \in 1 .. n : intents[batch[i]].state = Absent
        /\ \A i, j \in 1 .. n : batch[i] = batch[j] => i = j
  BY BatchFacts
<1>2. CallInv(p) /\ TypeOK /\ UsedIsFinite
  BY DEF BudgetInv
<1>3. seen \in SUBSET Entries /\ IsFiniteSet(seen)
  BY <1>2, Columns DEF CallInv, SeenIsFinite
<1>4. book \in SUBSET Entries /\ IsFiniteSet(book)
  BY <1>2, <1>3, BookIsFinite
<1>5. ASSUME NEW e \in book, NEW i \in 1 .. n PROVE e.trade # batch[i]
  <2>1. intents[e.trade].state # Absent
    <3>1. CASE e \in seen
      BY <1>2, <3>1 DEF CallInv, SeenAreAnswered, UnansweredStates
    <3>2. CASE e \in Reserved(seen)
      <4>1. PICK t \in Trades : /\ intents[t].state \in RiskReservedStates
                                /\ e.trade = t
        BY <3>2 DEF Reserved, States, Entry
      <4> QED
        BY <4>1 DEF RiskReservedStates, Absent
    <3> QED
      BY <3>1, <3>2 DEF Book
  <2> QED
    BY <1>1, <2>1
<1> HIDE DEF book
<1>6. Sound(Grants(batch, book), batch, book, n)
  BY <1>1, <1>4, <1>5, GrantsAreSound
<1> QED
  BY <1>1, <1>6 DEF book

\* The rows of the tables, and what is written to one field of a row.
IntentRows == [state : IntentStates \cup {Absent}, risk : Nat, linked : BOOLEAN]
CallRows == [at : {"idle", "reading", "deciding", "executing"},
             seen : SUBSET Entries, chosen : Seq(GrantRows),
             admitted : Seq(Trades), raced : BOOLEAN]

\* A row stays a row when a column is written.
LEMMA IntentFields ==
  ASSUME NEW r \in IntentRows
  PROVE  /\ \A s \in IntentStates : [r EXCEPT !.state = s] \in IntentRows
         /\ \A s \in IntentStates : \A n \in Nat :
              [r EXCEPT !.state = s, !.risk = n] \in IntentRows
         /\ \A s \in IntentStates : \A l \in BOOLEAN :
              [r EXCEPT !.state = s, !.linked = l] \in IntentRows
BY DEF IntentRows

LEMMA CallFields ==
  ASSUME NEW c \in CallRows
  PROVE  /\ \A g \in Seq(GrantRows) :
              /\ [c EXCEPT !.chosen = g] \in CallRows
              /\ \A a \in Seq(Trades) :
                   [c EXCEPT !.chosen = g, !.admitted = a] \in CallRows
              /\ [c EXCEPT !.at = "deciding", !.chosen = g] \in CallRows
         /\ \A a \in Seq(Trades) : [c EXCEPT !.admitted = a] \in CallRows
         /\ [c EXCEPT !.raced = TRUE] \in CallRows
         /\ \A S \in SUBSET Entries : [c EXCEPT !.at = "reading", !.seen = S] \in CallRows
         /\ [c EXCEPT !.at = "executing", !.seen = {}, !.raced = FALSE] \in CallRows
         /\ IdleCall \in CallRows
<1>1. IdleCall \in CallRows
  BY EmptySeq DEF IdleCall, CallRows
<1>2. /\ c.at \in {"idle", "reading", "deciding", "executing"}
      /\ c.seen \in SUBSET Entries /\ c.chosen \in Seq(GrantRows)
      /\ c.admitted \in Seq(Trades) /\ c.raced \in BOOLEAN
      /\ c = [at |-> c.at, seen |-> c.seen, chosen |-> c.chosen,
              admitted |-> c.admitted, raced |-> c.raced]
  BY DEF CallRows
<1>3. ASSUME NEW g \in Seq(GrantRows), NEW a \in Seq(Trades)
      PROVE  /\ [c EXCEPT !.chosen = g] \in CallRows
             /\ [c EXCEPT !.chosen = g, !.admitted = a] \in CallRows
             /\ [c EXCEPT !.at = "deciding", !.chosen = g] \in CallRows
             /\ [c EXCEPT !.admitted = a] \in CallRows
  BY <1>2 DEF CallRows
<1>4. ASSUME NEW S \in SUBSET Entries
      PROVE  [c EXCEPT !.at = "reading", !.seen = S] \in CallRows
  BY <1>2 DEF CallRows
<1>5. /\ [c EXCEPT !.raced = TRUE] \in CallRows
      /\ [c EXCEPT !.at = "executing", !.seen = {}, !.raced = FALSE] \in CallRows
  BY <1>2 DEF CallRows
<1>6. <<>> \in Seq(Trades) /\ <<>> \in Seq(GrantRows)
  BY EmptySeq
<1> QED
  BY <1>1, <1>3, <1>4, <1>5, <1>6

\* And so does a table in which a row is.
LEMMA StateWritten ==
  ASSUME intents \in [Trades -> IntentRows], NEW t, NEW s \in IntentStates,
         SetState(t, s)
  PROVE  intents' \in [Trades -> IntentRows]
<1>1. intents' = [u \in Trades |-> IF u = t THEN [intents[u] EXCEPT !.state = s]
                                   ELSE intents[u]]
  BY DEF SetState
<1>2. \A u \in Trades : intents[u] \in IntentRows
                        /\ [intents[u] EXCEPT !.state = s] \in IntentRows
  BY IntentFields
<1> QED
  BY <1>1, <1>2

LEMMA IntentWritten ==
  ASSUME intents \in [Trades -> IntentRows], NEW t, NEW r \in IntentRows,
         intents' = [intents EXCEPT ![t] = r]
  PROVE  intents' \in [Trades -> IntentRows]
OBVIOUS

LEMMA CallWritten ==
  ASSUME calls \in [Processes -> CallRows], NEW p, NEW c \in CallRows,
         calls' = [calls EXCEPT ![p] = c]
  PROVE  calls' \in [Processes -> CallRows]
OBVIOUS

\* The marks of a race leave everything else in the calls.
LEMMA RaceWritten ==
  ASSUME calls \in [Processes -> CallRows], NEW own, calls' = Race(own)
  PROVE  /\ calls' \in [Processes -> CallRows]
         /\ \A q \in Processes : \/ calls'[q] = calls[q]
                                 \/ calls'[q] = [calls[q] EXCEPT !.raced = TRUE]
<1>1. \A q \in Processes : \/ calls'[q] = calls[q]
                           \/ calls'[q] = [calls[q] EXCEPT !.raced = TRUE]
  BY DEF Race
<1>2. \A q \in Processes : calls'[q] \in CallRows
  BY <1>1, CallFields
<1>3. calls' = [q \in Processes |-> calls'[q]]
  BY DEF Race
<1> QED
  BY <1>1, <1>2, <1>3

\* Every step keeps the types.
LEMMA TypeStep == BudgetInv /\ [Next]_vars => TypeOK'
<1> SUFFICES ASSUME BudgetInv, [Next]_vars PROVE TypeOK'
  OBVIOUS
<1>0. TypeOK /\ IInv
  BY DEF BudgetInv
<1> DEFINE IntentsOK == intents \in [Trades -> IntentRows]
           PositionsOK == positions \in
             [Trades -> [open : BOOLEAN, risk : Nat, size : Nat]]
           DealsOK == deals \in [Trades -> Nat]
           LockOK == lock \in Processes \cup {NoOne}
           CallsOK == calls \in [Processes -> CallRows]
           CrashesOK == crashes \in 0 .. MaxCrashes
           Parts == IntentsOK /\ PositionsOK /\ DealsOK /\ LockOK /\ CallsOK /\ CrashesOK
<1>1. Parts
  BY <1>0 DEF TypeOK, Entries, GrantRows, IntentRows, CallRows
<1>2. AdmissionInv
  BY <1>0 DEF TypeOK, IInv, AdmissionInv, LockIsAdmission, Admitting
<1>3. LockIsAdmission'
  BY <1>2, LockStep DEF AdmissionInv
<1>4. SUFFICES Parts'
  BY <1>3 DEF TypeOK, Entries, GrantRows, IntentRows, CallRows,
              LockIsAdmission, Admitting
<1>5. ASSUME NEW p \in Processes
      PROVE  /\ calls[p] \in CallRows
             /\ calls[p].admitted \in Seq(Trades)
             /\ calls[p].admitted # <<>> =>
                  /\ Head(calls[p].admitted) \in Trades
                  /\ Tail(calls[p].admitted) \in Seq(Trades)
             /\ calls[p].chosen # <<>> =>
                  /\ Head(calls[p].chosen).trade \in Trades
                  /\ Head(calls[p].chosen).risk \in Nat
                  /\ Tail(calls[p].chosen) \in Seq(GrantRows)
  <2>1. calls[p] \in CallRows
    BY <1>1
  <2>2. calls[p].chosen \in Seq(GrantRows) /\ calls[p].admitted \in Seq(Trades)
    BY <2>1 DEF CallRows
  <2>3. calls[p].chosen # <<>> => /\ Head(calls[p].chosen) \in GrantRows
                                  /\ Tail(calls[p].chosen) \in Seq(GrantRows)
    BY <2>2, SeqFacts
  <2>4. calls[p].admitted # <<>> => /\ Head(calls[p].admitted) \in Trades
                                    /\ Tail(calls[p].admitted) \in Seq(Trades)
    BY <2>2, SeqFacts
  <2> QED
    BY <2>1, <2>2, <2>3, <2>4 DEF GrantRows
<1>6. {"REJECTED", "PROPOSED", "APPROVED", "SUBMITTED", "FILLED",
       "PARTIALLY_FILLED", "FAILED", "ACKNOWLEDGED", "POSITION_OPENED",
       "CLOSED"} \subseteq IntentStates
  BY DEF IntentStates, IntentTerminalStates, ActiveOwnershipStates
<1>d. ASSUME NEW p \in Processes, DropAdmitted(p), calls[p].admitted # <<>>
      PROVE  CallsOK'
  <2>1. [calls[p] EXCEPT !.admitted = Tail(calls[p].admitted)] \in CallRows
    BY <1>5, <1>d, CallFields
  <2>2. calls' = [calls EXCEPT ![p] =
                    [calls[p] EXCEPT !.admitted = Tail(calls[p].admitted)]]
    BY <1>d DEF DropAdmitted
  <2> QED
    BY <1>1, <2>1, <2>2, CallWritten
<1>e. ASSUME NEW p \in Processes, DropChosen(p), calls[p].chosen # <<>>
      PROVE  CallsOK'
  <2>1. [calls[p] EXCEPT !.chosen = Tail(calls[p].chosen)] \in CallRows
    BY <1>5, <1>e, CallFields
  <2>2. calls' = [calls EXCEPT ![p] =
                    [calls[p] EXCEPT !.chosen = Tail(calls[p].chosen)]]
    BY <1>e DEF DropChosen
  <2> QED
    BY <1>1, <2>1, <2>2, CallWritten
<1>7. ASSUME NEW p \in Processes, Cycle(p) PROVE Parts'
  <2>1. CASE BeginCycle(p)
    <3>1. Listed \in SUBSET Entries
      BY <1>0, ListedIsFinite DEF BudgetInv
    <3>2. [calls[p] EXCEPT !.at = "reading", !.seen = Listed] \in CallRows
      BY <1>5, <3>1, CallFields
    <3>3. calls' = [calls EXCEPT ![p] =
                      [calls[p] EXCEPT !.at = "reading", !.seen = Listed]]
      BY <2>1 DEF BeginCycle
    <3>4. CallsOK'
      BY <1>1, <3>2, <3>3, CallWritten
    <3> QED
      BY <1>1, <2>1, <3>4 DEF BeginCycle
  <2>2. CASE Allocate(p)
    <3>1. PICK batch \in Batches :
            LET grants == Grants(batch, Book(calls[p].seen))
                refused == ToSet(batch) \ {g.trade : g \in ToSet(grants)}
            IN  /\ intents' = [t \in Trades |-> IF t \in refused
                      THEN [intents[t] EXCEPT !.state = "REJECTED"]
                      ELSE intents[t]]
                /\ calls' = [calls EXCEPT ![p].at = "deciding",
                                          ![p].chosen = grants]
      BY <2>2 DEF Allocate
    <3> DEFINE grants == Grants(batch, Book(calls[p].seen))
    <3>2. grants \in Seq(GrantRows)
      BY <2>2, DecisionsAreSound DEF Sound, Allocate
    <3> HIDE DEF grants
    <3>3. calls' = [calls EXCEPT ![p] =
                      [calls[p] EXCEPT !.at = "deciding", !.chosen = grants]]
      BY <3>1 DEF grants
    <3>4. [calls[p] EXCEPT !.at = "deciding", !.chosen = grants] \in CallRows
      BY <1>5, <3>2, CallFields
    <3>5. CallsOK'
      BY <1>1, <3>3, <3>4, CallWritten
    <3>6. \A t \in Trades : /\ intents[t] \in IntentRows
                            /\ [intents[t] EXCEPT !.state = "REJECTED"] \in IntentRows
      BY <1>1, <1>6, IntentFields
    <3>7. IntentsOK'
      BY <3>1, <3>6
    <3> QED
      BY <1>1, <2>2, <3>5, <3>7 DEF Allocate
  <2>3. CASE Propose(p)
    <3> DEFINE grant == Head(calls[p].chosen)
    <3>1. calls[p].chosen # <<>>
      BY <2>3 DEF Propose, Deciding
    <3>2. CASE SetState(grant.trade, "REJECTED") /\ DropChosen(p)
      <4>1. IntentsOK' /\ CallsOK'
        BY <1>1, <1>6, <1>e, <3>1, <3>2, StateWritten
      <4> QED
        BY <1>1, <2>3, <4>1 DEF Propose
    <3>3. CASE /\ intents' = [intents EXCEPT ![grant.trade].state = "PROPOSED",
                                             ![grant.trade].risk = grant.risk]
               /\ UNCHANGED calls
      <4>1. grant.trade \in Trades /\ grant.risk \in Nat
        BY <1>5, <3>1
      <4>2. [intents[grant.trade] EXCEPT !.state = "PROPOSED",
                                         !.risk = grant.risk] \in IntentRows
        BY <1>1, <1>6, <4>1, IntentFields
      <4>3. intents' = [intents EXCEPT ![grant.trade] =
               [intents[grant.trade] EXCEPT !.state = "PROPOSED",
                                            !.risk = grant.risk]]
        BY <3>3
      <4> HIDE DEF grant
      <4>4. IntentsOK'
        BY <1>1, <4>2, <4>3, IntentWritten
      <4> QED
        BY <1>1, <2>3, <3>3, <4>4 DEF Propose
    <3> QED
      BY <2>3, <3>2, <3>3 DEF Propose
  <2>4. CASE Approve(p)
    <3> DEFINE t == Head(calls[p].chosen).trade
               more == Append(calls[p].admitted, t)
               c == [calls[p] EXCEPT !.chosen = Tail(calls[p].chosen),
                                     !.admitted = more]
    <3>1. calls[p].chosen # <<>>
      BY <2>4 DEF Approve, Deciding
    <3>2. more \in Seq(Trades)
      BY <1>5, <3>1, AppendProperties
    <3>3. calls' = [calls EXCEPT ![p] = c]
      BY <2>4 DEF Approve
    <3>4. SetState(t, "APPROVED")
      BY <2>4 DEF Approve
    <3> HIDE DEF t, more
    <3>5. c \in CallRows
      BY <1>5, <3>1, <3>2, CallFields
    <3> HIDE DEF c
    <3>6. IntentsOK' /\ CallsOK'
      BY <1>1, <1>6, <3>3, <3>4, <3>5, StateWritten, CallWritten
    <3> QED
      BY <1>1, <2>4, <3>6 DEF Approve
  <2>5. CASE Reject(p)
    <3>1. calls[p].chosen # <<>>
      BY <2>5 DEF Reject, Deciding
    <3>2. IntentsOK' /\ CallsOK'
      BY <1>1, <1>6, <1>e, <2>5, <3>1, StateWritten DEF Reject
    <3> QED
      BY <1>1, <2>5, <3>2 DEF Reject
  <2>6. CASE EndCycle(p)
    <3> DEFINE c == [calls[p] EXCEPT !.at = "executing", !.seen = {}, !.raced = FALSE]
    <3>1. calls' = [calls EXCEPT ![p] = c]
      BY <2>6 DEF EndCycle
    <3>2. c \in CallRows
      BY <1>5, CallFields
    <3> HIDE DEF c
    <3>3. CallsOK'
      BY <1>1, <3>1, <3>2, CallWritten
    <3> QED
      BY <1>1, <2>6, <3>3 DEF EndCycle
  <2> QED
    BY <1>7, <2>1, <2>2, <2>3, <2>4, <2>5, <2>6 DEF Cycle
<1>8. ASSUME NEW p \in Processes, Execute(p) PROVE Parts'
  <2>0. CASE RefuseOrder(p)
    <3>1. IntentsOK' /\ CallsOK'
      BY <1>1, <1>6, <1>d, <2>0, StateWritten DEF RefuseOrder, Executing
    <3> QED
      BY <1>1, <2>0, <3>1 DEF RefuseOrder
  <2>1. CASE Submit(p)
    <3>1. IntentsOK'
      BY <1>1, <1>6, <2>1, StateWritten DEF Submit
    <3> QED
      BY <1>1, <2>1, <3>1 DEF Submit
  <2>2. CASE Answered(p)
    <3> DEFINE t == Head(calls[p].admitted)
               risk == intents[t].risk
    <3>1. calls[p].admitted # <<>>
      BY <2>2 DEF Answered, Executing
    <3>2. t \in Trades /\ risk \in Nat
      BY <1>1, <1>5, <3>1 DEF IntentRows
    <3>3. PICK size, state :
            /\ size \in Nat
            /\ state \in {"FILLED", "PARTIALLY_FILLED", "FAILED", "ACKNOWLEDGED"}
            /\ deals' = [deals EXCEPT ![t] = size]
            /\ SetState(t, state)
      <4>1. \A extra \in Slippages : risk + extra \in Nat
        <5>1. \A extra \in Slippages : extra \in Nat
          BY TradesAssumption
        <5> HIDE DEF risk
        <5> QED
          BY <3>2, <5>1
      <4>2. \A part \in 1 .. risk - 1 : part \in Nat
        <5> HIDE DEF risk
        <5> QED
          BY <3>2
      <4> QED
        BY <2>2, <3>2, <4>1, <4>2 DEF Answered, Fill
    <3> HIDE DEF t, risk
    <3>4. IntentsOK' /\ DealsOK'
      BY <1>1, <1>6, <3>3, StateWritten
    <3>5. CallsOK'
      BY <1>1, <1>d, <2>2, <3>1 DEF Answered
    <3> QED
      BY <1>1, <2>2, <3>4, <3>5 DEF Answered
  <2>3. CASE RecordPosition(p)
    <3> DEFINE t == Head(calls[p].admitted)
    <3>1. t \in Trades
      BY <1>5, <2>3 DEF RecordPosition, Executing
    <3>2. positions' = [positions EXCEPT ![t] = RowOf(t, deals[t])]
      BY <2>3 DEF RecordPosition
    <3> HIDE DEF t
    <3>3. PositionsOK'
      BY <1>1, <3>1, <3>2 DEF RowOf
    <3>4. CallsOK'
      BY <1>1, <2>3, RaceWritten DEF RecordPosition
    <3> QED
      BY <1>1, <2>3, <3>3, <3>4 DEF RecordPosition
  <2>4. CASE LinkPosition(p)
    <3> DEFINE t == Head(calls[p].admitted)
               s == IF intents[t].state = "FILLED" THEN "POSITION_OPENED"
                    ELSE intents[t].state
               r == [intents[t] EXCEPT !.state = s, !.linked = TRUE]
    <3>1. calls[p].admitted # <<>> /\ intents[t].state \in {"FILLED", "PARTIALLY_FILLED"}
      BY <2>4 DEF LinkPosition, Executing
    <3>2. t \in Trades
      BY <1>5, <3>1
    <3>3. intents' = [intents EXCEPT ![t] = r]
      BY <2>4 DEF LinkPosition
    <3>4. s \in IntentStates
      BY <1>6, <3>1
    <3> HIDE DEF t, s
    <3>5. r \in IntentRows
      BY <1>1, <3>2, <3>4, IntentFields
    <3> HIDE DEF r
    <3>6. IntentsOK'
      BY <1>1, <3>3, <3>5, IntentWritten
    <3>7. CallsOK'
      BY <1>d, <2>4, <3>1 DEF LinkPosition
    <3> QED
      BY <1>1, <2>4, <3>6, <3>7 DEF LinkPosition
  <2>5. CASE EndCall(p)
    <3>1. IdleCall \in CallRows
      BY <1>5, CallFields
    <3>2. CallsOK'
      BY <1>1, <2>5, <3>1, CallWritten DEF EndCall
    <3> QED
      BY <1>1, <2>5, <3>2 DEF EndCall
  <2> QED
    BY <1>8, <2>0, <2>1, <2>2, <2>3, <2>4, <2>5 DEF Execute
<1>9. ASSUME NEW p \in Processes, Crash(p) PROVE Parts'
  <2>1. IdleCall \in CallRows
    BY <1>5, CallFields
  <2>2. CallsOK'
    BY <1>1, <1>9, <2>1, CallWritten DEF Crash
  <2> QED
    BY <1>1, <1>9, <2>2, LimitTypes DEF Crash
<1>10. ASSUME NEW p \in Processes, NEW t \in Trades, Close(p, t) PROVE Parts'
  <2>1. IntentsOK'
    BY <1>1, <1>6, <1>10, StateWritten DEF Close
  <2>2. PositionsOK' /\ DealsOK'
    BY <1>1, <1>10 DEF Close, NoRow
  <2> QED
    BY <1>1, <1>10, <2>1, <2>2 DEF Close
<1>11. ASSUME NEW t \in Trades, Reconcile(t) PROVE Parts'
  <2> DEFINE r == [intents[t] EXCEPT !.state = "POSITION_OPENED", !.linked = TRUE]
  <2>1. r \in IntentRows
    BY <1>1, <1>6, IntentFields
  <2>2. intents' = intents \/ intents' = [intents EXCEPT ![t] = r]
    BY <1>11 DEF Reconcile
  <2> HIDE DEF r
  <2>3. IntentsOK'
    BY <1>1, <2>1, <2>2, IntentWritten
  <2>4. PositionsOK'
    BY <1>1, <1>11 DEF Reconcile, RowOf
  <2>5. CallsOK'
    BY <1>1, <1>11, RaceWritten DEF Reconcile
  <2> QED
    BY <1>1, <1>11, <2>3, <2>4, <2>5 DEF Reconcile
<1>12. CASE UNCHANGED vars
  BY <1>1, <1>12 DEF vars
<1> QED
  BY <1>7, <1>8, <1>9, <1>10, <1>11, <1>12 DEF Next

-----------------------------------------------------------------------------
(* Steps outside the admission keep the invariant.                         *)

\* What a call holds of admission is kept by whatever leaves the call alone,
\* or moves it on outside the admission.
LEMMA UsedStaysFinite ==
  ASSUME UsedIsFinite, NEW new, IsFiniteSet(new),
         \A t \in Trades : intents[t].state = Absent /\ t \notin new =>
                             intents'[t].state = Absent
  PROVE  UsedIsFinite'
<1> DEFINE U == {t \in Trades : intents[t].state # Absent}
           V == {t \in Trades : intents'[t].state # Absent}
<1>1. IsFiniteSet(U \cup new)
  BY FS_Union DEF UsedIsFinite
<1>2. V \in SUBSET (U \cup new)
  OBVIOUS
<1> HIDE DEF U, V
<1>3. IsFiniteSet(V)
  BY <1>1, <1>2, FS_Subset
<1> QED
  BY <1>3 DEF V, UsedIsFinite

\* States only move forward: past the approval, and past the answer.
Forward ==
  \A t \in Trades :
    /\ intents[t].state \notin Unapproved => intents'[t].state \notin Unapproved
    /\ intents[t].state \notin UnansweredStates =>
         intents'[t].state \notin UnansweredStates

\* A process that is not admitting keeps what is known of its call while the
\* intents only move on.
LEMMA OtherCallsKeep ==
  ASSUME BudgetInv, Forward, NEW q \in Processes, calls'[q] = calls[q],
         ~Admitting(q)
  PROVE  CallInv(q)'
<1>1. CallInv(q) /\ TypeOK
  BY DEF BudgetInv
<1>2. \A e \in calls[q].seen : e.trade \in Trades
  BY <1>1, Columns DEF Entries
<1>3. \A i \in 1 .. Len(calls[q].admitted) : calls[q].admitted[i] \in Trades
  <2>1. calls[q].admitted \in Seq(Trades)
    BY <1>1, Columns
  <2> QED
    BY <2>1, SeqFacts
<1>4. (NothingYet(q) /\ SeenIsFinite(q))'
  BY <1>1 DEF CallInv, NothingYet, SeenIsFinite
<1>5. SeenAreAnswered(q)'
  BY <1>1, <1>2 DEF CallInv, SeenAreAnswered, Forward
<1>6. AdmittedAreApproved(q)'
  BY <1>1, <1>3 DEF CallInv, AdmittedAreApproved, Forward
<1>7. ~Admitting(q)'
  BY DEF Admitting
<1>8. (SeenIsCurrent(q) /\ ChosenArePending(q) /\ ChosenFit(q))'
      /\ ~(calls[q].at = "deciding")'
  BY <1>7 DEF Admitting, SeenIsCurrent, ChosenArePending, ChosenFit
<1> QED
  BY <1>4, <1>5, <1>6, <1>8 DEF CallInv

\* The cycle's limits depend on what is chosen and admitted and on the risk of
\* the latter.
LEMMA CycleFitsKept ==
  ASSUME NEW q \in Processes, TypeOK, CycleFitsOf(q),
         calls'[q].chosen = calls[q].chosen,
         calls'[q].admitted = calls[q].admitted,
         \A t \in ToSet(calls[q].admitted) : intents'[t].risk = intents[t].risk
  PROVE  CycleFitsOf(q)'
<1>1. {Entry(t, intents'[t].risk, intents'[t].risk) : t \in ToSet(calls[q].admitted)}
      = {Entry(t, intents[t].risk, intents[t].risk) : t \in ToSet(calls[q].admitted)}
  OBVIOUS
<1> QED
  BY <1>1 DEF CycleFitsOf, CycleTrades, CycleEntries

\* A step outside the admission breaks nothing its budgets rest on.
LEMMA BackgroundKeeps ==
  ASSUME BudgetInv, Background, TypeOK'
  PROVE  UsedIsFinite' /\ RowsAreAnswered' /\ \A q \in Processes : CallInv(q)'
<1>0. TypeOK /\ UsedIsFinite /\ RowsAreAnswered
  BY DEF BudgetInv
<1>1. Forward
  BY DEF Background, IntentMove, Forward
<1>2. UsedIsFinite'
  BY <1>0, UsedStaysFinite, FS_EmptySet DEF Background, IntentMove, Unapproved
<1>3. ASSUME NEW q \in Processes PROVE CallInv(q)'
  <2>1. CallInv(q)
    BY DEF BudgetInv
  <2>2. CASE calls'[q] = IdleCall
    <3>1. /\ calls'[q].at = "idle" /\ calls'[q].seen = {}
          /\ calls'[q].chosen = <<>> /\ calls'[q].admitted = <<>>
      BY <2>2 DEF IdleCall
    <3>2. Len(<<>>) = 0 /\ 1 .. 0 = {}
      OBVIOUS
    <3>3. AdmittedAreApproved(q)'
      BY <3>1, <3>2 DEF AdmittedAreApproved
    <3> QED
      BY <3>1, <3>3, FS_EmptySet
      DEF CallInv, NothingYet, SeenIsFinite, SeenAreAnswered, SeenIsCurrent,
          ChosenArePending, ChosenFit
  <2>3. CASE /\ calls'[q].at = calls[q].at
             /\ calls'[q].seen = calls[q].seen
             /\ calls'[q].chosen = calls[q].chosen
             /\ calls[q].raced => calls'[q].raced
             /\ \/ calls'[q].admitted = calls[q].admitted
                \/ /\ calls[q].at = "executing" /\ calls[q].admitted # <<>>
                   /\ calls'[q].admitted = Tail(calls[q].admitted)
    <3>1. /\ calls[q].seen \in SUBSET Entries
          /\ calls[q].chosen \in Seq(GrantRows)
          /\ calls[q].admitted \in Seq(Trades)
          /\ calls[q].raced \in BOOLEAN
      BY <1>0, Columns
    <3>2. (NothingYet(q) /\ SeenIsFinite(q))'
      BY <2>1, <2>3 DEF CallInv, NothingYet, SeenIsFinite
    <3>3. SeenAreAnswered(q)'
      BY <1>1, <2>1, <2>3, <3>1 DEF CallInv, SeenAreAnswered, Forward, Entries
    <3>4. AdmittedAreApproved(q)'
      <4>1. \A i \in 1 .. Len(calls[q].admitted) :
              /\ calls[q].admitted[i] \in Trades
              /\ intents'[calls[q].admitted[i]].state \notin Unapproved
        BY <1>1, <2>1, <3>1, SeqFacts DEF CallInv, AdmittedAreApproved, Forward
      <4>2. CASE calls'[q].admitted = calls[q].admitted
        BY <4>1, <4>2 DEF AdmittedAreApproved
      <4>3. CASE /\ calls[q].admitted # <<>>
                 /\ calls'[q].admitted = Tail(calls[q].admitted)
        <5> DEFINE a == calls[q].admitted
        <5>1. /\ Len(a) \in Nat \ {0} /\ Len(Tail(a)) = Len(a) - 1
              /\ \A i \in 1 .. Len(a) - 1 : Tail(a)[i] = a[i + 1]
          BY <3>1, <4>3, SeqFacts
        <5>2. \A i \in 1 .. Len(a) - 1 : i + 1 \in 1 .. Len(a)
          BY <5>1
        <5>3. \A i \in 1 .. Len(Tail(a)) : intents'[Tail(a)[i]].state \notin Unapproved
          BY <4>1, <5>1, <5>2
        <5> QED
          BY <4>3, <5>3 DEF AdmittedAreApproved
      <4> QED
        BY <2>3, <4>2, <4>3
    <3>5. CASE ~Admitting(q)
      <4>1. (SeenIsCurrent(q) /\ ChosenArePending(q) /\ ChosenFit(q))'
            /\ ~(calls[q].at = "deciding")'
        BY <2>3, <3>5 DEF Admitting, SeenIsCurrent, ChosenArePending, ChosenFit
      <4> QED
        BY <3>2, <3>3, <3>4, <4>1 DEF CallInv
    <3>6. CASE Admitting(q)
      <4>0. Admitting(q)' /\ calls'[q].admitted = calls[q].admitted
        BY <2>3, <3>6 DEF Admitting
      <4>1. \/ calls'[q].raced
            \/ /\ ~calls[q].raced
               /\ Listed' \subseteq Listed
               /\ Book(Listed)' \subseteq Book(Listed)
               /\ \A t \in Trades : RowMove(t)
        BY <1>0, <2>3, <4>0, BookShrinks DEF Background
      <4>2. SeenIsCurrent(q)'
        <5>1. SUFFICES ASSUME calls'[q].at = "reading", ~calls'[q].raced
                       PROVE  /\ Listed' \subseteq calls'[q].seen
                              /\ \A e \in calls'[q].seen :
                                   e.trade \in Rows' \/ intents'[e.trade].state = "CLOSED"
          BY DEF SeenIsCurrent
        <5>2. /\ Listed \subseteq calls[q].seen
              /\ \A e \in calls[q].seen :
                   e.trade \in Rows \/ intents[e.trade].state = "CLOSED"
          BY <2>1, <2>3, <4>1, <5>1 DEF CallInv, SeenIsCurrent
        <5>3. \A t \in Trades : t \in Rows => t \in Rows' \/ intents'[t].state = "CLOSED"
          BY <4>1, <5>1 DEF RowMove, Rows
        <5>4. \A t \in Trades : intents[t].state = "CLOSED" => intents'[t].state = "CLOSED"
          BY <4>1, <5>1 DEF RowMove
        <5>5. \A e \in calls[q].seen : e.trade \in Trades
          BY <3>1 DEF Entries
        <5> QED
          BY <2>3, <4>1, <5>1, <5>2, <5>3, <5>4, <5>5
      <4>3. ASSUME calls[q].at = "deciding"
            PROVE  /\ Distinct(calls[q].chosen)
                   /\ \A i \in 1 .. Len(calls[q].chosen) :
                        /\ calls[q].chosen[i].trade \in Trades
                        /\ LET grant == calls[q].chosen[i]
                           IN  \/ intents[grant.trade].state = Absent
                               \/ /\ i = 1
                                  /\ intents[grant.trade].state = "PROPOSED"
                                  /\ intents[grant.trade].risk = grant.risk
        <5>1. \A i \in 1 .. Len(calls[q].chosen) : calls[q].chosen[i].trade \in Trades
          <6>1. \A i \in 1 .. Len(calls[q].chosen) : calls[q].chosen[i] \in GrantRows
            BY <3>1, SeqFacts
          <6> QED
            BY <6>1 DEF GrantRows
        <5> QED
          BY <2>1, <4>3, <5>1 DEF CallInv, ChosenArePending
      <4>4. ChosenArePending(q)'
        <5>1. \A t \in Trades : intents[t].state \in Unapproved =>
                /\ intents'[t].state = intents[t].state
                /\ intents'[t].risk = intents[t].risk
          BY DEF Background, IntentMove
        <5> QED
          BY <2>3, <4>3, <5>1 DEF ChosenArePending, Unapproved
      <4>5. ChosenFit(q)'
        <5>1. SUFFICES ASSUME calls'[q].at = "deciding", ~calls'[q].raced,
                              NEW i \in 1 .. Len(calls'[q].chosen)
                       PROVE  Fits(calls'[q].chosen[i].trade,
                                   Book(Listed)' \cup UpTo(calls'[q].chosen, i))
          BY DEF ChosenFit
        <5> DEFINE B == Book(Listed)
                   C == UpTo(calls[q].chosen, i)
                   t == calls[q].chosen[i].trade
        <5>2. Fits(t, B \cup C)
          BY <2>1, <2>3, <4>1, <5>1 DEF CallInv, ChosenFit
        <5>3. t \in Trades /\ i \in 1 .. Len(calls[q].chosen)
          BY <2>3, <4>3, <5>1
        <5>4. B \in SUBSET Entries /\ IsFiniteSet(B)
          BY <1>0, ListedIsFinite, BookIsFinite
        <5>5. C \in SUBSET Entries /\ IsFiniteSet(C)
          BY <3>1, <5>3, EntriesOfGrants, FS_Subset
        <5>6. Book(Listed)' \subseteq B
          BY <4>1, <5>1
        <5> HIDE DEF B, C, t
        <5>7. B \cup C \in SUBSET Entries /\ IsFiniteSet(B \cup C)
          BY <5>4, <5>5, FS_Union
        <5>8. Fits(t, Book(Listed)' \cup C)
          BY <5>2, <5>3, <5>6, <5>7, FitsLess
        <5> QED
          BY <2>3, <5>8 DEF C, t
      <4>6. calls'[q].at = "deciding" => CycleFitsOf(q)'
        <5>1. SUFFICES ASSUME calls[q].at = "deciding" PROVE CycleFitsOf(q)'
          BY <2>3
        <5>2. \A t \in ToSet(calls[q].admitted) : intents'[t].risk = intents[t].risk
          <6>1. \A t \in ToSet(calls[q].admitted) : t \in Trades
            BY <3>1, SeqFacts DEF ToSet
          <6> QED
            BY <6>1 DEF Background, IntentMove
        <5> QED
          BY <1>0, <2>1, <2>3, <4>0, <5>1, <5>2, CycleFitsKept DEF CallInv
      <4> QED
        BY <3>2, <3>3, <3>4, <4>2, <4>4, <4>5, <4>6 DEF CallInv
    <3> QED
      BY <3>5, <3>6
  <2> QED
    BY <2>2, <2>3 DEF Background, CallMove
<1> QED
  BY <1>2, <1>3 DEF Background

\* One intent moves from one state to another.
LEMMA StateMove ==
  ASSUME Shape, NEW t, NEW s, SetState(t, s),
         t \in Trades => /\ intents[t].state \notin Unapproved
                         /\ s \notin Unapproved
                         /\ intents[t].state \notin UnansweredStates =>
                              s \notin UnansweredStates
                         /\ s \in RiskReservedStates =>
                              intents[t].state \in RiskReservedStates
  PROVE  /\ \A u \in Trades : IntentMove(u)
         /\ \A u \in Trades : intents'[u].state = IF u = t THEN s
                                                  ELSE intents[u].state
<1>1. \A u \in Trades : intents'[u] = IF u = t THEN [intents[u] EXCEPT !.state = s]
                                      ELSE intents[u]
  BY DEF SetState, Shape
<1>2. \A u \in Trades : DOMAIN intents[u] = {"state", "risk", "linked"}
  BY DEF Shape
<1>3. ASSUME NEW u \in Trades PROVE IntentMove(u)
  BY <1>1, <1>2 DEF IntentMove
<1>4. \A u \in Trades : intents'[u].state = IF u = t THEN s ELSE intents[u].state
  BY <1>1, <1>2
<1> QED
  BY <1>3, <1>4

\* An intent that is left alone has made such a move.
LEMMA StillMoves ==
  ASSUME UNCHANGED intents
  PROVE  \A t \in Trades : IntentMove(t)
BY DEF IntentMove

\* Only an answered order gets a position.
LEMMA RowsKept ==
  ASSUME RowsAreAnswered, \A t \in Trades : IntentMove(t),
         \A t \in Trades : positions'[t].open =>
           positions[t].open \/ intents'[t].state \notin UnansweredStates
  PROVE  RowsAreAnswered'
BY DEF RowsAreAnswered, Rows, IntentMove

\* The intents that are being executed, and the closed ones that are not.
ClosedStay == \A t \in Trades : intents[t].state = "CLOSED" => intents'[t].state = "CLOSED"

\* A position that is left alone has made such a move.
LEMMA QuietRows ==
  ASSUME UNCHANGED positions, ClosedStay
  PROVE  \A t \in Trades : RowMove(t)
BY DEF RowMove, ClosedStay

\* What executes an order is no part of an admission.
LEMMA ExecuteIsBackground ==
  ASSUME BudgetInv, NEW p \in Processes, Execute(p)
  PROVE  Background
<1> DEFINE t == Head(calls[p].admitted)
<1>0. Shape /\ RowsAreAnswered /\ TypeOK
  BY DEF BudgetInv, IInv
<1> USE DEF Unapproved, UnansweredStates, RiskReservedStates, Absent
<1>c. ASSUME UNCHANGED calls PROVE \A q \in Processes : CallMove(q)
  BY <1>c DEF CallMove
<1>d. ASSUME calls[p].at = "executing", calls[p].admitted # <<>>, DropAdmitted(p)
      PROVE  \A q \in Processes : CallMove(q)
  BY <1>0, <1>d DEF CallMove, DropAdmitted, Shape
<1>1. CASE RefuseOrder(p)
  <2>1. /\ SetState(t, "FAILED") /\ intents[t].state = "APPROVED"
        /\ UNCHANGED positions /\ \A q \in Processes : CallMove(q)
    BY <1>1, <1>d DEF RefuseOrder, Executing
  <2> HIDE DEF t
  <2>2. (\A u \in Trades : IntentMove(u)) /\ ClosedStay
    BY <1>0, <2>1, StateMove DEF ClosedStay
  <2> QED
    BY <1>0, <2>1, <2>2, QuietRows, RowsKept DEF Background
<1>2. CASE Submit(p)
  <2>1. /\ SetState(t, "SUBMITTED") /\ intents[t].state = "APPROVED"
        /\ UNCHANGED positions /\ \A q \in Processes : CallMove(q)
    BY <1>2, <1>c DEF Submit, Executing
  <2> HIDE DEF t
  <2>2. (\A u \in Trades : IntentMove(u)) /\ ClosedStay
    BY <1>0, <2>1, StateMove DEF ClosedStay
  <2> QED
    BY <1>0, <2>1, <2>2, QuietRows, RowsKept DEF Background
<1>3. CASE Answered(p)
  <2>1. /\ intents[t].state = "SUBMITTED"
        /\ UNCHANGED positions /\ \A q \in Processes : CallMove(q)
    BY <1>3, <1>c, <1>d DEF Answered, Executing
  <2>2. PICK s \in {"FILLED", "PARTIALLY_FILLED", "FAILED", "ACKNOWLEDGED"} :
          SetState(t, s)
    BY <1>3 DEF Answered, Fill
  <2> HIDE DEF t
  <2>3. (\A u \in Trades : IntentMove(u)) /\ ClosedStay
    BY <1>0, <2>1, <2>2, StateMove DEF ClosedStay
  <2> QED
    BY <1>0, <2>1, <2>3, QuietRows, RowsKept DEF Background
<1>4. CASE RecordPosition(p)
  <2>1. /\ intents[t].state \in {"FILLED", "PARTIALLY_FILLED"}
        /\ positions' = [positions EXCEPT ![t] = RowOf(t, deals[t])]
        /\ UNCHANGED intents /\ calls' = Race({p}) /\ calls[p].at = "executing"
    BY <1>4 DEF RecordPosition, Executing
  <2> HIDE DEF t
  <2>2. \A u \in Trades : positions'[u].open =>
          positions[u].open \/ intents'[u].state \notin UnansweredStates
    BY <1>0, <2>1 DEF Shape
  <2>3. RowsAreAnswered' /\ \A u \in Trades : IntentMove(u)
    BY <1>0, <2>1, <2>2, RowsKept, StillMoves
  <2>4. ASSUME NEW q \in Processes
        PROVE  CallMove(q) /\ (Admitting(q)' => calls'[q].raced)
    <3>1. CASE q # p /\ Admitting(q)
      <4>1. calls'[q] = [calls[q] EXCEPT !.raced = TRUE]
        BY <2>1, <3>1 DEF Race, Admitting
      <4> QED
        BY <1>0, <4>1 DEF CallMove, Shape
    <3>2. CASE ~(q # p /\ Admitting(q))
      <4>1. calls'[q] = calls[q]
        BY <2>1, <3>2 DEF Race, Admitting
      <4>2. ~Admitting(q)
        BY <2>1, <3>2 DEF Admitting
      <4> QED
        BY <4>1, <4>2 DEF CallMove, Admitting
    <3> QED
      BY <3>1, <3>2
  <2> QED
    BY <2>3, <2>4 DEF Background
<1>5. CASE LinkPosition(p)
  <2>1. /\ intents[t].state \in {"FILLED", "PARTIALLY_FILLED"}
        /\ UNCHANGED positions /\ \A q \in Processes : CallMove(q)
        /\ intents' = [intents EXCEPT
              ![t].state = IF @ = "FILLED" THEN "POSITION_OPENED" ELSE @,
              ![t].linked = TRUE]
    BY <1>5, <1>d DEF LinkPosition, Executing
  <2> HIDE DEF t
  <2>2. \A u \in Trades : u # t => intents'[u] = intents[u]
    BY <1>0, <2>1 DEF Shape
  <2>3. t \in Trades => /\ intents'[t].state \in {"POSITION_OPENED", "PARTIALLY_FILLED"}
                        /\ intents'[t].linked
                        /\ intents'[t].risk = intents[t].risk
    BY <1>0, <2>1 DEF Shape
  <2>4. (\A u \in Trades : IntentMove(u)) /\ ClosedStay
    BY <2>1, <2>2, <2>3 DEF IntentMove, ClosedStay
  <2> QED
    BY <1>0, <2>1, <2>4, QuietRows, RowsKept DEF Background
<1>6. CASE EndCall(p)
  <2>1. \A q \in Processes : CallMove(q)
    BY <1>0, <1>6 DEF EndCall, CallMove, Shape
  <2>2. UNCHANGED <<intents, positions>>
    BY <1>6 DEF EndCall
  <2>3. \A u \in Trades : IntentMove(u) /\ RowMove(u)
    BY <2>2, StillMoves DEF RowMove
  <2> QED
    BY <1>0, <2>1, <2>2, <2>3, RowsKept DEF Background
<1> QED
  BY <1>1, <1>2, <1>3, <1>4, <1>5, <1>6 DEF Execute

\* Nor are closes, crashes and reconciliations.
LEMMA OthersAreBackground ==
  ASSUME BudgetInv,
         \/ \E p \in Processes : Crash(p)
         \/ \E p \in Processes, t \in Trades : Close(p, t)
         \/ \E t \in Trades : Reconcile(t)
         \/ UNCHANGED vars
  PROVE  Background
<1>0. Shape /\ RowsAreAnswered /\ TypeOK /\ UnansweredHasNothing
  BY DEF BudgetInv, IInv
<1> USE DEF Unapproved, UnansweredStates, RiskReservedStates, Absent
<1>1. ASSUME NEW p \in Processes, Crash(p) PROVE Background
  <2>1. \A q \in Processes : CallMove(q)
    BY <1>0, <1>1 DEF Crash, CallMove, Shape
  <2>2. UNCHANGED <<intents, positions>>
    BY <1>1 DEF Crash
  <2>3. \A u \in Trades : IntentMove(u) /\ RowMove(u)
    BY <2>2, StillMoves DEF RowMove
  <2> QED
    BY <1>0, <2>1, <2>2, <2>3, RowsKept DEF Background
<1>2. ASSUME NEW p \in Processes, NEW t \in Trades, Close(p, t) PROVE Background
  <2>1. /\ SetState(t, "CLOSED") /\ UNCHANGED calls
        /\ t \in Rows
        /\ positions' = [positions EXCEPT ![t] = NoRow]
    BY <1>2 DEF Close
  <2>2. intents[t].state \notin UnansweredStates
    BY <1>0, <2>1 DEF RowsAreAnswered
  <2>3. /\ \A u \in Trades : IntentMove(u)
        /\ \A u \in Trades : intents'[u].state = IF u = t THEN "CLOSED"
                                                 ELSE intents[u].state
    BY <1>0, <2>1, <2>2, StateMove
  <2>4. \A u \in Trades : RowMove(u)
    BY <1>0, <2>1, <2>3 DEF RowMove, Shape
  <2>5. \A u \in Trades : positions'[u].open => positions[u].open
    BY <1>0, <2>1 DEF NoRow, Shape
  <2>6. \A q \in Processes : CallMove(q)
    BY <2>1 DEF CallMove
  <2> QED
    BY <1>0, <2>3, <2>4, <2>5, <2>6, RowsKept DEF Background
<1>3. ASSUME NEW t \in Trades, Reconcile(t) PROVE Background
  <2>1. /\ deals[t] > 0
        /\ positions' = [positions EXCEPT ![t] = RowOf(t, 0)]
        /\ calls' = Race({})
        /\ \/ intents' = intents
           \/ intents' = [intents EXCEPT ![t].state = "POSITION_OPENED",
                                         ![t].linked = TRUE]
    BY <1>3 DEF Reconcile
  <2>2. intents[t].state \notin UnansweredStates
    <3>1. deals[t] # 0
      BY <1>0, <2>1, Columns
    <3> QED
      BY <1>0, <3>1 DEF UnansweredHasNothing
  <2>3. \A u \in Trades : u # t => intents'[u] = intents[u]
    BY <1>0, <2>1 DEF Shape
  <2>4. \/ intents'[t] = intents[t]
        \/ /\ intents'[t].state = "POSITION_OPENED" /\ intents'[t].linked
           /\ intents'[t].risk = intents[t].risk
    BY <1>0, <2>1 DEF Shape
  <2>5. \A u \in Trades : IntentMove(u)
    BY <2>2, <2>3, <2>4 DEF IntentMove
  <2>6. \A u \in Trades : positions'[u].open =>
          positions[u].open \/ intents'[u].state \notin UnansweredStates
    BY <1>0, <2>1, <2>2, <2>5 DEF Shape, IntentMove
  <2>7. ASSUME NEW q \in Processes
        PROVE  CallMove(q) /\ (Admitting(q)' => calls'[q].raced)
    <3>1. CASE Admitting(q)
      <4>1. calls'[q] = [calls[q] EXCEPT !.raced = TRUE]
        BY <2>1, <3>1 DEF Race, Admitting
      <4> QED
        BY <1>0, <4>1 DEF CallMove, Shape
    <3>2. CASE ~Admitting(q)
      <4>1. calls'[q] = calls[q]
        BY <2>1, <3>2 DEF Race, Admitting
      <4> QED
        BY <3>2, <4>1 DEF CallMove, Admitting
    <3> QED
      BY <3>1, <3>2
  <2> QED
    BY <1>0, <2>5, <2>6, <2>7, RowsKept DEF Background
<1>4. CASE UNCHANGED vars
  <2>1. UNCHANGED <<intents, positions, calls>>
    BY <1>4 DEF vars
  <2>2. \A u \in Trades : IntentMove(u) /\ RowMove(u)
    BY <2>1, StillMoves DEF RowMove
  <2> QED
    BY <1>0, <2>1, <2>2, RowsKept DEF Background, CallMove
<1> QED
  BY <1>1, <1>2, <1>3, <1>4

-----------------------------------------------------------------------------
(* Steps of the admission keep it.                                         *)

\* Without a change of the positions the book gains only what is newly reserved.
LEMMA BookGains ==
  ASSUME UNCHANGED positions, NEW E,
         \A t \in Trades :
           intents'[t].state \in RiskReservedStates /\ ~intents'[t].linked =>
             \/ /\ intents[t].state \in RiskReservedStates
                /\ ~intents[t].linked /\ intents'[t].risk = intents[t].risk
             \/ Entry(t, intents'[t].risk, intents'[t].risk) \in E
  PROVE  Listed' = Listed /\ Book(Listed)' \subseteq Book(Listed) \cup E
<1>1. Listed' = Listed
  BY DEF Listed, Rows, Entry
<1>2. ASSUME NEW e \in Reserved(Listed)' PROVE e \in Reserved(Listed) \cup E
  <2>1. PICK t \in Trades :
          /\ intents'[t].state \in RiskReservedStates
          /\ ~intents'[t].linked
          /\ \A x \in Listed' : x.trade # t
          /\ e = Entry(t, intents'[t].risk, intents'[t].risk)
    BY <1>2 DEF Reserved, States, Entry
  <2> QED
    BY <1>1, <2>1 DEF Reserved, States
<1> QED
  BY <1>1, <1>2 DEF Book

\* The rest of the grants, without the first.
LEMMA RestOfGrants ==
  ASSUME NEW g \in Seq(GrantRows), g # <<>>
  PROVE  /\ Head(g) = g[1] /\ 1 \in 1 .. Len(g) /\ g[1] \in GrantRows
         /\ Tail(g) \in Seq(GrantRows)
         /\ \A i \in 1 .. Len(Tail(g)) :
              /\ i + 1 \in 1 .. Len(g) /\ i + 1 # 1 /\ Tail(g)[i] = g[i + 1]
              /\ UpTo(g, i + 1) = {Granting(Head(g))} \cup UpTo(Tail(g), i)
         /\ Distinct(g) => Distinct(Tail(g))
         /\ ToSet(g) = {Head(g)} \cup ToSet(Tail(g))
         /\ CycleOf(g) = {Granting(Head(g))} \cup CycleOf(Tail(g))
         /\ UpTo(g, 1) = {Granting(Head(g))}
<1> DEFINE n == Len(g)
           r == Tail(g)
<1>1. /\ Head(g) = g[1] /\ 1 \in 1 .. n /\ g[1] \in GrantRows
      /\ r \in Seq(GrantRows) /\ n \in Nat \ {0} /\ Len(r) = n - 1
      /\ \A i \in 1 .. n - 1 : r[i] = g[i + 1]
      /\ DOMAIN g = 1 .. n
  BY SeqFacts
<1>2. DOMAIN r = 1 .. n - 1
  BY <1>1, SeqFacts
<1> HIDE DEF r, n
<1>3. 1 .. n = {1} \cup {i + 1 : i \in 1 .. n - 1}
  <2>1. \A k \in 1 .. n : k = 1 \/ (k - 1 \in 1 .. n - 1 /\ k = (k - 1) + 1)
    BY <1>1
  <2>2. \A i \in 1 .. n - 1 : i + 1 \in 1 .. n /\ i + 1 # 1
    BY <1>1
  <2> QED
    BY <1>1, <2>1, <2>2
<1>4. ASSUME NEW i \in 1 .. n - 1
      PROVE  /\ i + 1 \in 1 .. n /\ i + 1 # 1 /\ r[i] = g[i + 1]
             /\ UpTo(g, i + 1) = {Granting(g[1])} \cup UpTo(r, i)
  <2>1. i + 1 \in 1 .. n /\ i + 1 # 1 /\ i \in Nat /\ i >= 1
    BY <1>1
  <2>2. /\ \A k \in 1 .. i + 1 : k = 1 \/ (k - 1 \in 1 .. i /\ k = (k - 1) + 1)
        /\ 1 \in 1 .. i + 1
        /\ \A k \in 1 .. i : k + 1 \in 1 .. i + 1 /\ k \in 1 .. n - 1
    BY <1>1, <2>1
  <2>3. \A k \in 1 .. i : r[k] = g[k + 1]
    BY <1>1, <2>2
  <2>4. UpTo(g, i + 1) = {Granting(g[1])} \cup {Granting(g[k + 1]) : k \in 1 .. i}
    BY <2>2 DEF UpTo
  <2>5. UpTo(r, i) = {Granting(g[k + 1]) : k \in 1 .. i}
    BY <2>3 DEF UpTo
  <2> QED
    BY <1>1, <2>1, <2>4, <2>5
<1>5. ToSet(g) = {g[1]} \cup ToSet(r)
  <2>1. ToSet(g) = {g[k] : k \in 1 .. n} /\ ToSet(r) = {r[i] : i \in 1 .. n - 1}
    BY <1>1, <1>2 DEF ToSet
  <2>2. ASSUME NEW x
        PROVE  (\E k \in 1 .. n : x = g[k]) <=>
                 (x = g[1] \/ \E i \in 1 .. n - 1 : x = g[i + 1])
    BY <1>1, <1>3
  <2>3. ASSUME NEW x
        PROVE  x \in ToSet(r) <=> \E i \in 1 .. n - 1 : x = g[i + 1]
    BY <1>1, <2>1
  <2>4. ASSUME NEW x PROVE x \in ToSet(g) <=> x = g[1] \/ x \in ToSet(r)
    BY <2>1, <2>2, <2>3
  <2> QED
    BY <2>4
<1>6. CycleOf(g) = {Granting(g[1])} \cup CycleOf(r)
  BY <1>5 DEF CycleOf, Granting
<1>7. Distinct(g) => Distinct(r)
  <2>1. \A i, j \in 1 .. n - 1 : i + 1 = j + 1 => i = j
    BY <1>1
  <2> QED
    BY <1>1, <1>4, <2>1 DEF Distinct, n
<1>8. UpTo(g, 1) = {Granting(g[1])}
  BY DEF UpTo
<1> QED
  BY <1>1, <1>4, <1>5, <1>6, <1>7, <1>8 DEF r, n

\* A sequence has finitely many elements, no more than its length.
LEMMA ElementsAreFinite ==
  ASSUME NEW S, NEW s \in Seq(S)
  PROVE  /\ IsFiniteSet(ToSet(s)) /\ ToSet(s) \in SUBSET S
         /\ Cardinality(ToSet(s)) <= Len(s)
<1>1. Len(s) \in Nat /\ DOMAIN s = 1 .. Len(s) /\ s \in [1 .. Len(s) -> S]
  BY LenProperties
<1>2. IsFiniteSet(1 .. Len(s)) /\ Cardinality(1 .. Len(s)) = Len(s)
  BY <1>1, FS_Interval
<1>3. s \in Surjection(1 .. Len(s), ToSet(s))
  BY <1>1 DEF Surjection, ToSet
<1> QED
  BY <1>1, <1>2, <1>3, FS_Surjection DEF ToSet

\* Trades and entries of a cycle are finitely many.
LEMMA CycleIsFinite ==
  ASSUME TypeOK, NEW p \in Processes
  PROVE  /\ IsFiniteSet(CycleTrades(p)) /\ IsFiniteSet(CycleEntries(p))
         /\ CycleEntries(p) \in SUBSET Entries
<1> DEFINE G == ToSet(calls[p].chosen)
           A == ToSet(calls[p].admitted)
           f == [g \in G |-> g.trade]
           h == [t \in A |-> Entry(t, intents[t].risk, intents[t].risk)]
           GT == {g.trade : g \in G}
           AE == {Entry(t, intents[t].risk, intents[t].risk) : t \in A}
<1>1. calls[p].chosen \in Seq(GrantRows) /\ calls[p].admitted \in Seq(Trades)
  BY Columns
<1>2. IsFiniteSet(G) /\ IsFiniteSet(A) /\ A \in SUBSET Trades
  BY <1>1, ElementsAreFinite
<1>3. IsFiniteSet(CycleOf(calls[p].chosen)) /\ CycleOf(calls[p].chosen) \in SUBSET Entries
  BY <1>1, EntriesOfGrants
<1>4. \A t \in A : Entry(t, intents[t].risk, intents[t].risk) \in Entries
  BY <1>2, Columns DEF Entry, Entries
<1>5. CycleTrades(p) = GT \cup A /\ CycleEntries(p) = CycleOf(calls[p].chosen) \cup AE
  BY DEF CycleTrades, CycleEntries
<1> HIDE DEF G, A
<1>6. f \in Surjection(G, GT) /\ h \in Surjection(A, AE)
  BY DEF Surjection
<1>7. AE \in SUBSET Entries
  BY <1>4
<1> HIDE DEF f, h, GT, AE
<1>8. IsFiniteSet(GT) /\ IsFiniteSet(AE)
  BY <1>2, <1>6, FS_Surjection
<1> QED
  BY <1>2, <1>3, <1>5, <1>7, <1>8, FS_Union

\* Less of a cycle fits its limits too.
LEMMA CycleFitsLess ==
  ASSUME TypeOK, TypeOK', NEW p \in Processes, CycleFitsOf(p),
         CycleTrades(p)' \subseteq CycleTrades(p),
         CycleEntries(p)' \subseteq CycleEntries(p)
  PROVE  CycleFitsOf(p)'
<1>1. /\ IsFiniteSet(CycleTrades(p)) /\ IsFiniteSet(CycleEntries(p))
      /\ CycleEntries(p) \in SUBSET Entries
  BY CycleIsFinite
<1>2. /\ Risk(CycleEntries(p)) <= CycleRisk
      /\ Cardinality(CycleTrades(p)) <= CyclePositions
      /\ \A t, u \in CycleTrades(p) : Instrument[t] = Instrument[u] => t = u
  BY DEF CycleFitsOf
<1>3. ASSUME NEW E \in SUBSET CycleEntries(p) PROVE Risk(E) <= CycleRisk
  <2>1. /\ Risk(E) \in Nat /\ Risk(E) <= Risk(CycleEntries(p))
        /\ Risk(CycleEntries(p)) \in Nat
    BY <1>1, RiskOfBooks
  <2> QED
    BY <1>2, <2>1, LimitTypes
<1>4. ASSUME NEW T \in SUBSET CycleTrades(p) PROVE Cardinality(T) <= CyclePositions
  <2>1. IsFiniteSet(T) /\ Cardinality(T) <= Cardinality(CycleTrades(p))
    BY <1>1, FS_Subset
  <2>2. Cardinality(T) \in Nat /\ Cardinality(CycleTrades(p)) \in Nat
    BY <1>1, <2>1, FS_CardinalityType
  <2> QED
    BY <1>2, <2>1, <2>2, LimitTypes
<1>5. Risk(CycleEntries(p)') <= CycleRisk /\ Cardinality(CycleTrades(p)') <= CyclePositions
  BY <1>3, <1>4
<1> QED
  BY <1>2, <1>5 DEF CycleFitsOf

\* What an admission step is to keep of the invariant, besides the types.
Kept == UsedIsFinite' /\ RowsAreAnswered' /\ \A q \in Processes : CallInv(q)'

\* The state of intents that are in the admission is written by the admission
\* alone, and the lock makes that one process.
LEMMA OneAdmits ==
  ASSUME TypeOK, NEW p \in Processes, Admitting(p) \/ lock = NoOne,
         NEW q \in Processes, q # p
  PROVE  ~Admitting(q)
BY Columns, ProcessesAssumption DEF Admitting

\* The lock is taken and the positions are listed: they are the current ones.
LEMMA BeginCycleKeeps ==
  ASSUME BudgetInv, NEW p \in Processes, BeginCycle(p)
  PROVE  Kept
<1>0. TypeOK /\ UsedIsFinite /\ RowsAreAnswered /\ CallInv(p)
  BY DEF BudgetInv
<1>1. /\ UNCHANGED <<intents, positions>> /\ lock = NoOne /\ calls[p].at = "idle"
      /\ calls' = [calls EXCEPT ![p].at = "reading", ![p].seen = Listed]
  BY DEF BeginCycle, Admissible
<1>2. DOMAIN calls = Processes /\ DOMAIN calls[p] = {"at", "seen", "chosen", "admitted", "raced"}
  BY DEF BudgetInv, IInv, Shape
<1>3. /\ calls'[p].at = "reading" /\ calls'[p].seen = Listed
      /\ calls'[p].chosen = <<>> /\ calls'[p].admitted = <<>>
  BY <1>0, <1>1, <1>2 DEF CallInv, NothingYet
<1>4. ASSUME NEW q \in Processes, q # p PROVE CallInv(q)'
  <2>1. calls'[q] = calls[q]
    BY <1>1, <1>2, <1>4
  <2>2. ~Admitting(q)
    BY <1>0, <1>1, <1>4, OneAdmits
  <2> QED
    BY <1>1, <2>1, <2>2, OtherCallsKeep DEF Forward
<1>5. CallInv(p)'
  <2>1. Listed' = Listed /\ Rows' = Rows
    BY <1>1 DEF Listed, Rows, Entry
  <2>2. IsFiniteSet(Listed)
    BY <1>0, ListedIsFinite
  <2>3. \A e \in Listed : e.trade \in Rows
    BY DEF Listed, Entry
  <2>4. Len(<<>>) = 0 /\ 1 .. 0 = {}
    OBVIOUS
  <2>5. (NothingYet(p) /\ SeenIsFinite(p) /\ AdmittedAreApproved(p))'
    BY <1>3, <2>2, <2>4 DEF NothingYet, SeenIsFinite, AdmittedAreApproved
  <2>6. SeenAreAnswered(p)'
    BY <1>0, <1>1, <1>3, <2>3 DEF SeenAreAnswered, RowsAreAnswered
  <2>7. SeenIsCurrent(p)'
    BY <1>3, <2>1, <2>3 DEF SeenIsCurrent
  <2>8. (ChosenArePending(p) /\ ChosenFit(p))' /\ calls'[p].at # "deciding"
    BY <1>3 DEF ChosenArePending, ChosenFit
  <2> QED
    BY <2>5, <2>6, <2>7, <2>8 DEF CallInv
<1>6. UsedIsFinite' /\ RowsAreAnswered'
  BY <1>0, <1>1 DEF UsedIsFinite, RowsAreAnswered, Rows
<1> QED
  BY <1>4, <1>5, <1>6 DEF Kept

\* The lock is released when nothing is left to decide.
LEMMA EndCycleKeeps ==
  ASSUME BudgetInv, NEW p \in Processes, EndCycle(p)
  PROVE  Kept
<1>0. TypeOK /\ UsedIsFinite /\ RowsAreAnswered /\ CallInv(p)
  BY DEF BudgetInv
<1>1. /\ UNCHANGED <<intents, positions>> /\ calls[p].at = "deciding"
      /\ calls' = [calls EXCEPT ![p].at = "executing", ![p].seen = {},
                                ![p].raced = FALSE]
  BY DEF EndCycle
<1>2. DOMAIN calls = Processes /\ DOMAIN calls[p] = {"at", "seen", "chosen", "admitted", "raced"}
  BY DEF BudgetInv, IInv, Shape
<1>3. /\ calls'[p].at = "executing" /\ calls'[p].seen = {}
      /\ calls'[p].admitted = calls[p].admitted
  BY <1>1, <1>2
<1>4. ASSUME NEW q \in Processes, q # p PROVE CallInv(q)'
  <2>1. calls'[q] = calls[q]
    BY <1>1, <1>2, <1>4
  <2>2. ~Admitting(q)
    BY <1>0, <1>1, <1>4, OneAdmits DEF Admitting
  <2> QED
    BY <1>1, <2>1, <2>2, OtherCallsKeep DEF Forward
<1>5. CallInv(p)'
  <2>1. (NothingYet(p) /\ SeenIsFinite(p) /\ SeenAreAnswered(p) /\ SeenIsCurrent(p))'
    BY <1>3, FS_EmptySet DEF NothingYet, SeenIsFinite, SeenAreAnswered, SeenIsCurrent
  <2>2. AdmittedAreApproved(p)'
    BY <1>0, <1>1, <1>3 DEF CallInv, AdmittedAreApproved
  <2>3. (ChosenArePending(p) /\ ChosenFit(p))' /\ calls'[p].at # "deciding"
    BY <1>3 DEF ChosenArePending, ChosenFit
  <2> QED
    BY <2>1, <2>2, <2>3 DEF CallInv
<1>6. UsedIsFinite' /\ RowsAreAnswered'
  BY <1>0, <1>1 DEF UsedIsFinite, RowsAreAnswered, Rows
<1> QED
  BY <1>4, <1>5, <1>6 DEF Kept

\* The decisions on the batch fit the book, as it was read and as it is.
LEMMA AllocateKeeps ==
  ASSUME BudgetInv, TypeOK', NEW p \in Processes, Allocate(p)
  PROVE  Kept
<1>0. TypeOK /\ UsedIsFinite /\ RowsAreAnswered /\ CallInv(p) /\ Shape
  BY DEF BudgetInv, IInv
<1>1. PICK batch \in Batches :
        LET grants == Grants(batch, Book(calls[p].seen))
            refused == ToSet(batch) \ {g.trade : g \in ToSet(grants)}
        IN  /\ intents' = [t \in Trades |-> IF t \in refused
                  THEN [intents[t] EXCEPT !.state = "REJECTED"]
                  ELSE intents[t]]
            /\ calls' = [calls EXCEPT ![p].at = "deciding", ![p].chosen = grants]
  BY DEF Allocate
<1> DEFINE seen == calls[p].seen
           grants == Grants(batch, Book(seen))
           refused == ToSet(batch) \ {g.trade : g \in ToSet(grants)}
           N == Len(grants)
<1>2. calls[p].at = "reading" /\ UNCHANGED positions
  BY DEF Allocate
<1>3. PICK n \in Nat : DOMAIN batch = 1 .. n /\ Sound(grants, batch, Book(seen), n)
  BY <1>2, DecisionsAreSound
<1>4. /\ \A i \in 1 .. n : batch[i] \in Trades /\ intents[batch[i]].state = Absent
      /\ \A t \in ToSet(batch) : t \in Trades /\ intents[t].state = Absent
      /\ IsFiniteSet(ToSet(batch))
  BY <1>3, BatchFacts DEF ToSet
<1>5. /\ \A t \in Trades : intents'[t] = IF t \in refused
                              THEN [intents[t] EXCEPT !.state = "REJECTED"]
                              ELSE intents[t]
      /\ calls' = [calls EXCEPT ![p].at = "deciding", ![p].chosen = grants]
  BY <1>1
<1>6. /\ calls'[p].at = "deciding" /\ calls'[p].chosen = grants
      /\ calls'[p].admitted = <<>> /\ calls'[p].seen = seen
      /\ calls'[p].raced = calls[p].raced
      /\ \A q \in Processes : q # p => calls'[q] = calls[q]
  BY <1>0, <1>2, <1>5 DEF CallInv, NothingYet, Shape
<1>7. grants \in Seq(GrantRows) /\ N \in Nat /\ DOMAIN grants = 1 .. N
      /\ \A i \in 1 .. N : grants[i] \in GrantRows
  <2>1. grants \in Seq(GrantRows)
    BY <1>3 DEF Sound
  <2> HIDE DEF grants
  <2> QED
    BY <2>1, SeqFacts
<1> HIDE DEF grants
<1>8. /\ \A t \in refused : /\ intents[t].state = Absent
                            /\ intents'[t].state = "REJECTED"
      /\ \A t \in Trades : t \notin refused => intents'[t] = intents[t]
  BY <1>0, <1>4, <1>5 DEF Shape
<1>9. \A i \in 1 .. N : /\ grants[i].trade \in Trades
                        /\ grants[i].trade \notin refused
                        /\ intents[grants[i].trade].state = Absent
  <2>1. SUFFICES ASSUME NEW i \in 1 .. N
                 PROVE  /\ grants[i].trade \in Trades
                        /\ grants[i].trade \notin refused
                        /\ intents[grants[i].trade].state = Absent
    OBVIOUS
  <2>2. PICK m \in 1 .. n : grants[i].trade = batch[m]
    BY <1>3 DEF Sound
  <2>3. grants[i] \in ToSet(grants)
    BY <1>7 DEF ToSet
  <2> QED
    BY <1>4, <2>2, <2>3
<1> HIDE DEF refused
<1>10. Forward
  BY <1>8 DEF Forward, Unapproved, UnansweredStates
<1>11. UsedIsFinite'
  <2>1. \A t \in Trades : intents[t].state = Absent /\ t \notin ToSet(batch) =>
                            intents'[t].state = Absent
    BY <1>8 DEF refused
  <2> QED
    BY <1>0, <1>4, <2>1, UsedStaysFinite
<1>12. RowsAreAnswered'
  BY <1>0, <1>2, <1>10 DEF RowsAreAnswered, Rows, Forward
<1>13. ASSUME NEW q \in Processes, q # p PROVE CallInv(q)'
  <2>1. ~Admitting(q)
    BY <1>0, <1>2, <1>13, OneAdmits DEF Admitting
  <2> QED
    BY <1>6, <1>10, <1>13, <2>1, OtherCallsKeep
<1>14. (NothingYet(p) /\ SeenIsFinite(p) /\ SeenIsCurrent(p))'
  BY <1>0, <1>6 DEF CallInv, NothingYet, SeenIsFinite, SeenIsCurrent
<1>15. SeenAreAnswered(p)'
  <2>1. \A e \in seen : e.trade \in Trades
    BY <1>0, Columns DEF Entries
  <2> QED
    BY <1>0, <1>6, <1>10, <2>1 DEF CallInv, SeenAreAnswered, Forward
<1>16. AdmittedAreApproved(p)'
  <2>1. 1 .. Len(<<>>) = {}
    OBVIOUS
  <2> QED
    BY <1>6, <2>1 DEF AdmittedAreApproved
<1>17. ChosenArePending(p)'
  <2>1. Distinct(grants)
    BY <1>3 DEF Sound
  <2> QED
    BY <1>6, <1>8, <1>9, <2>1 DEF ChosenArePending
<1>18. ChosenFit(p)'
  <2>1. SUFFICES ASSUME ~calls[p].raced, NEW i \in 1 .. N
                 PROVE  Fits(grants[i].trade, Book(Listed)' \cup UpTo(grants, i))
    BY <1>6 DEF ChosenFit
  <2>2. Fits(grants[i].trade, Book(seen) \cup UpTo(grants, i))
    BY <1>3 DEF Sound
  <2>3. Listed' = Listed /\ Rows' = Rows
    BY <1>2 DEF Listed, Rows, Entry
  <2>4. /\ Listed \subseteq seen
        /\ \A e \in seen : e.trade \in Rows \/ intents[e.trade].state = "CLOSED"
    BY <1>0, <1>2, <2>1 DEF CallInv, SeenIsCurrent
  <2>5. ASSUME NEW e \in Reserved(Listed)' PROVE e \in Book(seen)
    <3>1. PICK t \in Trades :
            /\ intents'[t].state \in RiskReservedStates
            /\ ~intents'[t].linked
            /\ \A x \in Listed : x.trade # t
            /\ e = Entry(t, intents'[t].risk, intents'[t].risk)
      BY <2>3, <2>5 DEF Reserved, States, Entry
    <3>2. intents'[t] = intents[t]
      BY <1>8, <3>1 DEF RiskReservedStates
    <3>3. t \notin Rows
      <4>1. \A u \in Rows :
              /\ Entry(u, positions[u].risk, positions[u].size) \in Listed
              /\ Entry(u, positions[u].risk, positions[u].size).trade = u
        BY DEF Listed, Entry
      <4> QED
        BY <3>1, <4>1
    <3>4. \A x \in seen : x.trade # t
      BY <2>4, <3>1, <3>2, <3>3 DEF RiskReservedStates
    <3> QED
      BY <3>1, <3>2, <3>4 DEF Book, Reserved, States
  <2>6. Book(Listed)' \subseteq Book(seen)
    BY <2>3, <2>4, <2>5 DEF Book
  <2>7. Book(seen) \in SUBSET Entries /\ IsFiniteSet(Book(seen))
    BY <1>0, Columns, BookIsFinite DEF CallInv, SeenIsFinite
  <2>8. UpTo(grants, i) \in SUBSET Entries /\ IsFiniteSet(UpTo(grants, i))
    BY <1>7, EntriesOfGrants, FS_Subset
  <2> DEFINE B == Book(seen)
             C == UpTo(grants, i)
             D == Book(Listed)'
  <2>9. Fits(grants[i].trade, B \cup C) /\ D \subseteq B
    BY <2>2, <2>6
  <2>10. B \in SUBSET Entries /\ IsFiniteSet(B) /\ C \in SUBSET Entries /\ IsFiniteSet(C)
    BY <2>7, <2>8
  <2>11. grants[i].trade \in Trades
    BY <1>9
  <2> HIDE DEF B, C, D
  <2>12. B \cup C \in SUBSET Entries /\ IsFiniteSet(B \cup C)
    BY <2>10, FS_Union
  <2>13. Fits(grants[i].trade, D \cup C)
    BY <2>9, <2>11, <2>12, FitsLess
  <2> QED
    BY <2>13 DEF C, D
<1>19. CycleFitsOf(p)'
  <2>1. CycleTrades(p)' = {g.trade : g \in ToSet(grants)}
    BY <1>6 DEF CycleTrades, ToSet
  <2>2. CycleEntries(p)' = CycleOf(grants)
    <3>1. ToSet(<<>>) = {}
      BY DEF ToSet
    <3> QED
      BY <1>6, <3>1 DEF CycleEntries
  <2>3. Risk(CycleOf(grants)) <= CycleRisk /\ N <= CyclePositions
    BY <1>3 DEF Sound
  <2> DEFINE T == {g.trade : g \in ToSet(grants)}
             f == [i \in 1 .. N |-> grants[i].trade]
  <2>4. T = {grants[i].trade : i \in 1 .. N}
    BY <1>7 DEF ToSet
  <2>5. Cardinality(T) <= CyclePositions
    <3>1. f \in Surjection(1 .. N, T)
      BY <2>4 DEF Surjection
    <3>2. IsFiniteSet(1 .. N) /\ Cardinality(1 .. N) = N
      <4> HIDE DEF N
      <4> QED
        BY <1>7, FS_Interval
    <3> HIDE DEF f, T, N
    <3>3. IsFiniteSet(T) /\ Cardinality(T) <= N
      BY <3>1, <3>2, FS_Surjection
    <3>4. Cardinality(T) \in Nat
      BY <3>3, FS_CardinalityType
    <3> QED
      BY <1>7, <2>3, <3>3, <3>4, LimitTypes DEF N
  <2>6. \A t, u \in T : Instrument[t] = Instrument[u] => t = u
    <3>1. \A t \in T : t \in Strongest(batch)
      BY <1>3, <2>4 DEF Sound
    <3> QED
      BY <1>3, <3>1, StrongestDiffer
  <2> HIDE DEF T
  <2> QED
    BY <2>1, <2>2, <2>3, <2>5, <2>6 DEF CycleFitsOf, T
<1>20. CallInv(p)'
  BY <1>14, <1>15, <1>16, <1>17, <1>18, <1>19 DEF CallInv
<1> QED
  BY <1>11, <1>12, <1>13, <1>20 DEF Kept

\* What every decision on the head of the chosen comes with.
LEMMA AtHead ==
  ASSUME BudgetInv, NEW p \in Processes, NEW s \in Unapproved, Deciding(p, s)
  PROVE  LET g == calls[p].chosen
             t == Head(g).trade
         IN  /\ g \in Seq(GrantRows) /\ g # <<>> /\ Distinct(g)
             /\ t \in Trades /\ Head(g) = g[1] /\ Head(g).risk \in Nat
             /\ intents[t].state = s
             /\ s = "PROPOSED" => intents[t].risk = Head(g).risk
             /\ \A i \in 1 .. Len(Tail(g)) :
                  /\ Tail(g)[i].trade \in Trades /\ Tail(g)[i].trade # t
                  /\ intents[Tail(g)[i].trade].state = Absent
             /\ \A i \in 1 .. Len(calls[p].admitted) :
                  /\ calls[p].admitted[i] \in Trades
                  /\ calls[p].admitted[i] # t
                  /\ intents[calls[p].admitted[i]].state \notin Unapproved
             /\ t \notin Rows /\ intents[t].linked = FALSE
<1> DEFINE g == calls[p].chosen
           t == Head(g).trade
<1>0. TypeOK /\ RowsAreAnswered /\ CallInv(p) /\ UnansweredHasNothing
  BY DEF BudgetInv, IInv
<1>1. calls[p].at = "deciding" /\ g # <<>> /\ intents[t].state = s
  BY DEF Deciding
<1>2. g \in Seq(GrantRows) /\ calls[p].admitted \in Seq(Trades)
  BY <1>0, Columns
<1>3. /\ Distinct(g)
      /\ \A i \in 1 .. Len(g) :
           \/ intents[g[i].trade].state = Absent
           \/ /\ i = 1
              /\ intents[g[i].trade].state = "PROPOSED"
              /\ intents[g[i].trade].risk = g[i].risk
  BY <1>0, <1>1 DEF CallInv, ChosenArePending
<1> HIDE DEF g
<1>4. /\ Head(g) = g[1] /\ 1 \in 1 .. Len(g) /\ g[1] \in GrantRows
      /\ Tail(g) \in Seq(GrantRows)
      /\ \A i \in 1 .. Len(Tail(g)) :
           i + 1 \in 1 .. Len(g) /\ i + 1 # 1 /\ Tail(g)[i] = g[i + 1]
  BY <1>1, <1>2, RestOfGrants
<1>5. t \in Trades /\ Head(g).risk \in Nat
  BY <1>4 DEF GrantRows
<1>6. s = "PROPOSED" => intents[t].risk = Head(g).risk
  BY <1>1, <1>3, <1>4 DEF Absent
<1>7. ASSUME NEW i \in 1 .. Len(Tail(g))
      PROVE  /\ Tail(g)[i].trade \in Trades /\ Tail(g)[i].trade # t
             /\ intents[Tail(g)[i].trade].state = Absent
  <2>1. Tail(g)[i] \in GrantRows
    BY <1>4, SeqFacts
  <2>2. Tail(g)[i].trade \in Trades
    BY <2>1 DEF GrantRows
  <2>3. Tail(g)[i].trade # t
    BY <1>3, <1>4 DEF Distinct
  <2> QED
    BY <1>3, <1>4, <2>2, <2>3
<1>8. ASSUME NEW i \in 1 .. Len(calls[p].admitted)
      PROVE  /\ calls[p].admitted[i] \in Trades
             /\ calls[p].admitted[i] # t
             /\ intents[calls[p].admitted[i]].state \notin Unapproved
  <2>1. calls[p].admitted[i] \in Trades
    BY <1>2, SeqFacts
  <2>2. intents[calls[p].admitted[i]].state \notin Unapproved
    BY <1>0 DEF CallInv, AdmittedAreApproved
  <2> QED
    BY <1>1, <2>1, <2>2
<1>9. t \notin Rows /\ intents[t].linked = FALSE
  <2>1. intents[t].state \in UnansweredStates
    BY <1>1 DEF Unapproved, UnansweredStates
  <2>2. intents[t].linked \in BOOLEAN
    BY <1>0, <1>5, Columns
  <2> QED
    BY <1>0, <1>5, <2>1, <2>2 DEF RowsAreAnswered, UnansweredHasNothing
<1> QED
  BY <1>1, <1>2, <1>3, <1>4, <1>5, <1>6, <1>7, <1>8, <1>9 DEF g

\* A decision on one intent that is in the admission leaves every other call
\* and the tables' other invariants alone.
LEMMA DecisionKeepsRest ==
  ASSUME BudgetInv, NEW p \in Processes, Admitting(p), UNCHANGED positions,
         NEW t \in Trades, intents[t].state \in Unapproved, t \notin Rows,
         \A u \in Trades : u # t => intents'[u] = intents[u],
         \A q \in Processes : q # p => calls'[q] = calls[q]
  PROVE  /\ UsedIsFinite' /\ RowsAreAnswered' /\ Forward
         /\ \A q \in Processes : q # p => CallInv(q)'
         /\ Listed' = Listed /\ Rows' = Rows
<1>0. TypeOK /\ UsedIsFinite /\ RowsAreAnswered
  BY DEF BudgetInv
<1>1. Forward
  BY DEF Forward, Unapproved, UnansweredStates
<1>2. UsedIsFinite'
  <2>1. IsFiniteSet({t})
    BY FS_Singleton
  <2> QED
    BY <1>0, <2>1, UsedStaysFinite
<1>3. RowsAreAnswered'
  BY <1>0 DEF RowsAreAnswered, Rows
<1>4. ASSUME NEW q \in Processes, q # p PROVE CallInv(q)'
  <2>1. ~Admitting(q)
    BY <1>0, <1>4, OneAdmits
  <2> QED
    BY <1>1, <1>4, <2>1, OtherCallsKeep
<1>5. Listed' = Listed /\ Rows' = Rows
  BY DEF Listed, Rows, Entry
<1> QED
  BY <1>1, <1>2, <1>3, <1>4, <1>5

\* The head is dropped, REJECTED: by the owner of its instrument or by a layer
\* of the risk service.
LEMMA DroppingKeeps ==
  ASSUME BudgetInv, TypeOK', NEW p \in Processes, NEW s \in Unapproved,
         Deciding(p, s), SetState(Head(calls[p].chosen).trade, "REJECTED"),
         DropChosen(p), UNCHANGED positions
  PROVE  Kept
<1> DEFINE g == calls[p].chosen
           t == Head(g).trade
<1>0. TypeOK /\ CallInv(p) /\ Shape /\ UsedIsFinite /\ RowsAreAnswered
      /\ calls[p].at = "deciding"
  BY DEF BudgetInv, IInv, Deciding
<1>1. /\ g \in Seq(GrantRows) /\ g # <<>> /\ Distinct(g)
      /\ t \in Trades /\ intents[t].state = s
      /\ \A i \in 1 .. Len(Tail(g)) :
           /\ Tail(g)[i].trade \in Trades /\ Tail(g)[i].trade # t
           /\ intents[Tail(g)[i].trade].state = Absent
      /\ \A i \in 1 .. Len(calls[p].admitted) :
           /\ calls[p].admitted[i] \in Trades
           /\ calls[p].admitted[i] # t
           /\ intents[calls[p].admitted[i]].state \notin Unapproved
      /\ t \notin Rows
  BY AtHead
<1>2. /\ calls'[p].at = "deciding" /\ calls'[p].seen = calls[p].seen
      /\ calls'[p].chosen = Tail(g) /\ calls'[p].admitted = calls[p].admitted
      /\ calls'[p].raced = calls[p].raced
      /\ \A q \in Processes : q # p => calls'[q] = calls[q]
  BY <1>0 DEF DropChosen, Shape
<1>3. /\ \A u \in Trades : u # t => intents'[u] = intents[u]
      /\ intents'[t].state = "REJECTED"
  <2>1. SetState(t, "REJECTED")
    OBVIOUS
  <2> HIDE DEF t
  <2> QED
    BY <1>0, <1>1, <2>1, SetStateLemma
<1> HIDE DEF g, t
<1>4. /\ UsedIsFinite' /\ RowsAreAnswered' /\ Forward
      /\ \A q \in Processes : q # p => CallInv(q)'
  BY <1>0, <1>1, <1>2, <1>3, DecisionKeepsRest DEF Admitting
<1>5. Listed' = Listed /\ Book(Listed)' \subseteq Book(Listed)
  <2>1. \A u \in Trades :
           intents'[u].state \in RiskReservedStates /\ ~intents'[u].linked =>
             \/ /\ intents[u].state \in RiskReservedStates
                /\ ~intents[u].linked /\ intents'[u].risk = intents[u].risk
             \/ Entry(u, intents'[u].risk, intents'[u].risk) \in {}
    BY <1>3 DEF RiskReservedStates
  <2>2. Listed' = Listed /\ Book(Listed)' \subseteq Book(Listed) \cup {}
    BY <2>1, BookGains
  <2> QED
    BY <2>2
<1>6. (NothingYet(p) /\ SeenIsFinite(p) /\ SeenIsCurrent(p))'
  BY <1>0, <1>2 DEF CallInv, NothingYet, SeenIsFinite, SeenIsCurrent
<1>7. SeenAreAnswered(p)'
  <2>1. \A e \in calls[p].seen : e.trade \in Trades
    BY <1>0, Columns DEF Entries
  <2> QED
    BY <1>0, <1>2, <1>4, <2>1 DEF CallInv, SeenAreAnswered, Forward
<1>8. AdmittedAreApproved(p)'
  BY <1>1, <1>2, <1>3 DEF AdmittedAreApproved
<1>9. /\ Tail(g) \in Seq(GrantRows) /\ Distinct(Tail(g))
      /\ \A i \in 1 .. Len(Tail(g)) :
           /\ i + 1 \in 1 .. Len(g) /\ Tail(g)[i] = g[i + 1]
           /\ UpTo(Tail(g), i) \subseteq UpTo(g, i + 1)
      /\ ToSet(Tail(g)) \subseteq ToSet(g)
      /\ CycleOf(Tail(g)) \subseteq CycleOf(g)
  BY <1>1, RestOfGrants
<1>10. ChosenArePending(p)'
  BY <1>1, <1>2, <1>3, <1>9 DEF ChosenArePending
<1>11. ChosenFit(p)'
  <2>1. SUFFICES ASSUME ~calls[p].raced, NEW i \in 1 .. Len(Tail(g))
                 PROVE  Fits(Tail(g)[i].trade, Book(Listed)' \cup UpTo(Tail(g), i))
    BY <1>2 DEF ChosenFit
  <2> DEFINE B == Book(Listed)
             C == UpTo(g, i + 1)
             D == Book(Listed)'
             E == UpTo(Tail(g), i)
             u == Tail(g)[i].trade
  <2>2. Fits(u, B \cup C)
    BY <1>0, <1>9, <2>1 DEF CallInv, ChosenFit, g
  <2>3. D \subseteq B /\ E \subseteq C /\ u \in Trades
    BY <1>1, <1>5, <1>9
  <2>4. B \in SUBSET Entries /\ IsFiniteSet(B)
    BY <1>0, ListedIsFinite, BookIsFinite
  <2>5. C \in SUBSET Entries /\ IsFiniteSet(C)
    BY <1>1, <1>9, EntriesOfGrants, FS_Subset
  <2> HIDE DEF B, C, D, E, u
  <2>6. B \cup C \in SUBSET Entries /\ IsFiniteSet(B \cup C)
    BY <2>4, <2>5, FS_Union
  <2>7. Fits(u, D \cup E)
    BY <2>2, <2>3, <2>6, FitsLess
  <2> QED
    BY <2>7 DEF D, E, u
<1>12. CycleFitsOf(p)'
  <2>1. CycleTrades(p)' \subseteq CycleTrades(p)
    BY <1>2, <1>9 DEF CycleTrades, g
  <2>2. \A x \in ToSet(calls[p].admitted) : intents'[x].risk = intents[x].risk
    <3>1. calls[p].admitted \in Seq(Trades)
      BY <1>0, Columns
    <3>2. \A x \in ToSet(calls[p].admitted) : x \in Trades /\ x # t
      BY <1>1, <3>1, SeqFacts DEF ToSet
    <3> QED
      BY <1>3, <3>2
  <2>3. CycleEntries(p)' \subseteq CycleEntries(p)
    BY <1>2, <1>9, <2>2 DEF CycleEntries, g
  <2> QED
    BY <1>0, <2>1, <2>3, CycleFitsLess DEF CallInv
<1>13. CallInv(p)'
  BY <1>6, <1>7, <1>8, <1>10, <1>11, <1>12 DEF CallInv
<1> QED
  BY <1>4, <1>13 DEF Kept

\* The head is PROPOSED with its granted risk.
Proposing(p) ==
  intents' = [intents EXCEPT
     ![Head(calls[p].chosen).trade].state = "PROPOSED",
     ![Head(calls[p].chosen).trade].risk = Head(calls[p].chosen).risk]
LEMMA ProposingKeeps ==
  ASSUME BudgetInv, TypeOK', NEW p \in Processes, Deciding(p, Absent),
         Proposing(p), UNCHANGED <<positions, calls>>
  PROVE  Kept
<1> DEFINE g == calls[p].chosen
           t == Head(g).trade
<1>0. TypeOK /\ CallInv(p) /\ Shape /\ UsedIsFinite /\ RowsAreAnswered
      /\ calls[p].at = "deciding"
  BY DEF BudgetInv, IInv, Deciding
<1>1. /\ g \in Seq(GrantRows) /\ g # <<>> /\ Distinct(g) /\ Head(g) = g[1]
      /\ t \in Trades /\ intents[t].state = Absent
      /\ \A i \in 1 .. Len(Tail(g)) :
           /\ Tail(g)[i].trade \in Trades /\ Tail(g)[i].trade # t
           /\ intents[Tail(g)[i].trade].state = Absent
      /\ \A i \in 1 .. Len(calls[p].admitted) :
           /\ calls[p].admitted[i] \in Trades
           /\ calls[p].admitted[i] # t
           /\ intents[calls[p].admitted[i]].state \notin Unapproved
      /\ t \notin Rows
  BY AtHead DEF Unapproved
<1>3. /\ \A u \in Trades : u # t => intents'[u] = intents[u]
      /\ intents'[t].state = "PROPOSED" /\ intents'[t].risk = Head(g).risk
  <2>1. intents' = [intents EXCEPT ![t].state = "PROPOSED", ![t].risk = Head(g).risk]
    BY DEF Proposing
  <2> HIDE DEF t, g
  <2> QED
    BY <1>0, <1>1, <2>1 DEF Shape
<1>2. /\ calls'[p].at = "deciding" /\ calls'[p].seen = calls[p].seen
      /\ calls'[p].chosen = g /\ calls'[p].admitted = calls[p].admitted
      /\ calls'[p].raced = calls[p].raced
  BY <1>0
<1> HIDE DEF g, t
<1>4. /\ UsedIsFinite' /\ RowsAreAnswered' /\ Forward
      /\ \A q \in Processes : q # p => CallInv(q)'
  BY <1>0, <1>1, <1>3, DecisionKeepsRest DEF Admitting, Unapproved
<1>5. Listed' = Listed /\ Book(Listed)' \subseteq Book(Listed)
  <2>1. \A u \in Trades :
           intents'[u].state \in RiskReservedStates /\ ~intents'[u].linked =>
             \/ /\ intents[u].state \in RiskReservedStates
                /\ ~intents[u].linked /\ intents'[u].risk = intents[u].risk
             \/ Entry(u, intents'[u].risk, intents'[u].risk) \in {}
    BY <1>3 DEF RiskReservedStates
  <2>2. Listed' = Listed /\ Book(Listed)' \subseteq Book(Listed) \cup {}
    BY <2>1, BookGains
  <2> QED
    BY <2>2
<1>6. (NothingYet(p) /\ SeenIsFinite(p) /\ SeenIsCurrent(p))'
  BY <1>0, <1>2 DEF CallInv, NothingYet, SeenIsFinite, SeenIsCurrent
<1>7. SeenAreAnswered(p)'
  <2>1. \A e \in calls[p].seen : e.trade \in Trades
    BY <1>0, Columns DEF Entries
  <2> QED
    BY <1>0, <1>2, <1>4, <2>1 DEF CallInv, SeenAreAnswered, Forward
<1>8. AdmittedAreApproved(p)'
  BY <1>1, <1>2, <1>3 DEF AdmittedAreApproved
<1>9. /\ \A i \in 1 .. Len(g) : g[i].trade \in Trades /\ (i # 1 => g[i].trade # t)
      /\ 1 \in 1 .. Len(g) /\ t = g[1].trade
  <2>1. 1 \in 1 .. Len(g) /\ \A i \in 1 .. Len(g) : g[i] \in GrantRows
    BY <1>1, SeqFacts
  <2>2. t = g[1].trade
    BY <1>1 DEF t
  <2> QED
    BY <1>1, <2>1, <2>2 DEF Distinct, GrantRows
<1>10. ChosenArePending(p)'
  <2>1. \A i \in 1 .. Len(g) :
          \/ intents[g[i].trade].state = Absent
          \/ i = 1
    BY <1>0 DEF CallInv, ChosenArePending, g
  <2>2. g[1].risk = Head(g).risk
    BY <1>1
  <2> QED
    BY <1>1, <1>2, <1>3, <1>9, <2>1, <2>2 DEF ChosenArePending
<1>11. ChosenFit(p)'
  <2>1. SUFFICES ASSUME ~calls[p].raced, NEW i \in 1 .. Len(g)
                 PROVE  Fits(g[i].trade, Book(Listed)' \cup UpTo(g, i))
    BY <1>2 DEF ChosenFit
  <2> DEFINE B == Book(Listed)
             C == UpTo(g, i)
             D == Book(Listed)'
             u == g[i].trade
  <2>2. Fits(u, B \cup C)
    BY <1>0, <2>1 DEF CallInv, ChosenFit, g
  <2>3. D \subseteq B /\ u \in Trades
    BY <1>5, <1>9
  <2>4. B \in SUBSET Entries /\ IsFiniteSet(B)
    BY <1>0, ListedIsFinite, BookIsFinite
  <2>5. C \in SUBSET Entries /\ IsFiniteSet(C)
    BY <1>1, EntriesOfGrants, FS_Subset
  <2> HIDE DEF B, C, D, u
  <2>6. B \cup C \in SUBSET Entries /\ IsFiniteSet(B \cup C)
    BY <2>4, <2>5, FS_Union
  <2>7. Fits(u, D \cup C)
    BY <2>2, <2>3, <2>6, FitsLess
  <2> QED
    BY <2>7 DEF C, D, u
<1>12. CycleFitsOf(p)'
  <2>1. \A x \in ToSet(calls[p].admitted) : intents'[x].risk = intents[x].risk
    <3>1. calls[p].admitted \in Seq(Trades)
      BY <1>0, Columns
    <3>2. \A x \in ToSet(calls[p].admitted) : x \in Trades /\ x # t
      BY <1>1, <3>1, SeqFacts DEF ToSet
    <3> QED
      BY <1>3, <3>2
  <2> QED
    BY <1>0, <2>1, CycleFitsKept DEF CallInv
<1>13. CallInv(p)'
  BY <1>6, <1>7, <1>8, <1>10, <1>11, <1>12 DEF CallInv
<1> QED
  BY <1>4, <1>13 DEF Kept

\* The head is APPROVED: its reservation is the entry it was granted.
LEMMA ApproveKeeps ==
  ASSUME BudgetInv, TypeOK', NEW p \in Processes, Approve(p)
  PROVE  /\ Kept
         /\ ~calls[p].raced =>
              Fits(Head(calls[p].chosen).trade, Book(Listed)')
<1> DEFINE g == calls[p].chosen
           t == Head(g).trade
           a == calls[p].admitted
           e == Granting(Head(g))
<1>0. TypeOK /\ CallInv(p) /\ Shape /\ UsedIsFinite /\ RowsAreAnswered
      /\ calls[p].at = "deciding" /\ Deciding(p, "PROPOSED") /\ UNCHANGED positions
  BY DEF BudgetInv, IInv, Approve, Deciding
<1>1. /\ g \in Seq(GrantRows) /\ g # <<>> /\ Distinct(g) /\ Head(g) = g[1]
      /\ t \in Trades /\ intents[t].state = "PROPOSED"
      /\ intents[t].risk = Head(g).risk
      /\ \A i \in 1 .. Len(Tail(g)) :
           /\ Tail(g)[i].trade \in Trades /\ Tail(g)[i].trade # t
           /\ intents[Tail(g)[i].trade].state = Absent
      /\ \A i \in 1 .. Len(a) :
           /\ a[i] \in Trades /\ a[i] # t
           /\ intents[a[i]].state \notin Unapproved
      /\ t \notin Rows
  BY <1>0, AtHead DEF Unapproved
<1>2. /\ calls'[p].at = "deciding" /\ calls'[p].seen = calls[p].seen
      /\ calls'[p].chosen = Tail(g) /\ calls'[p].admitted = Append(a, t)
      /\ calls'[p].raced = calls[p].raced
      /\ \A q \in Processes : q # p => calls'[q] = calls[q]
  <2>1. calls' = [calls EXCEPT ![p].chosen = Tail(g), ![p].admitted = Append(a, t)]
    BY DEF Approve
  <2> HIDE DEF a, t, g
  <2> QED
    BY <1>0, <2>1 DEF Shape
<1>3. /\ \A u \in Trades : u # t => intents'[u] = intents[u]
      /\ intents'[t].state = "APPROVED" /\ intents'[t].risk = Head(g).risk
  <2>1. intents' = [intents EXCEPT ![t].state = "APPROVED"]
    BY DEF Approve, SetState
  <2> HIDE DEF t, g
  <2> QED
    BY <1>0, <1>1, <2>1 DEF Shape
<1>e. e = Entry(t, intents'[t].risk, intents'[t].risk)
  BY <1>3 DEF Granting
<1>a. /\ a \in Seq(Trades) /\ Len(a) \in Nat /\ Len(Append(a, t)) = Len(a) + 1
      /\ \A i \in 1 .. Len(a) : Append(a, t)[i] = a[i]
      /\ Append(a, t)[Len(a) + 1] = t
      /\ ToSet(Append(a, t)) = ToSet(a) \cup {t}
  <2>1. a \in Seq(Trades)
    BY <1>0, Columns
  <2> HIDE DEF a, t
  <2>2. /\ Len(Append(a, t)) = Len(a) + 1 /\ Append(a, t) \in Seq(Trades)
        /\ \A i \in 1 .. Len(a) : Append(a, t)[i] = a[i]
        /\ Append(a, t)[Len(a) + 1] = t
    BY <1>1, <2>1, AppendProperties
  <2>3. Len(a) \in Nat /\ DOMAIN a = 1 .. Len(a)
        /\ DOMAIN Append(a, t) = 1 .. Len(a) + 1
    BY <2>1, <2>2, SeqFacts
  <2>4. 1 .. Len(a) + 1 = (1 .. Len(a)) \cup {Len(a) + 1}
    BY <2>3
  <2>5. ToSet(Append(a, t)) = ToSet(a) \cup {t}
    BY <2>2, <2>3, <2>4 DEF ToSet
  <2> QED
    BY <2>1, <2>2, <2>3, <2>5
<1> HIDE DEF g, t, a, e
<1>4. /\ UsedIsFinite' /\ RowsAreAnswered' /\ Forward
      /\ \A q \in Processes : q # p => CallInv(q)'
  BY <1>0, <1>1, <1>2, <1>3, DecisionKeepsRest DEF Admitting, Unapproved
<1>5. Listed' = Listed /\ Book(Listed)' \subseteq Book(Listed) \cup {e}
  <2>1. \A u \in Trades :
           intents'[u].state \in RiskReservedStates /\ ~intents'[u].linked =>
             \/ /\ intents[u].state \in RiskReservedStates
                /\ ~intents[u].linked /\ intents'[u].risk = intents[u].risk
             \/ Entry(u, intents'[u].risk, intents'[u].risk) \in {e}
    BY <1>3, <1>e
  <2> QED
    BY <1>0, <2>1, BookGains
<1>6. (NothingYet(p) /\ SeenIsFinite(p) /\ SeenIsCurrent(p))'
  BY <1>0, <1>2 DEF CallInv, NothingYet, SeenIsFinite, SeenIsCurrent
<1>7. SeenAreAnswered(p)'
  <2>1. \A x \in calls[p].seen : x.trade \in Trades
    BY <1>0, Columns DEF Entries
  <2> QED
    BY <1>0, <1>2, <1>4, <2>1 DEF CallInv, SeenAreAnswered, Forward
<1>8. AdmittedAreApproved(p)'
  <2>1. ASSUME NEW i \in 1 .. Len(a) + 1
        PROVE  intents'[Append(a, t)[i]].state \notin Unapproved
    <3>1. CASE i \in 1 .. Len(a)
      BY <1>1, <1>3, <1>a, <3>1
    <3>2. CASE i = Len(a) + 1
      BY <1>3, <1>a, <3>2 DEF Unapproved, Absent
    <3> QED
      BY <1>a, <3>1, <3>2
  <2> QED
    BY <1>2, <1>a, <2>1 DEF AdmittedAreApproved
<1>9. /\ Tail(g) \in Seq(GrantRows) /\ Distinct(Tail(g))
      /\ \A i \in 1 .. Len(Tail(g)) :
           /\ i + 1 \in 1 .. Len(g) /\ Tail(g)[i] = g[i + 1]
           /\ UpTo(g, i + 1) = {e} \cup UpTo(Tail(g), i)
      /\ ToSet(g) = {Head(g)} \cup ToSet(Tail(g))
      /\ CycleOf(g) = {e} \cup CycleOf(Tail(g))
      /\ UpTo(g, 1) = {e} /\ 1 \in 1 .. Len(g)
  BY <1>1, RestOfGrants DEF e
<1>10. ChosenArePending(p)'
  BY <1>1, <1>2, <1>3, <1>9 DEF ChosenArePending
<1>b. Book(Listed) \in SUBSET Entries /\ IsFiniteSet(Book(Listed))
  BY <1>0, ListedIsFinite, BookIsFinite
<1>f. \A i \in 1 .. Len(g) : /\ UpTo(g, i) \in SUBSET Entries
                             /\ IsFiniteSet(UpTo(g, i))
  BY <1>1, EntriesOfGrants, FS_Subset
<1>11. ChosenFit(p)'
  <2>1. SUFFICES ASSUME ~calls[p].raced, NEW i \in 1 .. Len(Tail(g))
                 PROVE  Fits(Tail(g)[i].trade, Book(Listed)' \cup UpTo(Tail(g), i))
    BY <1>2 DEF ChosenFit
  <2> DEFINE B == Book(Listed)
             C == UpTo(g, i + 1)
             D == Book(Listed)'
             E == UpTo(Tail(g), i)
             u == Tail(g)[i].trade
  <2>2. Fits(u, B \cup C)
    BY <1>0, <1>9, <2>1 DEF CallInv, ChosenFit, g
  <2>3. D \cup E \subseteq B \cup C /\ u \in Trades
    BY <1>1, <1>5, <1>9
  <2>4. B \in SUBSET Entries /\ IsFiniteSet(B)
    BY <1>b
  <2>5. C \in SUBSET Entries /\ IsFiniteSet(C)
    BY <1>9, <1>f
  <2> HIDE DEF B, C, D, E, u
  <2>6. B \cup C \in SUBSET Entries /\ IsFiniteSet(B \cup C)
    BY <2>4, <2>5, FS_Union
  <2>7. Fits(u, D \cup E)
    BY <2>2, <2>3, <2>6, FitsLess
  <2> QED
    BY <2>7 DEF D, E, u
<1>12. CycleFitsOf(p)'
  <2>1. CycleTrades(p)' = CycleTrades(p)
    <3>1. {x.trade : x \in ToSet(g)} = {t} \cup {x.trade : x \in ToSet(Tail(g))}
      BY <1>9 DEF t
    <3> QED
      BY <1>2, <1>a, <3>1 DEF CycleTrades, g, a
  <2>2. \A x \in ToSet(a) : intents'[x].risk = intents[x].risk
    <3>1. \A x \in ToSet(a) : x \in Trades /\ x # t
      BY <1>1, <1>a, SeqFacts DEF ToSet
    <3> QED
      BY <1>3, <3>1
  <2>3. CycleEntries(p)' = CycleEntries(p)
    <3> DEFINE own(x) == Entry(x, intents[x].risk, intents[x].risk)
               now(x) == Entry(x, intents'[x].risk, intents'[x].risk)
    <3>1. CycleEntries(p) = CycleOf(g) \cup {own(x) : x \in ToSet(a)}
      BY DEF CycleEntries, g, a
    <3>2. CycleEntries(p)' = CycleOf(Tail(g)) \cup {now(x) : x \in ToSet(a) \cup {t}}
      BY <1>2, <1>a DEF CycleEntries
    <3>3. {now(x) : x \in ToSet(a) \cup {t}} = {now(x) : x \in ToSet(a)} \cup {now(t)}
      OBVIOUS
    <3>4. {now(x) : x \in ToSet(a)} = {own(x) : x \in ToSet(a)}
      BY <2>2
    <3>5. now(t) = e
      BY <1>e
    <3> HIDE DEF own, now
    <3> QED
      BY <1>9, <3>1, <3>2, <3>3, <3>4, <3>5
  <2> QED
    BY <1>0, <2>1, <2>3, CycleFitsLess DEF CallInv
<1>13. CallInv(p)'
  BY <1>6, <1>7, <1>8, <1>10, <1>11, <1>12 DEF CallInv
<1>14. ASSUME ~calls[p].raced PROVE Fits(t, Book(Listed)')
  <2> DEFINE B == Book(Listed)
             D == Book(Listed)'
  <2>1. Fits(t, B \cup {e})
    <3>1. Fits(g[1].trade, B \cup UpTo(g, 1))
      BY <1>0, <1>9, <1>14 DEF CallInv, ChosenFit, g
    <3> QED
      BY <1>1, <1>9, <3>1 DEF t
  <2>2. D \subseteq B \cup {e}
    BY <1>5
  <2>3. B \in SUBSET Entries /\ IsFiniteSet(B) /\ e \in Entries
    BY <1>9, <1>b, <1>f
  <2> HIDE DEF B, D
  <2>4. B \cup {e} \in SUBSET Entries /\ IsFiniteSet(B \cup {e})
    BY <2>3, FS_AddElement
  <2>5. Fits(t, D)
    BY <1>1, <2>1, <2>2, <2>4, FitsLess
  <2> QED
    BY <2>5 DEF D
<1> QED
  BY <1>4, <1>13, <1>14 DEF Kept, t, g

-----------------------------------------------------------------------------
(* Every step keeps it, and what follows.                                  *)

\* No step of a cycle breaks what its budgets rest on.
LEMMA CycleKeeps ==
  ASSUME BudgetInv, TypeOK', NEW p \in Processes, Cycle(p)
  PROVE  Kept
<1>1. CASE BeginCycle(p)
  BY <1>1, BeginCycleKeeps
<1>2. CASE Allocate(p)
  BY <1>2, AllocateKeeps
<1>3. CASE Propose(p)
  <2>1. /\ Deciding(p, Absent) /\ UNCHANGED positions
        /\ \/ /\ SetState(Head(calls[p].chosen).trade, "REJECTED")
              /\ DropChosen(p)
           \/ Proposing(p) /\ UNCHANGED <<positions, calls>>
    BY <1>3 DEF Propose, Proposing
  <2>2. CASE SetState(Head(calls[p].chosen).trade, "REJECTED") /\ DropChosen(p)
    BY <2>1, <2>2, DroppingKeeps DEF Unapproved
  <2>3. CASE Proposing(p) /\ UNCHANGED <<positions, calls>>
    BY <2>1, <2>3, ProposingKeeps
  <2> QED
    BY <2>1, <2>2, <2>3
<1>4. CASE Approve(p)
  BY <1>4, ApproveKeeps
<1>5. CASE Reject(p)
  <2>1. /\ Deciding(p, "PROPOSED") /\ UNCHANGED positions
        /\ SetState(Head(calls[p].chosen).trade, "REJECTED") /\ DropChosen(p)
    BY <1>5 DEF Reject
  <2> QED
    BY <2>1, DroppingKeeps DEF Unapproved
<1>6. CASE EndCycle(p)
  BY <1>6, EndCycleKeeps
<1> QED
  BY <1>1, <1>2, <1>3, <1>4, <1>5, <1>6 DEF Cycle

\* And no other step does.
LEMMA BudgetStep == BudgetInv /\ [Next]_vars => BudgetInv'
<1> SUFFICES ASSUME BudgetInv, [Next]_vars PROVE BudgetInv'
  OBVIOUS
<1>1. IInv' /\ TypeOK'
  BY BackedStep, TypeStep DEF BudgetInv
<1>2. Kept
  <2>1. CASE \E p \in Processes : Cycle(p)
    BY <1>1, <2>1, CycleKeeps
  <2>2. CASE \E p \in Processes : Execute(p)
    <3>1. Background
      BY <2>2, ExecuteIsBackground
    <3> QED
      BY <1>1, <3>1, BackgroundKeeps DEF Kept
  <2>3. CASE \/ \E p \in Processes : Crash(p)
             \/ \E p \in Processes, t \in Trades : Close(p, t)
             \/ \E t \in Trades : Reconcile(t)
             \/ UNCHANGED vars
    <3>1. Background
      BY <2>3, OthersAreBackground
    <3> QED
      BY <1>1, <3>1, BackgroundKeeps DEF Kept
  <2> QED
    BY <2>1, <2>2, <2>3 DEF Next
<1> QED
  BY <1>1, <1>2 DEF BudgetInv, Kept

\* At the start the tables are empty and no call is in progress.
LEMMA InitBudgetInv == Init => BudgetInv
<1> SUFFICES ASSUME Init PROVE BudgetInv
  OBVIOUS
<1>1. IInv
  BY InitIInv
<1>2. /\ \A t \in Trades : /\ intents[t].state = Absent
                           /\ positions[t].open = FALSE
      /\ \A p \in Processes : calls[p] = IdleCall
  BY DEF Init, NoRow
<1>3. TypeOK
  <2>1. IdleCall \in CallRows
    BY DEF IdleCall, CallRows
  <2>2. calls \in [Processes -> CallRows]
    BY <2>1 DEF Init
  <2>3. \A p \in Processes : lock = p <=> calls[p].at \in {"reading", "deciding"}
    BY <1>2, ProcessesAssumption DEF Init, IdleCall
  <2>4. crashes \in 0 .. MaxCrashes
    BY LimitsAssumption DEF Init
  <2> QED
    BY <2>2, <2>3, <2>4 DEF TypeOK, Init, NoRow, CallRows, Entries, GrantRows
<1>4. UsedIsFinite
  <2>1. {t \in Trades : intents[t].state # Absent} = {}
    BY <1>2
  <2> QED
    BY <2>1, FS_EmptySet DEF UsedIsFinite
<1>5. RowsAreAnswered
  BY <1>2 DEF RowsAreAnswered, Rows
<1>6. ASSUME NEW p \in Processes PROVE CallInv(p)
  <2>1. /\ calls[p].at = "idle" /\ calls[p].seen = {}
        /\ calls[p].chosen = <<>> /\ calls[p].admitted = <<>>
        /\ Len(calls[p].admitted) = 0
    BY <1>2 DEF IdleCall
  <2>2. SeenIsFinite(p)
    BY <2>1, FS_EmptySet DEF SeenIsFinite
  <2> QED
    BY <2>1, <2>2 DEF CallInv, NothingYet, SeenAreAnswered, SeenIsCurrent,
          AdmittedAreApproved, ChosenArePending, ChosenFit
<1> QED
  BY <1>1, <1>3, <1>4, <1>5, <1>6 DEF BudgetInv

\* Only an approval approves.
LEMMA OnlyApprovals ==
  ASSUME BudgetInv, [Next]_vars, NEW p \in Processes, NEW t \in Trades,
         Approves(p, t)
  PROVE  Approve(p) /\ t = Head(calls[p].chosen).trade
<1>0. /\ Shape
      /\ intents[t].state # "APPROVED" /\ intents'[t].state = "APPROVED"
      /\ calls'[p].admitted # calls[p].admitted
  BY DEF BudgetInv, IInv, Approves
<1>s. ASSUME NEW u, NEW s, SetState(u, s)
      PROVE  s = "APPROVED" /\ t = u
  BY <1>0, <1>s DEF SetState, Shape
<1>1. ASSUME NEW q \in Processes, Cycle(q)
      PROVE  Approve(q) /\ t = Head(calls[q].chosen).trade
  <2>1. CASE BeginCycle(q)
    BY <1>0, <2>1 DEF BeginCycle
  <2>2. CASE Allocate(q)
    <3>1. PICK refused : intents' = [u \in Trades |-> IF u \in refused
                  THEN [intents[u] EXCEPT !.state = "REJECTED"] ELSE intents[u]]
      BY <2>2 DEF Allocate
    <3>2. intents'[t] = IF t \in refused
                  THEN [intents[t] EXCEPT !.state = "REJECTED"] ELSE intents[t]
      BY <3>1
    <3> QED
      BY <1>0, <3>2 DEF Shape
  <2>3. CASE Propose(q)
    <3>1. \/ SetState(Head(calls[q].chosen).trade, "REJECTED")
          \/ Proposing(q)
      BY <2>3 DEF Propose, Proposing
    <3>2. CASE Proposing(q)
      <4> DEFINE u == Head(calls[q].chosen).trade
                 n == Head(calls[q].chosen).risk
      <4>1. intents' = [intents EXCEPT ![u].state = "PROPOSED", ![u].risk = n]
        BY <3>2 DEF Proposing
      <4> HIDE DEF u, n
      <4> QED
        BY <1>0, <4>1 DEF Shape
    <3> QED
      BY <1>s, <3>1, <3>2
  <2>4. CASE Approve(q)
    <3>1. SetState(Head(calls[q].chosen).trade, "APPROVED")
      BY <2>4 DEF Approve
    <3> QED
      BY <1>s, <2>4, <3>1
  <2>5. CASE Reject(q)
    BY <1>s, <2>5 DEF Reject
  <2>6. CASE EndCycle(q)
    BY <1>0, <2>6 DEF EndCycle
  <2> QED
    BY <1>1, <2>1, <2>2, <2>3, <2>4, <2>5, <2>6 DEF Cycle
<1>2. ASSUME NEW q \in Processes, Execute(q) PROVE FALSE
  <2>1. CASE RefuseOrder(q)
    BY <1>s, <2>1 DEF RefuseOrder
  <2>2. CASE Submit(q)
    BY <1>s, <2>2 DEF Submit
  <2>3. CASE Answered(q)
    <3>1. \E s \in {"FILLED", "PARTIALLY_FILLED", "FAILED", "ACKNOWLEDGED"} :
            SetState(Head(calls[q].admitted), s)
      BY <2>3 DEF Answered, Fill
    <3> QED
      BY <1>s, <3>1
  <2>4. CASE RecordPosition(q)
    BY <1>0, <2>4 DEF RecordPosition
  <2>5. CASE LinkPosition(q)
    <3> DEFINE u == Head(calls[q].admitted)
    <3>1. PICK s : /\ intents' = [intents EXCEPT ![u].state = s, ![u].linked = TRUE]
                   /\ s \in {"POSITION_OPENED", intents[u].state}
      BY <2>5 DEF LinkPosition
    <3> HIDE DEF u
    <3> QED
      BY <1>0, <3>1 DEF Shape
  <2>6. CASE EndCall(q)
    BY <1>0, <2>6 DEF EndCall
  <2> QED
    BY <1>2, <2>1, <2>2, <2>3, <2>4, <2>5, <2>6 DEF Execute
<1>3. ASSUME NEW q \in Processes, Crash(q) PROVE FALSE
  BY <1>0, <1>3 DEF Crash
<1>4. ASSUME NEW q \in Processes, NEW u \in Trades, Close(q, u) PROVE FALSE
  BY <1>s, <1>4 DEF Close
<1>5. ASSUME NEW u \in Trades, Reconcile(u) PROVE FALSE
  <2>1. \/ intents' = [intents EXCEPT ![u].state = "POSITION_OPENED",
                                      ![u].linked = TRUE]
        \/ intents' = intents
    BY <1>5 DEF Reconcile
  <2> QED
    BY <1>0, <2>1 DEF Shape
<1>6. CASE UNCHANGED vars
  BY <1>0, <1>6 DEF vars
<1>7. PICK q \in Processes : Approve(q) /\ t = Head(calls[q].chosen).trade
  BY <1>1, <1>2, <1>3, <1>4, <1>5, <1>6 DEF Next
<1>8. q = p
  <2> DEFINE g == Tail(calls[q].chosen)
             a == Append(calls[q].admitted, t)
  <2>1. calls' = [calls EXCEPT ![q].chosen = g, ![q].admitted = a]
    BY <1>7 DEF Approve
  <2> HIDE DEF g, a
  <2>2. q # p => calls'[p] = calls[p]
    BY <1>0, <2>1 DEF Shape
  <2> QED
    BY <1>0, <2>2
<1> QED
  BY <1>7, <1>8

\* TypeOK: sizes, risks and the sums of the budgets stay natural numbers, and
\* the admission lock is held exactly by the process that is admitting.
THEOREM BudgetTypes == Spec => []TypeOK
<1>1. BudgetInv => TypeOK
  BY DEF BudgetInv
<1> QED
  BY InitBudgetInv, BudgetStep, <1>1, PTL DEF Spec

\* What one cycle has chosen and admitted is within the risk and the number of
\* positions of a cycle, and on as many instruments, however allocate ranked
\* the signals, rounded the sizes and decided each of them.
THEOREM CyclesFit == Spec => []CycleFits
<1>1. BudgetInv => CycleFits
  BY DEF BudgetInv, CallInv, CycleFits, CycleFitsOf, CycleTrades, CycleEntries
<1> QED
  BY InitBudgetInv, BudgetStep, <1>1, PTL DEF Spec

\* An entry is approved only if the whole book of the database, with it, is
\* within every budget the entry is charged to, unless a position was recorded
\* during the admission.
THEOREM AdmissionsFitTheBook == Spec => AdmissionsFit
<1>1. ASSUME BudgetInv, [Next]_vars
      PROVE  \A p \in Processes, t \in Trades :
               Approves(p, t) => Fits(t, Book(Listed)')
  <2>1. SUFFICES ASSUME NEW p \in Processes, NEW t \in Trades, Approves(p, t)
                 PROVE  Fits(t, Book(Listed)')
    OBVIOUS
  <2>2. Approve(p) /\ t = Head(calls[p].chosen).trade
    BY <1>1, <2>1, OnlyApprovals
  <2>3. TypeOK' /\ ~calls[p].raced
    BY <1>1, <2>1, TypeStep DEF Approves
  <2> QED
    BY <1>1, <2>2, <2>3, ApproveKeeps
<1> QED
  BY InitBudgetInv, BudgetStep, <1>1, PTL DEF Spec, AdmissionsFit
=============================================================================
