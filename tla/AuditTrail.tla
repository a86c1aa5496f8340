----------------------------- MODULE AuditTrail -----------------------------
(***************************************************************************)
(* The durable evidence of one record: a trade intent, an execution or an  *)
(* allocation cycle.                                                       *)
(*                                                                         *)
(*   backend/app/services/trade_service.py      _record_..._domain_event,  *)
(*                                              _mark_..._failure          *)
(*   backend/app/services/capital_allocator_service.py                     *)
(*                                              _persist_cycle_summary     *)
(*   backend/app/services/domain_event_service.py  record_event_in_session *)
(*   backend/app/services/audit_event_recorder.py, backend/app/api/audit.py*)
(*                                              required events            *)
(*   backend/app/services/strategy_service.py   _record_domain_event,      *)
(*                                              _record_close_broker_...   *)
(*                                                                         *)
(* A change of the record is committed first; its event is a second        *)
(* commit.  When that one fails, the loss is noted in the record's details *)
(* (a third commit) or, for a required event, told to the health service   *)
(* before an exception ends the caller.  The event loop and a thread of    *)
(* the API each have a session with a copy of the row of their own, which  *)
(* a commit expires and nothing else does; a commit writes the columns     *)
(* that changed and the whole details column if it changed at all.         *)
(*                                                                         *)
(* Abstracted: what an event says but for the change it is about; the      *)
(* details but for the losses noted in them.  A commit that raises has     *)
(* written nothing.                                                        *)
(***************************************************************************)
EXTENDS LifecycleRules, Naturals

CONSTANTS
  Sessions,     \* the event loop's and the threads' database sessions
  MaxCalls      \* bound on the calls of the services about the record

ASSUME MaxCallsAssumption == MaxCalls \in Nat

VARIABLES
  kind,         \* "intent", "execution" or "cycle"
  row,          \* the record: its state and the losses noted in details
  calls,        \* how many calls have been made
  session,      \* per session: the call in progress and its copy of the row
  told,         \* the events in domain_event
  raised,       \* the required events whose loss health was told of
  owed,         \* history: the events that the calls made so far stand for
  overlapped,   \* history: a call began during another one, or on an old copy
  lost,         \* history: an event was not written
  spoiled       \* history: a crash or a third failure left no evidence

record == <<kind, row, told, raised>>
history == <<owed, overlapped, lost, spoiled>>
vars == <<record, calls, session, history>>

Kinds == {"intent", "execution", "cycle"}
States == IntentStates \cup ExecutionStatuses \cup {"COMPLETED", Absent}
Events == [call : 1..MaxCalls, from : States, to : States]
Rows == [state : States, marks : SUBSET Events]
NoRow == [state |-> Absent, marks |-> {}]

-----------------------------------------------------------------------------
(* The three kinds of record                                               *)

\* create_trade_intent, create_execution, record_allocation_cycle (the mutant
\* lets a legacy status in).
FirstStates_Unvalidated ==
  CASE kind = "intent" -> {"PROPOSED"} \cup ProvenanceStates
    [] kind = "execution" -> {"SUBMISSION_PENDING", "RISK_APPROVED"}
    [] kind = "cycle" -> {"COMPLETED"}
FirstStates ==
  CASE kind = "intent" -> {"PROPOSED"} \cup ProvenanceStates
    [] kind = "execution" -> {"SUBMISSION_PENDING"}
    [] kind = "cycle" -> {"COMPLETED"}

NextStates(state) ==
  CASE kind = "intent" /\ state \in IntentStates -> IntentTransitions[state]
    [] kind = "execution" /\ state \in ExecutionStatuses ->
         ExecutionTransitions[state]
    [] OTHER -> {}

-----------------------------------------------------------------------------
(* Sessions                                                                *)

Steps == {"idle", "committed", "journal", "required", "guarded",
          "mark", "marking"}
Nothing == [call |-> 0, from |-> Absent, to |-> Absent]
Resting(view) == [at |-> "idle", event |-> Nothing, view |-> view]

Busy == {s \in Sessions : session[s].at # "idle"}
Events0 == Events \cup {Nothing}

TypeOK ==
  /\ kind \in Kinds
  /\ row \in Rows
  /\ calls \in 0..MaxCalls
  /\ session \in [Sessions -> [at : Steps, event : Events0, view : Rows]]
  /\ \A s \in Busy : session[s].event \in Events
  /\ told \in SUBSET Events /\ raised \in SUBSET Events
  /\ owed \in SUBSET Events
  /\ <<overlapped, lost, spoiled>> \in BOOLEAN \X BOOLEAN \X BOOLEAN

Init ==
  /\ kind \in Kinds
  /\ row = NoRow
  /\ calls = 0
  /\ session = [s \in Sessions |-> Resting(NoRow)]
  /\ told = {} /\ raised = {} /\ owed = {}
  /\ overlapped = FALSE /\ lost = FALSE /\ spoiled = FALSE

\* A copy that a commit has expired is read again when it is looked at; any
\* other stays as it is until the session is told to.
Load(s) ==
  /\ session[s].at = "idle"
  /\ row # NoRow
  /\ session' = [session EXCEPT ![s].view = row]
  /\ UNCHANGED <<record, calls, history>>

Begins(s, step, from, to, stale) ==
  /\ session[s].at = "idle"
  /\ calls < MaxCalls
  /\ calls' = calls + 1
  /\ session' = [session EXCEPT ![s] =
                   [at |-> step, view |-> NoRow,
                    event |-> [call |-> calls', from |-> from, to |-> to]]]
  /\ overlapped' = (overlapped \/ stale \/ Busy # {})

Rest(s, view) == session' = [session EXCEPT ![s] = Resting(view)]
GoesTo(s, step) ==
  session' = [session EXCEPT ![s].at = step, ![s].view = NoRow]

-----------------------------------------------------------------------------
(* The changes and their events                                            *)

Create(s) ==
  /\ row = NoRow
  /\ \E state \in FirstStates :
       /\ row' = [state |-> state, marks |-> {}]
       /\ Begins(s, "committed", Absent, Absent, FALSE)
       /\ owed' = owed \cup
                    {[call |-> calls', from |-> Absent, to |-> state]}
  /\ UNCHANGED <<kind, told, raised, lost, spoiled>>

\* The details that a transition supplies are merged into those of the
\* session's copy (the mutant puts them in their place).
Details_Replaced(s) == {}
Details(s) == session[s].view.marks

\* The state the transition starts from is the copy's, kept from before the
\* assignment (the mutant reads it afterwards).
Previous_ReadLate(s, state) == state
Previous(s, state) == session[s].view.state

\* transition_trade_intent, transition_execution: validated against the copy;
\* the state column is written if it differs from the copy's.
Move(s) ==
  LET view == session[s].view IN
  /\ view # NoRow
  /\ \E state \in NextStates(view.state), supplies \in BOOLEAN :
       /\ row' = [state |-> IF state = view.state THEN row.state ELSE state,
                  marks |-> IF supplies THEN Details(s) ELSE row.marks]
       /\ Begins(s, "committed", Previous(s, state), state, view # row)
       /\ owed' = IF state = view.state THEN owed
                  ELSE owed \cup {[call |-> calls', from |-> view.state,
                                   to |-> state]}
  /\ UNCHANGED <<kind, told, raised, lost, spoiled>>

IsMove(event) == event.from # event.to
About(event) == IF IsMove(event) THEN [event EXCEPT !.to = row.state] ELSE event

\* refresh; the event is about the state that is read back, and there is none
\* if it is the previous one.
Refresh(s) ==
  /\ session[s].at = "committed"
  /\ IF session[s].event.from = row.state
       THEN Rest(s, row)
       ELSE session' = [session EXCEPT ![s] =
                          [at |-> "journal", view |-> row,
                           event |-> [@.event EXCEPT !.to = row.state]]]
  /\ UNCHANGED <<record, calls, history>>

\* record_event_in_session: add and commit, or roll back and return None.
\* Either way the session's copies are expired.
Journals(s) ==
  /\ session[s].at \in {"journal", "required", "guarded"}
  /\ told' = told \cup {session[s].event}
  /\ Rest(s, NoRow)
  /\ UNCHANGED <<kind, row, raised, calls, history>>

JournalFails(s) ==
  /\ session[s].at = "journal"
  /\ lost' = TRUE
  /\ GoesTo(s, "mark")
  /\ UNCHANGED <<record, calls, owed, overlapped, spoiled>>

\* An event of its own about an intent or an execution: of a partial fill, a
\* drift, a correction, a forced close ("required"), or of an execution's
\* close, whose loss is caught ("guarded").  It changes nothing.
Require(s) ==
  /\ kind # "cycle"
  /\ session[s].view # NoRow
  /\ \E step \in {"required", "guarded"} :
       /\ step = "guarded" => kind = "execution"
       /\ Begins(s, step, session[s].view.state, session[s].view.state, FALSE)
  /\ owed' = owed \cup {session'[s].event}
  /\ UNCHANGED <<record, lost, spoiled>>

\* record_required_domain_event tells health and raises; the routes answer
\* 503.
RequiredFails(s) ==
  /\ session[s].at = "required"
  /\ raised' = raised \cup {session[s].event}
  /\ lost' = TRUE
  /\ Rest(s, NoRow)
  /\ UNCHANGED <<kind, row, told, calls, owed, overlapped, spoiled>>

\* _record_close_broker_action_event catches it and notes it in the
\* execution; health, which also counts it, is not the evidence here.
GuardedFails(s) ==
  /\ session[s].at = "guarded"
  /\ lost' = TRUE
  /\ GoesTo(s, "mark")
  /\ UNCHANGED <<record, calls, owed, overlapped, spoiled>>

-----------------------------------------------------------------------------
(* _mark_..._audit_persistence_failure: read the details, append, commit   *)

\* The note on a change names the state that is read now.
MarkReads(s) ==
  /\ session[s].at = "mark"
  /\ session' = [session EXCEPT ![s] =
                   [at |-> "marking", view |-> row, event |-> About(@.event)]]
  /\ UNCHANGED <<record, calls, history>>

MarkWrites(s) ==
  /\ session[s].at = "marking"
  /\ row' = [row EXCEPT !.marks = session[s].view.marks \cup {session[s].event}]
  /\ Rest(s, row')
  /\ UNCHANGED <<kind, told, raised, calls, history>>

\* The note's commit raises: the caller ends, the change stays.
MarkFails(s) ==
  /\ session[s].at = "marking"
  /\ spoiled' = TRUE
  /\ Rest(s, NoRow)
  /\ UNCHANGED <<record, calls, owed, overlapped, lost>>

Crash ==
  /\ Busy # {}
  /\ spoiled' = TRUE
  /\ session' = [s \in Sessions |-> Resting(NoRow)]
  /\ UNCHANGED <<record, calls, owed, overlapped, lost>>

-----------------------------------------------------------------------------
Next ==
  \/ \E s \in Sessions :
       \/ Load(s) \/ Create(s) \/ Move(s) \/ Refresh(s)
       \/ Require(s) \/ Journals(s) \/ JournalFails(s)
       \/ RequiredFails(s) \/ GuardedFails(s)
       \/ MarkReads(s) \/ MarkWrites(s) \/ MarkFails(s)
  \/ Crash

Spec == Init /\ [][Next]_vars

-----------------------------------------------------------------------------
(* Properties                                                              *)

\* As long as one call about the record ends before the next begins, every
\* change and every required event is told, noted in the record or known to
\* health when nobody is at work, and what is noted as lost was not told
\* (PROD-012 of docs/spec/00-product-intent.md).
EvidenceIsComplete ==
  ~overlapped /\ ~spoiled /\ Busy = {} =>
    /\ owed = told \cup row.marks \cup raised
    /\ told \cap (row.marks \cup raised) = {}

\* Even calls that overlap and write from old copies leave an event about the
\* state that the record ends up in, when all events could be written.
NewestStateIsTold ==
  row # NoRow /\ ~lost /\ ~spoiled /\ Busy = {} =>
    \E event \in told : IsMove(event) /\ event.to = row.state
=============================================================================
