--------------------------- MODULE LifecycleRules ---------------------------
(***************************************************************************)
(* The trade intent and execution state machines of                        *)
(*   backend/app/services/lifecycle_rules.py                               *)
(* and the ownership index of backend/app/models/trade.py.  Every write of *)
(* a state goes through them (TradeService.transition_trade_intent and     *)
(* transition_execution): a transition that is not in the table raises.    *)
(***************************************************************************)

Absent == "ABSENT"                       \* no such row yet

IntentTerminalStates ==
  {"REJECTED", "CLOSED", "FAILED", "CANCELLED", "FORCED_RECONCILIATION_CLOSE"}

\* ACTIVE_INSTRUMENT_OWNERSHIP_STATES: the partial unique index
\* uq_trade_intent_active_instrument admits one such intent per instrument.
ActiveOwnershipStates ==
  {"PROPOSED", "APPROVED", "SUBMITTED", "ACKNOWLEDGED", "PARTIALLY_FILLED",
   "FILLED", "POSITION_OPENED", "CLOSE_REQUESTED",
   "EXTERNAL_POSITION_ADOPTED", "RECOVERED_POSITION_ATTACHED"}

IntentStates == IntentTerminalStates \cup ActiveOwnershipStates

ProvenanceStates == {"EXTERNAL_POSITION_ADOPTED", "RECOVERED_POSITION_ATTACHED"}

\* A position that is open or being closed answers to a close or to the
\* reconciliation, whatever brought it about.
Reclosable == {"CLOSE_REQUESTED", "FORCED_RECONCILIATION_CLOSE"}

IntentTransitions == [state \in IntentStates |->
  CASE state = "PROPOSED" -> {"APPROVED", "REJECTED"}
    [] state = "APPROVED" -> {"APPROVED", "SUBMITTED", "FAILED"}
    [] state = "SUBMITTED" ->
         {"ACKNOWLEDGED", "FAILED", "CANCELLED"} \cup Reclosable
    [] state = "ACKNOWLEDGED" ->
         {"ACKNOWLEDGED", "FILLED", "PARTIALLY_FILLED", "POSITION_OPENED",
          "FAILED", "CANCELLED"} \cup Reclosable
    [] state = "FILLED" -> {"POSITION_OPENED", "CLOSED"}
    [] state = "CLOSE_REQUESTED" ->
         {"SUBMITTED", "FORCED_RECONCILIATION_CLOSE"}
    [] state \in {"PARTIALLY_FILLED", "POSITION_OPENED"} \cup ProvenanceStates ->
         {state} \cup Reclosable
    [] state \in IntentTerminalStates -> {state}]

ExecutionTerminalStatuses ==
  {"POSITION_OPENED", "CLOSE_CONFIRMED", "FAILED", "CANCELLED"}

\* The statuses that current code writes; legacy ones have no transition.
ExecutionStatuses ==
  {"SUBMISSION_PENDING", "ORDER_SUBMITTED", "ORDER_ACKNOWLEDGED",
   "FILL_PARTIAL", "FILL_FULL", "NEEDS_MANUAL_REVIEW"}
    \cup ExecutionTerminalStatuses

\* Ways for an attempt to end without a fill, or undecided.
Unfilled == {"FAILED", "CANCELLED", "NEEDS_MANUAL_REVIEW"}

ExecutionTransitions == [status \in ExecutionStatuses |->
  CASE status = "SUBMISSION_PENDING" ->
         {"SUBMISSION_PENDING", "ORDER_SUBMITTED"} \cup Unfilled
    [] status = "ORDER_SUBMITTED" -> {"ORDER_ACKNOWLEDGED"} \cup Unfilled
    [] status = "ORDER_ACKNOWLEDGED" ->
         {"FILL_PARTIAL", "FILL_FULL"} \cup Unfilled
    [] status = "FILL_PARTIAL" -> {"NEEDS_MANUAL_REVIEW"}
    [] status = "FILL_FULL" -> {"POSITION_OPENED", "CLOSE_CONFIRMED"}
    [] status = "NEEDS_MANUAL_REVIEW" -> {"POSITION_OPENED"}
    [] status \in ExecutionTerminalStatuses -> {status}]

\* RETRYABLE_, UNSAFE_ENTRY_RETRY_ and SAFE_CLOSE_RETRY_STATUSES of
\* strategy_service.py.
SafeRetryStatuses == {"SUBMISSION_PENDING"}
UnsafeRetryStatuses == {"ORDER_SUBMITTED", "ORDER_ACKNOWLEDGED", "FILL_PARTIAL",
                        "NEEDS_MANUAL_REVIEW"}

\* find_close_admissible_trade_intent, and the guard of _execute_exit_signal
\* (the mutant forgets the partial fills).
CloseAdmissibleStates_FullOnly ==
  {"POSITION_OPENED", "CLOSE_REQUESTED", "SUBMITTED", "ACKNOWLEDGED"}
    \cup ProvenanceStates
CloseAdmissibleStates ==
  {"PARTIALLY_FILLED", "POSITION_OPENED", "CLOSE_REQUESTED", "SUBMITTED",
   "ACKNOWLEDGED"} \cup ProvenanceStates
=============================================================================
