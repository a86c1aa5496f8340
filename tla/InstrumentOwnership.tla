------------------------ MODULE InstrumentOwnership ------------------------
(***************************************************************************)
(* What the trading pipeline promises about the risk of one instrument,    *)
(* and nothing of how (docs/trade-lifecycle.md, Same-Instrument            *)
(* Exclusivity and Target Invariants): one owner at a time, one order per  *)
(* owner, and no owner gives the instrument up while the broker holds, or  *)
(* may still hold, what it ordered.                                        *)
(***************************************************************************)
CONSTANT Intents

VARIABLES owner,     \* the intents that own the instrument: none or one
          claimed,   \* the intents that ever owned it
          ordered,   \* the intents whose order was sent to the broker
          exposed    \* those whose order or deal the broker may hold

vars == <<owner, claimed, ordered, exposed>>

Init == owner = {} /\ claimed = {} /\ ordered = {} /\ exposed = {}

Claim(i) ==
  /\ owner = {}
  /\ i \notin claimed
  /\ owner' = {i}
  /\ claimed' = claimed \cup {i}
  /\ UNCHANGED <<ordered, exposed>>

Order(i) ==
  /\ owner = {i}
  /\ i \notin ordered
  /\ ordered' = ordered \cup {i}
  /\ exposed' = exposed \cup {i}
  /\ UNCHANGED <<owner, claimed>>

\* The broker refuses the order, or the deal is closed.
Settle(i) ==
  /\ i \in exposed
  /\ exposed' = exposed \ {i}
  /\ UNCHANGED <<owner, claimed, ordered>>

Yield(i) ==
  /\ owner = {i}
  /\ i \notin exposed
  /\ owner' = {}
  /\ UNCHANGED <<claimed, ordered, exposed>>

Next == \E i \in Intents : Claim(i) \/ Order(i) \/ Settle(i) \/ Yield(i)

Spec == Init /\ [][Next]_vars
=============================================================================
