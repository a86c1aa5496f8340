---------------------------- MODULE MCCoverage ----------------------------
EXTENDS Coverage

\* Two classes; the budget of the first is one slot.
MCClass == [i \in 1 .. InstrumentCount |-> IF i <= 2 THEN "FX" ELSE "INDEX"]
MCClassBudget == [class \in {"FX"} |-> 1]
=============================================================================
