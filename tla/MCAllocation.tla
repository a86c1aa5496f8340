---------------------------- MODULE MCAllocation ----------------------------
EXTENDS Allocation, TLC

\* Strategies of one family on currency pairs with the dollar, the first and
\* the third trade in competition for theirs; the last trade is of a family
\* and a market of its own.
MCStrategy == <<"trend", "carry", "carry", "index">>
MCFamily == <<"fx", "fx", "fx", "index">>
MCInstrument == <<"EURUSD", "GBPUSD", "EURUSD", "FTSE">>
MCCurrencies == <<{"EUR", "USD"}, {"GBP", "USD"}, {"EUR", "USD"}, {}>>
MCWanted == <<4, 3, 4, 2>>
MCWeight == <<1, 2, 1, 1>>
MCMinDeal == <<2, 3, 2, 1>>
MCStep == <<2, 1, 1, 1>>
MCLimit == [portfolio |-> 8, strategy |-> 5, family |-> 6, instrument |-> 5,
            currency |-> 3]
Symmetry == Permutations(Processes)
=============================================================================
