-------------------------- MODULE MCTradeLifecycle --------------------------
(* TLC instances of TradeLifecycle.                                        *)
EXTENDS TradeLifecycle, TLC

StrategySymmetry == Permutations(Strategies)
=============================================================================
