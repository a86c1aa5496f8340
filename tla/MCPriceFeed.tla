---------------------------- MODULE MCPriceFeed ----------------------------
(* TLC instance of PriceFeed.                                              *)
EXTENDS PriceFeed, TLC
=============================================================================
