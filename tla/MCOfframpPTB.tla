---------------------------- MODULE MCOfframpPTB ----------------------------
(* Model of ptb-offramp.ts for TLC.  Unit: 0.5 SUI.  The gas budget of      *)
(* 500_000_000 MIST is one unit, the 1 SUI low-balance threshold two; the   *)
(* cap of three units leaves balances below the budget, between budget and  *)
(* threshold, and above the threshold.                                      *)
EXTENDS OfframpPTB

MCGasBudget   == 1
MCLowBalance  == 2
MCFaucetGrant == 2
MCBalanceCap  == 3
=============================================================================
