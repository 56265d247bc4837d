----------------------------- MODULE MCNewRelayer -----------------------------
(***************************************************************************)
(* Instances of NewRelayer for TLC.  A unit of time stands for ten minutes, *)
(* so the default claim window of twenty minutes is 2.                      *)
(***************************************************************************)
EXTENDS NewRelayer

CONSTANTS user, n1, n2, r1, r2, owner, vault, usdc, weth

\* Ten per cent of 20 is 2; a deposit of 1 or 2 is within the small-amount rule.
MCDefaultConfig ==
  [relayer |-> r1, feePercentage |-> 1000, minFee |-> 2, maxFee |-> 5,
   claimWindow |-> 2, minSolverBond |-> 2, slashBps |-> 5000,
   slashCollector |-> owner]

MCFeeLimits == {<<1, 3>>, <<3, 3>>}
MCSlashParams == {<<10000, owner>>, <<5000, ZeroAddress>>, <<5000, vault>>,
                  <<10001, owner>>}
NoPairs == {}
=============================================================================
