----------------------------- MODULE MCEvmToSol -----------------------------
(***************************************************************************)
(* Instances of EvmToSol for TLC.  A unit of time is one claim window.      *)
(***************************************************************************)
EXTENDS EvmToSol

CONSTANTS user, n1, n2, q1, r1, owner, usdc

MCDefaultConfig ==
  [relayer |-> r1, feePercentage |-> 1000, minFee |-> 2, maxFee |-> 5,
   claimWindow |-> 1, minSolverBond |-> 2, slashBps |-> 5000,
   slashCollector |-> owner]

NoPairs == {}
=============================================================================
