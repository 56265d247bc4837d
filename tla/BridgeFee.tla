------------------------------ MODULE BridgeFee ------------------------------
(***************************************************************************)
(* The arithmetic both ends of the bridge share: the fee taken from a      *)
(* deposit and the part of a bond an expired claim forfeits.  Both are in   *)
(* basis points and both round down, as integer division does in Solidity  *)
(* and in Rust.                                                             *)
(***************************************************************************)
EXTENDS Integers

BpsDenominator == 10000

\* What a deposit pays before the small-amount rule: the percentage, then
\* raised to minFee, then cut to maxFee (in that order: maxFee wins).
ClampedFee(cfg, amount) ==
  LET percentage == (amount * cfg.feePercentage) \div BpsDenominator
      raised     == IF percentage < cfg.minFee THEN cfg.minFee ELSE percentage
  IN  IF raised > cfg.maxFee THEN cfg.maxFee ELSE raised

\* NewRelayer._calculateFee; deposit.rs and deposit_sol.rs compute the same.
CalculateFee(cfg, amount) ==
  LET clamped == ClampedFee(cfg, amount)
  IN  IF clamped >= amount THEN amount \div 2 ELSE clamped

\* The forfeited part of a bond.
SlashAmount(bond, slashBps) == (bond * slashBps) \div BpsDenominator
=============================================================================
