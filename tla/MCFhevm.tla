------------------------------ MODULE MCFhevm ------------------------------
(***************************************************************************)
(* Instances of Fhevm for TLC.                                              *)
(***************************************************************************)
EXTENDS Fhevm

CONSTANTS p1, p2, sepolia, hardhat

\* Disconnected, a provider on two chains, another provider.
MCWallet ==
  {[provider |-> NoProvider, chain |-> NoChain],
   [provider |-> p1, chain |-> sepolia],
   [provider |-> p1, chain |-> hardhat], [provider |-> p2, chain |-> sepolia]}
=============================================================================
