---------------------------- MODULE MCBridgePage ----------------------------
(***************************************************************************)
(* Instances of BridgePage for TLC.                                         *)
(***************************************************************************)
EXTENDS BridgePage

CONSTANTS a1, a2, w1, w2

\* Two accounts behind one provider, and one of them behind another.
MCWallet ==
  {Disconnected, [account |-> a1, provider |-> w1],
   [account |-> a2, provider |-> w1], [account |-> a2, provider |-> w2]}
=============================================================================
