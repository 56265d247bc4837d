---------------------------- MODULE MCSolanaBridge ----------------------------
(***************************************************************************)
(* Instances of SolanaBridge for TLC.  A unit of time stands for one claim  *)
(* window of the scripts' configuration.                                    *)
(***************************************************************************)
EXTENDS SolanaBridge, TLC

CONSTANTS p1, p2, s1, s2, owner, usdc, wsol

MCSetting == [fee_bps |-> 1000, min_fee |-> 2, max_fee |-> 5,
              claim_window_secs |-> 1, min_solver_bond |-> 3, slash_bps |-> 5000]

\* The owner sets values no check refuses: a fee of more than a half, a slash of more
\* than the bond.
RaisedSetting == [MCSetting EXCEPT !.fee_bps = 6000, !.max_fee = 50,
                                   !.slash_bps = 20000]

ClaimSettings == {MCSetting, RaisedSetting}
OneSetting == {MCSetting}

\* Neither payers nor solvers are told apart.
PartySymmetry == Permutations({p1, p2}) \cup Permutations({s1, s2})
=============================================================================
