---------------------------- MODULE MCSolToEvm ----------------------------
(***************************************************************************)
(* Instances of SolToEvm for TLC.                                           *)
(***************************************************************************)
EXTENDS SolToEvm, TLC

CONSTANTS r1, n1, b1, q1, q2

\* With one decimal less on the EVM, 20 becomes 2, and 10 becomes 1.
MCAmount == [c \in Client |-> r1 :> IF c = q2 THEN 10 ELSE 20]
=============================================================================
