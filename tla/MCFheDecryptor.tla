---------------------------- MODULE MCFheDecryptor ----------------------------
(***************************************************************************)
(* Instances of FheDecryptor for TLC: a day stands for half the validity of *)
(* a signature.                                                             *)
(***************************************************************************)
EXTENDS FheDecryptor

CONSTANTS d1, d2
=============================================================================
