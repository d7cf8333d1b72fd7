---------------------------- MODULE MCWithdrawals ----------------------------
(***************************************************************************)
(* Small instances of Withdrawals for TLC.                                 *)
(***************************************************************************)
EXTENDS Withdrawals, TLC

Symmetry == Permutations(Admins) \cup Permutations(Withdrawals)
=============================================================================
