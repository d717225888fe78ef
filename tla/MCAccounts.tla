----------------------------- MODULE MCAccounts -----------------------------
(***************************************************************************)
(* Small instances of Accounts for TLC.  Requests are interchangeable.     *)
(***************************************************************************)
EXTENDS Accounts, TLC

Symmetric == Permutations(Procs)
=============================================================================
