------------------------------ MODULE MCAvatar ------------------------------
(***************************************************************************)
(* A small instance of Avatar: two users, uploads two at a time, as many   *)
(* as three of one user.                                                   *)
(***************************************************************************)
EXTENDS Avatar, FiniteSets, TLC

\* Bound: pictures accepted in one behaviour.
CONSTANT MaxAccepted

Symmetry == Permutations(Nonces) \cup Permutations(Procs)

MCNext == Next /\ Cardinality(used') <= MaxAccepted

MCSpec == Init /\ [][MCNext]_vars
=============================================================================
