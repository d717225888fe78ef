----------------------------- MODULE MCMenses -----------------------------
(***************************************************************************)
(* Small instances of MensesPeriods for TLC.  Requests are interchangeable,*)
(* and so are users.                                                       *)
(***************************************************************************)
EXTENDS MensesPeriods, TLC

\* Bound: nobody submits 9999-12-31.
Submitted(r) == r.start # FarFuture /\ r.end # FarFuture

MCNext == Next /\ \A p \in Procs : Submitted(req'[p])

MCSpec == Init /\ [][MCNext]_vars

Symmetric == Permutations(Procs) \cup Permutations(Users)
=============================================================================
