------------------------------ MODULE Accounts ------------------------------
(***************************************************************************)
(* The account system as a whole: the requests of Auth, UserAdmin and      *)
(* PasswordReset running concurrently over one Store.                      *)
(***************************************************************************)
EXTENDS Auth, PasswordReset

CONSTANT Seeded   \* users present at the start, all but one of any kind

ASSUME SeededAssumption == Seeded \in 1 .. MaxUsers

\* cmd/seed has run: user 1 is an active administrator.  Nobody is signed in.
Init ==
  /\ lastUser = Seeded
  /\ users \in [UserIds -> User \cup {NULL}]
  /\ \A u \in UserIds : users[u] = NULL <=> u > Seeded
  /\ IsActiveAdmin(1)
  /\ sessions = [s \in SessionIds |-> NULL] /\ lastSession = 0
  /\ origin   = [s \in SessionIds |-> NULL]
  /\ tokens   = [t \in TokenIds |-> NULL]   /\ lastToken = 0
  /\ spent    = [t \in TokenIds |-> 0]
  /\ clock    = 0
  /\ secured  = [u \in UserIds |-> 0]
  /\ req      = [p \in Procs |-> Idle]
  /\ cookies  = {} /\ mailed = {}
  /\ overtaken = [p \in Procs |-> FALSE]

Tick ==
  /\ \/ \E s \in SessionIds : ExpireSession(s)
     \/ \E t \in TokenIds : ExpireToken(t)
  /\ UNCHANGED <<req, clientVars>>

\* An update or a deletion has read the row it is about, and is yet to write.
Judging(r) == r.op \in {"update", "delete"}
              /\ r.pc \in {"CheckEmail", "CountAdmins", "UpdateUser", "DeleteUser"}

Writing(r) == r.pc \in {"UpdateUser", "DeleteUser"}

\* A step overtakes a request: the user the request is about ceases to be, or
\* becomes, an active administrator, or others do once they have been counted.
Overtakes(r) ==
  Judging(r) /\ \/ r.target \in ActiveAdmins  /\ r.target \notin ActiveAdmins'
                \/ r.target \in ActiveAdmins' /\ r.target \notin ActiveAdmins
                \/ Writing(r) /\ ActiveAdmins' # ActiveAdmins

Overtaking ==
  overtaken' = [p \in Procs |-> Judging(req'[p]) /\ (overtaken[p] \/ Overtakes(req[p]))]

Step ==
  \/ \E p \in Procs : \/ ArrivePublic(p)
                      \/ ArriveWithCookie(p)
                      \/ LoadUser(p)
                      \/ AuthStep(p)
                      \/ UserAdminStep(p)
                      \/ ResetStep(p)
                      \/ Fail(p)
  \/ Tick

Next == Step /\ Overtaking

Spec == Init /\ [][Next]_vars

-----------------------------------------------------------------------------
(***************************************************************************)
(* Every variable has its type, and every request has read what its next   *)
(* statement needs.                                                        *)
(***************************************************************************)
TypeOK == StoreTypeOK /\ RequestsTypeOK

(***************************************************************************)
(* ErrLastAdmin: no operation leaves the system without an administrator   *)
(* who can sign in.  The check is a SELECT COUNT followed by a write, and  *)
(* this is lost when two requests interleave.                              *)
(***************************************************************************)
ActiveAdminRemains == ActiveAdmins # {}

(***************************************************************************)
(* What ErrLastAdmin does promise, whatever runs at once: the write that   *)
(* removes the last active administrator is that of a request which        *)
(* another one has overtaken.  Had nobody removed or appointed its target  *)
(* since it read the row, nor anybody since it counted, it would have been *)
(* refused (user_admin.go, Update and Delete).                             *)
(***************************************************************************)
LastAdminOnlyOvertaken ==
  [][ActiveAdmins # {} /\ ActiveAdmins' = {} =>
       \E p \in Procs : overtaken[p] /\ Writing(req[p]) /\ req'[p] # req[p]]_vars

(***************************************************************************)
(* A request never deletes the account it acts as, nor deactivates one     *)
(* that it has read as active, although the row may have changed since:    *)
(* the handler of Delete and the self-deactivation guard of Update look at *)
(* what the write is going to do.                                          *)
(***************************************************************************)
NoSelfRemoval ==
  [][\A p \in Procs, u \in UserIds :
       (/\ req[p].pc = "DeleteUser" \/ (req[p].pc = "UpdateUser" /\ req[p].seen.active)
        /\ req[p].user = u /\ req[p].target = u
        /\ req'[p] # req[p]
        /\ IsActive(u)) => IsActive(u)']_vars

(***************************************************************************)
(* However sessions are rotated, the person behind a session (its          *)
(* impersonator, or else its user) is the one whose password opened the    *)
(* chain of sessions: stopping an impersonation gives nobody the account   *)
(* of somebody else, and impersonations do not nest.                       *)
(***************************************************************************)
Principal(row) == IF row.imp = NULL THEN row.user ELSE row.imp

PrincipalKept ==
  \A s \in SessionIds : sessions[s] # NULL => origin[s].owner = Principal(sessions[s])

(***************************************************************************)
(* Once a password change or a deactivation has got through its            *)
(* DeleteUserSessions, no session row of that user, as its user or as its  *)
(* impersonator, dates from before the write: whatever else was running    *)
(* and whichever statements failed.                                        *)
(***************************************************************************)
OldSessionsRevoked ==
  \A s \in SessionIds : sessions[s] # NULL =>
    /\ origin[s].at >= secured[sessions[s].user]
    /\ sessions[s].imp # NULL => origin[s].at >= secured[sessions[s].imp]

(***************************************************************************)
(* "Force re-login on password change so any leaked session is revoked"    *)
(* (user_admin.go:193): the session of a person whose password has been    *)
(* changed, with the revocation done, was opened with the new password.    *)
(* The INSERT of a login, or of a rotation, that read its row before the   *)
(* change may come after the DELETE, so this is lost when two requests     *)
(* interleave.                                                             *)
(***************************************************************************)
OpenedWithCurrentPassword ==
  \A s \in SessionIds : sessions[s] # NULL =>
    origin[s].cred >= secured[origin[s].owner]

(***************************************************************************)
(* A reset token changes a password at most once, and has been used up by  *)
(* the time it does, even when several requests present it at once and     *)
(* the statements after MarkPasswordResetTokenUsed fail.                   *)
(***************************************************************************)
TokenSpentOnce ==
  \A t \in TokenIds :
    /\ spent[t] <= 1
    /\ spent[t] = 1 => tokens[t] = NULL \/ tokens[t].used
=============================================================================
