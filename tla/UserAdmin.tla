------------------------------ MODULE UserAdmin ------------------------------
(***************************************************************************)
(* UserAdminService behind the user settings pages: create, update and     *)
(* delete a user, and the self-service password change.                    *)
(***************************************************************************)
EXTENDS Requests

(***************************************************************************)
(* validateProfile and validatePassword: the input is rejected (bad input, *)
(* or the address is taken) or accepted.                                   *)
(***************************************************************************)
CreateCheckEmail(p) ==
  /\ At(p, "create", "Handle")
  /\ \/ Refuse(p)
     \/ Proceed(p, "InsertUser")

InsertUser(p) ==
  /\ At(p, "create", "InsertUser")
  /\ lastUser < MaxUsers
  /\ CreateUser([role |-> req[p].form.role, active |-> req[p].form.active])
  /\ Reply(p)
  /\ UNCHANGED <<sessionVars, tokenVars, clock, secured, clientVars>>

(***************************************************************************)
(* Update.                                                                 *)
(***************************************************************************)
UpdateGetUser(p) ==
  /\ At(p, "update", "Handle")
  /\ LET row == users[req[p].target] IN
     IF row = NULL THEN Reply(p)
     ELSE req' = [req EXCEPT ![p].pc = "CheckEmail", ![p].seen = row]
  /\ UNCHANGED <<storeVars, clientVars>>

Deactivates(r)   == r.seen.active /\ ~r.form.active
\* Mutation: taking the administrator role away does not count as a removal.
RemovesIfDeactivated(r) == r.seen.role = "admin" /\ Deactivates(r)

RemovesAdmin(r)  == /\ r.seen.role = "admin" /\ r.seen.active
                    /\ r.form.role # "admin" \/ ~r.form.active

UpdateCheckEmail(p) ==
  /\ At(p, "update", "CheckEmail")
  /\ \/ Refuse(p)
     \/ /\ ~(req[p].target = req[p].user /\ Deactivates(req[p]))
        /\ Proceed(p, IF RemovesAdmin(req[p]) THEN "CountAdmins" ELSE "UpdateUser")

UpdateCountAdmins(p) ==
  /\ At(p, "update", "CountAdmins")
  /\ IF CountActiveAdmins <= 1 THEN Refuse(p) ELSE Proceed(p, "UpdateUser")

AfterUpdate(r) == IF r.form.password THEN "SetPassword" ELSE "Idle"

\* The request goes on to label, or is answered when nothing is left to do.
Continue(p, label, r) == req' = [req EXCEPT ![p] = IF label = "Idle" THEN Idle
                                                   ELSE [r EXCEPT !.pc = label]]

WriteUser(p) ==
  LET r == req[p] IN
  /\ At(p, "update", "UpdateUser")
  /\ UpdateUser(r.target, [role |-> r.form.role, active |-> r.form.active])
  /\ IF Deactivates(r)
     THEN /\ clock < MaxClock
          /\ clock' = clock + 1
          /\ Continue(p, "RevokeDeactivated", [r EXCEPT !.tick = clock + 1])
     ELSE /\ Continue(p, AfterUpdate(r), r)
          /\ UNCHANGED clock
  /\ UNCHANGED <<sessionVars, tokenVars, secured, clientVars>>

\* DeleteUserSessions after the write that took place at tick.
Revoke(p) ==
  /\ DeleteUserSessions(req[p].target)
  /\ secured' = [secured EXCEPT ![req[p].target] = IF @ < req[p].tick THEN req[p].tick ELSE @]
  /\ UNCHANGED <<userVars, clock, clientVars>>

RevokeDeactivated(p) ==
  /\ At(p, "update", "RevokeDeactivated")
  /\ Revoke(p)
  /\ Continue(p, AfterUpdate(req[p]), req[p])
  /\ UNCHANGED tokenVars

(***************************************************************************)
(* Delete: the handler refuses the current user, the service the last      *)
(* active administrator.                                                   *)
(***************************************************************************)
\* Mutation: the handler lets administrators delete themselves.
DeleteGetAnyUser(p) ==
  /\ At(p, "delete", "Handle")
  /\ LET row == users[req[p].target] IN
     IF row = NULL THEN Reply(p)
     ELSE req' = [req EXCEPT ![p].pc = IF row.role = "admin" THEN "CountAdmins"
                                                             ELSE "DeleteUser",
                             ![p].seen = row]
  /\ UNCHANGED <<storeVars, clientVars>>

DeleteGetUser(p) ==
  /\ At(p, "delete", "Handle")
  /\ LET row == users[req[p].target] IN
     IF req[p].target = req[p].user \/ row = NULL THEN Reply(p)
     ELSE req' = [req EXCEPT ![p].pc = IF row.role = "admin" THEN "CountAdmins"
                                                             ELSE "DeleteUser",
                             ![p].seen = row]
  /\ UNCHANGED <<storeVars, clientVars>>

DeleteCountAdmins(p) ==
  /\ At(p, "delete", "CountAdmins")
  /\ IF req[p].seen.active /\ CountActiveAdmins <= 1
     THEN Refuse(p) ELSE Proceed(p, "DeleteUser")

RemoveUser(p) ==
  /\ At(p, "delete", "DeleteUser")
  /\ DeleteUser(req[p].target)
  /\ Reply(p)
  /\ UNCHANGED <<clock, secured, clientVars>>

(***************************************************************************)
(* A new password: ChangePassword for the current user (the impersonated   *)
(* one, under impersonation), Update with a password, and ResetPassword    *)
(* all write the hash and then delete the user's sessions.                 *)
(***************************************************************************)
ChangeGetUser(p) ==
  /\ At(p, "changePassword", "Handle")
  /\ \/ Reply(p)                                    \* invalid new password
     \/ /\ users[req[p].user] # NULL
        /\ req' = [req EXCEPT ![p].pc = "SetPassword", ![p].target = req[p].user]
  /\ UNCHANGED <<storeVars, clientVars>>

UpdateUserPassword(p) ==
  /\ clock < MaxClock
  /\ clock' = clock + 1
  /\ req' = [req EXCEPT ![p].pc = "RevokeSessions", ![p].tick = clock + 1]
  /\ UNCHANGED <<userVars, sessionVars, tokens, lastToken, secured, clientVars>>

SetPassword(p) ==
  /\ req[p].op # "reset" /\ req[p].pc = "SetPassword"
  /\ UpdateUserPassword(p)
  /\ UNCHANGED spent

RevokeSessions(p) ==
  /\ req[p].op # "reset" /\ req[p].pc = "RevokeSessions"
  /\ Revoke(p)
  /\ Reply(p)
  /\ UNCHANGED tokenVars

UserAdminStep(p) ==
  \/ CreateCheckEmail(p)  \/ InsertUser(p)
  \/ UpdateGetUser(p)     \/ UpdateCheckEmail(p)  \/ UpdateCountAdmins(p)
  \/ WriteUser(p)         \/ RevokeDeactivated(p)
  \/ DeleteGetUser(p)     \/ DeleteCountAdmins(p) \/ RemoveUser(p)
  \/ ChangeGetUser(p)     \/ SetPassword(p)       \/ RevokeSessions(p)
=============================================================================
