-------------------------------- MODULE Auth --------------------------------
(***************************************************************************)
(* AuthService: login, logout, and impersonation, which rotates an         *)
(* administrator's session into one of another user and back.              *)
(***************************************************************************)
EXTENDS Requests

(***************************************************************************)
(* Login.  Whether the typed password matches the row read is a free       *)
(* choice; the bcrypt comparison leaves plenty of time before the INSERT.  *)
(***************************************************************************)
LoginGetUser(p) ==
  /\ At(p, "login", "Handle")
  /\ \/ Reply(p)                              \* unknown, inactive or wrong password
     \/ /\ IsActive(req[p].target)
        /\ req' = [req EXCEPT ![p].pc = "CreateSession", ![p].tick = clock]
  /\ UNCHANGED <<storeVars, clientVars>>

LoginCreateSession(p) ==
  /\ At(p, "login", "CreateSession")
  /\ CanCreateSession(req[p].target, NULL)
  /\ CreateSession(req[p].target, NULL, req[p].target, req[p].tick)
  /\ cookies' = cookies \cup {lastSession + 1}
  /\ Reply(p)
  /\ UNCHANGED <<userVars, tokenVars, clock, secured, mailed>>

Logout(p) ==
  /\ At(p, "logout", "Handle")
  /\ DeleteSession(req[p].sid)
  /\ Reply(p)
  /\ UNCHANGED <<userVars, tokenVars, clock, secured, clientVars>>

(***************************************************************************)
(* StartImpersonation.  The administrator is the row LoadUser read.        *)
(***************************************************************************)
\* Mutation: an impersonating session may impersonate again.
MayNestImpersonation(p) ==
  /\ req[p].seen.role = "admin" /\ req[p].seen.active
  /\ req[p].user # req[p].target

MayImpersonate(p) ==
  /\ req[p].imp = NULL
  /\ req[p].seen.role = "admin" /\ req[p].seen.active
  /\ req[p].user # req[p].target

StartGetTarget(p) ==
  /\ At(p, "impersonate", "Handle")
  /\ IF MayImpersonate(p) /\ IsActive(req[p].target)
     THEN Goto(p, "CreateSession")
     ELSE Reply(p)
  /\ UNCHANGED <<storeVars, clientVars>>

\* Sessions of a rotation descend from the login that the presented one does.
RotateTo(p, u, imp) ==
  /\ CanCreateSession(u, imp)
  /\ CreateSession(u, imp, origin[req[p].sid].owner, origin[req[p].sid].cred)
  /\ req' = [req EXCEPT ![p].pc = "EndRotation", ![p].new = lastSession + 1]
  /\ UNCHANGED <<userVars, tokenVars, clock, secured, clientVars>>

StartCreateSession(p) ==
  /\ At(p, "impersonate", "CreateSession")
  /\ RotateTo(p, req[p].target, req[p].user)

(***************************************************************************)
(* StopImpersonation reads the session again: it has its own impersonator. *)
(***************************************************************************)
\* Mutation: the impersonator of the session is used without a check.
StopAnySession(p) ==
  /\ At(p, "unimpersonate", "Handle")
  /\ LET row == sessions[req[p].sid] IN
     IF row # NULL
     THEN req' = [req EXCEPT ![p].pc = "StopGetAdmin", ![p].target = row.imp]
     ELSE Reply(p)
  /\ UNCHANGED <<storeVars, clientVars>>

StopGetSession(p) ==
  /\ At(p, "unimpersonate", "Handle")
  /\ LET row == sessions[req[p].sid] IN
     IF row # NULL /\ row.imp # NULL
     THEN req' = [req EXCEPT ![p].pc = "StopGetAdmin", ![p].target = row.imp]
     ELSE Reply(p)
  /\ UNCHANGED <<storeVars, clientVars>>

StopGetAdmin(p) ==
  /\ At(p, "unimpersonate", "StopGetAdmin")
  /\ Proceed(p, IF IsActiveAdmin(req[p].target) THEN "StopCreateSession" ELSE "DropSession")

StopCreateSession(p) ==
  /\ At(p, "unimpersonate", "StopCreateSession")
  /\ RotateTo(p, req[p].target, NULL)

\* Both rotations end by deleting the session they were asked with.  Only then
\* is the new token answered.
EndRotation(p) ==
  /\ req[p].pc = "EndRotation"
  /\ DeleteSession(req[p].sid)
  /\ cookies' = cookies \cup {req[p].new}
  /\ Reply(p)
  /\ UNCHANGED <<userVars, tokenVars, clock, secured, mailed>>

AuthStep(p) ==
  \/ LoginGetUser(p)       \/ LoginCreateSession(p) \/ Logout(p)
  \/ StartGetTarget(p)     \/ StartCreateSession(p)
  \/ StopGetSession(p)     \/ StopGetAdmin(p)       \/ StopCreateSession(p)
  \/ EndRotation(p)
=============================================================================
