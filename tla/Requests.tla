------------------------------ MODULE Requests ------------------------------
(***************************************************************************)
(* HTTP requests.  net/http runs each one in a goroutine of its own; here  *)
(* a process p of Procs executes one request at a time, and req[p] holds   *)
(* that goroutine's local variables.  A request advances by one SQL        *)
(* statement per step, so statements of different requests interleave      *)
(* freely.                                                                 *)
(*                                                                         *)
(* This module has what every request goes through: its arrival, the       *)
(* LoadUser middleware (which resolves the session cookie to a user), the  *)
(* RequireAuth and RequireAdmin gates, and failure.  The handlers are in   *)
(* Auth, UserAdmin and PasswordReset.                                      *)
(***************************************************************************)
EXTENDS Store

CONSTANTS
  Procs,    \* the requests the server executes at a time
  Ops       \* the operations clients ask for

PublicOps == {"login", "forgot", "reset"}
AdminOps  == {"create", "update", "delete", "impersonate"}
AllOps    == PublicOps \cup AdminOps \cup {"logout", "unimpersonate", "changePassword"}

ASSUME OpsAssumption == Ops \subseteq AllOps

VARIABLES
  req,      \* req[p]: the locals of the request p executes
  cookies,  \* session tokens the server has answered to a browser
  mailed,   \* reset tokens that reached a mailbox
  overtaken \* history: overtaken[p], what p judges a removal by has changed since (Accounts)

clientVars == <<cookies, mailed>>
vars       == <<storeVars, req, clientVars, overtaken>>

Form == [role : Roles, active : BOOLEAN, password : BOOLEAN]
Row  == User

ASSUME FormAssumption == NULL \notin Form /\ NULL \notin AllOps

Labels == {"Idle", "GetSession", "GetUser", "GetImpersonator", "DropSession", "Handle",
           "CreateSession", "StopGetAdmin", "StopCreateSession", "EndRotation",
           "CheckEmail", "InsertUser", "CountAdmins", "UpdateUser", "RevokeDeactivated",
           "DeleteUser", "SetPassword", "RevokeSessions",
           "InsertToken", "SendMail", "MarkUsed", "PurgeTokens"}

Request ==
  [op     : AllOps \cup {NULL},
   pc     : Labels,
   sid    : SessionIds \cup {NULL},   \* the session cookie
   user   : UserIds \cup {NULL},      \* UserFromContext
   imp    : UserIds \cup {NULL},      \* ImpersonatorFromContext
   target : UserIds \cup {NULL},      \* the user the operation is about
   form   : Form \cup {NULL},         \* submitted role, is_active, and whether a password
   token  : TokenIds \cup {NULL},     \* submitted password reset token
   new    : SessionIds \cup {NULL},   \* the session token just generated
   seen   : Row \cup {NULL},          \* the user row last read
   tick   : Times]                    \* history: clock of the read or write that matters

Idle == [op |-> NULL, pc |-> "Idle", sid |-> NULL, user |-> NULL, imp |-> NULL,
         target |-> NULL, form |-> NULL, token |-> NULL, new |-> NULL, seen |-> NULL,
         tick |-> 0]

LoadLabels == {"GetSession", "GetUser", "GetImpersonator", "DropSession"}

\* Which locals are set where: what the code reads without a nil check is there.
LocalsOK(r) ==
  /\ r.op = NULL <=> r.pc = "Idle"
  /\ r.pc \in LoadLabels \cup {"EndRotation"} => r.sid # NULL
  /\ r.op \notin PublicOps \cup {NULL} =>
       /\ r.sid # NULL
       /\ r.pc # "GetSession" => r.user # NULL
       /\ r.pc \notin LoadLabels => r.seen # NULL
  /\ r.pc \in {"GetUser", "GetImpersonator"} => r.user # NULL
  /\ r.user # NULL => r.sid # NULL
  /\ r.pc = "GetImpersonator" => r.imp # NULL /\ r.seen # NULL
  /\ r.op \in {"login", "forgot", "impersonate", "update", "delete"} => r.target # NULL
  /\ r.pc \in {"StopGetAdmin", "StopCreateSession", "MarkUsed", "SetPassword", "RevokeSessions"}
       => r.target # NULL
  /\ r.op \in {"create", "update"} => r.form # NULL
  /\ r.op = "reset" \/ r.pc = "SendMail" => r.token # NULL
  /\ r.pc = "EndRotation" => r.new # NULL

RequestsTypeOK ==
  /\ req     \in [Procs -> Request]
  /\ \A p \in Procs : LocalsOK(req[p])
  /\ cookies \subseteq SessionIds
  /\ mailed  \subseteq TokenIds
  /\ overtaken \in [Procs -> BOOLEAN]

At(p, op, label) == req[p].op = op /\ req[p].pc = label

Goto(p, label) == req' = [req EXCEPT ![p].pc = label]

\* The handler returns: an answer is written and the goroutine ends.
Reply(p) == req' = [req EXCEPT ![p] = Idle]

\* An answer that follows a read: nothing stored changes.
Refuse(p) == Reply(p) /\ UNCHANGED <<storeVars, clientVars>>

Proceed(p, label) == Goto(p, label) /\ UNCHANGED <<storeVars, clientVars>>

(***************************************************************************)
(* Arrivals.  The public routes are asked without a cookie: with one,      *)
(* LoadUser would only add the lookup that the other operations make.  The *)
(* other routes come with a cookie some browser was given, which may be    *)
(* stale by now.                                                           *)
(***************************************************************************)
Arrive(p, r) ==
  /\ req[p].pc = "Idle"
  /\ r.op \in Ops
  /\ req' = [req EXCEPT ![p] = r]
  /\ UNCHANGED <<storeVars, clientVars>>

KnownUsers == 1 .. lastUser

ArrivePublic(p) ==
  \/ \E op \in {"login", "forgot"}, u \in KnownUsers :
       Arrive(p, [Idle EXCEPT !.op = op, !.pc = "Handle", !.target = u])
  \/ \E t \in mailed :
       Arrive(p, [Idle EXCEPT !.op = "reset", !.pc = "Handle", !.token = t])

ArriveWithCookie(p) ==
  \E s \in cookies :
    LET r == [Idle EXCEPT !.pc = "GetSession", !.sid = s] IN
    \/ \E op \in {"logout", "unimpersonate", "changePassword"} :
         Arrive(p, [r EXCEPT !.op = op])
    \/ \E op \in {"impersonate", "delete"}, u \in KnownUsers :
         Arrive(p, [r EXCEPT !.op = op, !.target = u])
    \/ \E f \in Form :
         /\ f.password
         /\ Arrive(p, [r EXCEPT !.op = "create", !.form = f])
    \/ \E f \in Form, u \in KnownUsers :
         Arrive(p, [r EXCEPT !.op = "update", !.target = u, !.form = f])

(***************************************************************************)
(* LookupSessionInfo.                                                      *)
(***************************************************************************)

\* The gates: RequireAdmin looks at the row LoadUser put in the context.
Admit(p, row) ==
  IF req[p].op \in AdminOps /\ ~(row.role = "admin" /\ row.active)
  THEN Reply(p)
  ELSE req' = [req EXCEPT ![p].pc = "Handle", ![p].seen = row]

GetSession(p) ==
  /\ req[p].pc = "GetSession"
  /\ LET row == sessions[req[p].sid] IN
     IF row = NULL THEN Reply(p)
     ELSE req' = [req EXCEPT ![p].pc = "GetUser", ![p].user = row.user, ![p].imp = row.imp]
  /\ UNCHANGED <<storeVars, clientVars>>

GetUser(p) ==
  /\ req[p].pc = "GetUser"
  /\ LET row == users[req[p].user] IN
     CASE row = NULL -> Reply(p)
       [] row # NULL /\ ~row.active -> Goto(p, "DropSession")
       [] row # NULL /\ row.active /\ req[p].imp = NULL -> Admit(p, row)
       [] OTHER -> req' = [req EXCEPT ![p].pc = "GetImpersonator", ![p].seen = row]
  /\ UNCHANGED <<storeVars, clientVars>>

GetImpersonator(p) ==
  /\ req[p].pc = "GetImpersonator"
  /\ IF users[req[p].imp] = NULL THEN Reply(p)
     ELSE IF ~IsActiveAdmin(req[p].imp) THEN Goto(p, "DropSession")
     ELSE Admit(p, req[p].seen)
  /\ UNCHANGED <<storeVars, clientVars>>

\* The session is destroyed, then refused.
DropSession(p) ==
  /\ req[p].pc = "DropSession"
  /\ DeleteSession(req[p].sid)
  /\ Reply(p)
  /\ UNCHANGED <<userVars, tokenVars, clock, secured, clientVars>>

(***************************************************************************)
(* Any statement may fail, the client may hang up (the request context is  *)
(* cancelled), or the server may crash: the request stops where it is and  *)
(* what it has written so far stays.  Every service returns the error of a *)
(* statement at once, without undoing anything; an INSERT that a foreign   *)
(* key or a unique key rejects fails the same way; a crash is one failure  *)
(* of every request.                                                       *)
(***************************************************************************)
Fail(p) ==
  /\ req[p].pc # "Idle"
  /\ Refuse(p)

LoadUser(p) == GetSession(p) \/ GetUser(p) \/ GetImpersonator(p) \/ DropSession(p)
=============================================================================
