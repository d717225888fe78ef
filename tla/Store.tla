------------------------------- MODULE Store -------------------------------
(***************************************************************************)
(* The MySQL tables behind the accounts of mutabaah: users, sessions and   *)
(* password_reset_tokens, and one operator per SQL statement of            *)
(* db/queries that the account services issue.  The program opens no       *)
(* transaction, so each statement commits by itself: a step of the system  *)
(* executes at most one of these operators.                                *)
(*                                                                         *)
(* Names, e-mail addresses and password hashes are abstracted away: a user *)
(* is known by its id, and what the properties need of a password is only  *)
(* WHEN it was changed.  `clock' counts the writes that are meant to end   *)
(* the sessions of a user (a new password, a deactivation).  Expired       *)
(* session rows are dropped from the model, since every query that reads   *)
(* the sessions table filters them out.                                    *)
(***************************************************************************)
EXTENDS Naturals, FiniteSets

CONSTANTS
  MaxUsers,     \* bound: AUTO_INCREMENT ids the users table hands out
  MaxSessions,  \* bound: session tokens ever generated
  MaxTokens,    \* bound: password reset tokens ever generated
  MaxClock,     \* bound: revoking writes (see clock)
  NULL          \* SQL NULL, and an absent row

ASSUME BoundsAssumption == /\ MaxUsers \in Nat \ {0}
                           /\ MaxSessions \in Nat
                           /\ MaxTokens \in Nat
                           /\ MaxClock \in Nat

UserIds    == 1 .. MaxUsers
SessionIds == 1 .. MaxSessions
TokenIds   == 1 .. MaxTokens
Times      == 0 .. MaxClock
Roles      == {"admin", "user"}

User    == [role : Roles, active : BOOLEAN]
Session == [user : UserIds, imp : UserIds \cup {NULL}]
Token   == [user : UserIds, used : BOOLEAN, expired : BOOLEAN]

\* What the model remembers of a session token, even once its row is gone:
\* who typed the password of the login it descends from, the clock when that
\* login read the user's row, and the clock when the row was inserted.
Origin  == [owner : UserIds, cred : Times, at : Times]

ASSUME NullAssumption == /\ NULL \notin Nat /\ NULL \notin Roles
                         /\ NULL \notin User /\ NULL \notin Session
                         /\ NULL \notin Token /\ NULL \notin Origin

VARIABLES
  users,        \* users[u]: the row, or NULL
  lastUser,     \* the last AUTO_INCREMENT id handed out
  sessions,     \* sessions[s]: the unexpired row, or NULL
  lastSession,  \* the last session token generated (tokens are random, so never reused)
  tokens,       \* tokens[t]: the password reset row, or NULL
  lastToken,    \* the last reset token generated
  clock,        \* history: number of revoking writes so far
  origin,       \* history: origin[s] of every session token generated
  secured,      \* history: secured[u], the clock of u's last revoking write
                \* whose DeleteUserSessions has been executed too
  spent         \* history: spent[t], how often t let a request write a password

userVars    == <<users, lastUser>>
sessionVars == <<sessions, lastSession, origin>>
tokenVars   == <<tokens, lastToken, spent>>
storeVars   == <<userVars, sessionVars, tokenVars, clock, secured>>

StoreTypeOK ==
  /\ users       \in [UserIds -> User \cup {NULL}]
  /\ lastUser    \in 0 .. MaxUsers
  /\ sessions    \in [SessionIds -> Session \cup {NULL}]
  /\ lastSession \in 0 .. MaxSessions
  /\ tokens      \in [TokenIds -> Token \cup {NULL}]
  /\ lastToken   \in 0 .. MaxTokens
  /\ clock       \in Times
  /\ origin      \in [SessionIds -> Origin \cup {NULL}]
  /\ secured     \in [UserIds -> Times]
  /\ spent       \in [TokenIds -> Nat]

(***************************************************************************)
(* users.sql                                                               *)
(***************************************************************************)
IsActive(u)      == users[u] # NULL /\ users[u].active
IsActiveAdmin(u) == IsActive(u) /\ users[u].role = "admin"
ActiveAdmins     == {u \in UserIds : IsActiveAdmin(u)}

CountActiveAdmins == Cardinality(ActiveAdmins)

CreateUser(row) ==
  /\ lastUser' = lastUser + 1
  /\ users'    = [users EXCEPT ![lastUser + 1] = row]

\* UPDATE matches no row, and reports no error, when the user is gone.
UpdateUser(u, row) ==
  /\ users' = [users EXCEPT ![u] = IF @ = NULL THEN NULL ELSE row]
  /\ UNCHANGED lastUser

\* ON DELETE CASCADE removes the user's sessions, those it impersonates from,
\* and its reset tokens.
DeleteUser(u) ==
  /\ users'    = [users EXCEPT ![u] = NULL]
  /\ sessions' = [s \in SessionIds |->
                    IF sessions[s] # NULL /\ u \in {sessions[s].user, sessions[s].imp}
                    THEN NULL ELSE sessions[s]]
  /\ tokens'   = [t \in TokenIds |->
                    IF tokens[t] # NULL /\ tokens[t].user = u THEN NULL ELSE tokens[t]]
  /\ UNCHANGED <<lastUser, lastSession, origin, lastToken, spent>>

(***************************************************************************)
(* sessions.sql                                                            *)
(***************************************************************************)

\* The INSERT can succeed: the foreign keys hold (and the bound is not hit).
CanCreateSession(u, imp) ==
  /\ lastSession < MaxSessions
  /\ users[u] # NULL
  /\ imp # NULL => users[imp] # NULL

CreateSession(u, imp, owner, cred) ==
  /\ lastSession' = lastSession + 1
  /\ sessions'    = [sessions EXCEPT ![lastSession + 1] = [user |-> u, imp |-> imp]]
  /\ origin'      = [origin EXCEPT ![lastSession + 1] =
                       [owner |-> owner, cred |-> cred, at |-> clock]]

DeleteSession(s) ==
  /\ sessions' = [sessions EXCEPT ![s] = NULL]
  /\ UNCHANGED <<lastSession, origin>>

\* Mutation: impersonator_user_id is not looked at.
DeleteOwnSessionsOnly(u) ==
  /\ sessions' = [s \in SessionIds |->
                    IF sessions[s] # NULL /\ sessions[s].user = u THEN NULL ELSE sessions[s]]
  /\ UNCHANGED <<lastSession, origin>>

\* Mutation: only the sessions the user impersonates from are looked at.
DeleteImpersonationsOnly(u) ==
  /\ sessions' = [s \in SessionIds |->
                    IF sessions[s] # NULL /\ sessions[s].imp = u THEN NULL ELSE sessions[s]]
  /\ UNCHANGED <<lastSession, origin>>

DeleteUserSessions(u) ==
  /\ sessions' = [s \in SessionIds |->
                    IF sessions[s] # NULL /\ (sessions[s].user = u \/ sessions[s].imp = u)
                    THEN NULL ELSE sessions[s]]
  /\ UNCHANGED <<lastSession, origin>>

(***************************************************************************)
(* password_reset_tokens.sql                                               *)
(***************************************************************************)
CreatePasswordResetToken(u) ==
  /\ lastToken' = lastToken + 1
  /\ tokens'    = [tokens EXCEPT ![lastToken + 1] =
                     [user |-> u, used |-> FALSE, expired |-> FALSE]]

ValidToken(t) == tokens[t] # NULL /\ ~tokens[t].used /\ ~tokens[t].expired

\* Mutation: the UPDATE without AND used_at IS NULL.
MarkableAgain(t) == tokens[t] # NULL

\* The rows MarkPasswordResetTokenUsed affects: it does not look at expires_at.
Markable(t) == tokens[t] # NULL /\ ~tokens[t].used

MarkPasswordResetTokenUsed(t) == tokens' = [tokens EXCEPT ![t].used = TRUE]

DeleteExpiredPasswordResetTokens ==
  tokens' = [t \in TokenIds |->
               IF tokens[t] # NULL /\ (tokens[t].expired \/ tokens[t].used)
               THEN NULL ELSE tokens[t]]

(***************************************************************************)
(* Time: the sessions' and the tokens' expires_at passes.                  *)
(***************************************************************************)
ExpireSession(s) ==
  /\ sessions[s] # NULL
  /\ DeleteSession(s)
  /\ UNCHANGED <<userVars, tokenVars, clock, secured>>

ExpireToken(t) ==
  /\ tokens[t] # NULL /\ ~tokens[t].expired
  /\ tokens' = [tokens EXCEPT ![t].expired = TRUE]
  /\ UNCHANGED <<userVars, sessionVars, lastToken, spent, clock, secured>>
=============================================================================
