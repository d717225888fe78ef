---------------------------- MODULE PasswordReset ----------------------------
(***************************************************************************)
(* PasswordResetService: a forgotten password.  A token is stored and      *)
(* mailed; whoever presents it while it is valid chooses a new password.   *)
(***************************************************************************)
EXTENDS UserAdmin

(***************************************************************************)
(* RequestReset.  An unknown or inactive user is answered like any other.  *)
(***************************************************************************)
ForgotGetUser(p) ==
  /\ At(p, "forgot", "Handle")
  /\ IF IsActive(req[p].target) THEN Proceed(p, "InsertToken") ELSE Refuse(p)

ForgotInsertToken(p) ==
  /\ At(p, "forgot", "InsertToken")
  /\ lastToken < MaxTokens
  /\ users[req[p].target] # NULL
  /\ CreatePasswordResetToken(req[p].target)
  /\ req' = [req EXCEPT ![p].pc = "SendMail", ![p].token = lastToken + 1]
  /\ UNCHANGED <<userVars, sessionVars, spent, clock, secured, clientVars>>

\* The mailer hands the token to the mailbox; when it fails the row stays.
ForgotSendMail(p) ==
  /\ At(p, "forgot", "SendMail")
  /\ mailed' = mailed \cup {req[p].token}
  /\ Reply(p)
  /\ UNCHANGED <<storeVars, cookies>>

(***************************************************************************)
(* ResetPassword.                                                          *)
(***************************************************************************)
ResetGetToken(p) ==
  /\ At(p, "reset", "Handle")
  /\ \/ Reply(p)                              \* invalid password or token
     \/ /\ ValidToken(req[p].token)
        /\ req' = [req EXCEPT ![p].pc = "MarkUsed", ![p].target = tokens[req[p].token].user]
  /\ UNCHANGED <<storeVars, clientVars>>

\* The row count of the UPDATE decides between requests with the same token.
ResetMarkUsed(p) ==
  /\ At(p, "reset", "MarkUsed")
  /\ IF Markable(req[p].token)
     THEN /\ MarkPasswordResetTokenUsed(req[p].token)
          /\ Goto(p, "SetPassword")
     ELSE /\ Reply(p)
          /\ UNCHANGED tokens
  /\ UNCHANGED <<userVars, sessionVars, lastToken, spent, clock, secured, clientVars>>

ResetSetPassword(p) ==
  /\ At(p, "reset", "SetPassword")
  /\ UpdateUserPassword(p)
  /\ spent' = [spent EXCEPT ![req[p].token] = @ + 1]

ResetRevokeSessions(p) ==
  /\ At(p, "reset", "RevokeSessions")
  /\ Revoke(p)
  /\ Goto(p, "PurgeTokens")
  /\ UNCHANGED tokenVars

ResetPurgeTokens(p) ==
  /\ At(p, "reset", "PurgeTokens")
  /\ DeleteExpiredPasswordResetTokens
  /\ Reply(p)
  /\ UNCHANGED <<userVars, sessionVars, lastToken, spent, clock, secured, clientVars>>

ResetStep(p) ==
  \/ ForgotGetUser(p)    \/ ForgotInsertToken(p)   \/ ForgotSendMail(p)
  \/ ResetGetToken(p)    \/ ResetMarkUsed(p)       \/ ResetSetPassword(p)
  \/ ResetRevokeSessions(p) \/ ResetPurgeTokens(p)
=============================================================================
