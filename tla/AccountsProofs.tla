--------------------------- MODULE AccountsProofs ---------------------------
(***************************************************************************)
(* Proofs about Accounts, for any number of users, sessions, tokens and    *)
(* concurrent requests.                                                    *)
(***************************************************************************)
EXTENDS Accounts, FiniteSetTheorems, TLAPS

-----------------------------------------------------------------------------
(***************************************************************************)
(* Type correctness needs to know that the tokens requests and clients     *)
(* hold were handed out, so that there is an origin to read: TypeInv.      *)
(***************************************************************************)
StoreGood ==
  /\ StoreTypeOK
  /\ \A s \in SessionIds : /\ sessions[s] # NULL => s <= lastSession
                           /\ s <= lastSession => origin[s] # NULL
  /\ \A t \in TokenIds : tokens[t] # NULL \/ spent[t] # 0 => t <= lastToken

IssuedTo(r, ls, lt) ==
  /\ r.sid   # NULL => r.sid <= ls
  /\ r.new   # NULL => r.new <= ls
  /\ r.token # NULL => r.token <= lt

ReqGood ==
  /\ req \in [Procs -> Request]
  /\ \A q \in Procs : LocalsOK(req[q]) /\ IssuedTo(req[q], lastSession, lastToken)

ClientsGood == cookies \subseteq 1 .. lastSession /\ mailed \subseteq 1 .. lastToken

TypeInv == StoreGood /\ ReqGood /\ ClientsGood

\* NULL is none of the values it stands beside.
LEMMA NullIds ==
  /\ NULL \notin UserIds /\ NULL \notin SessionIds /\ NULL \notin TokenIds
  /\ NULL \notin User    /\ NULL \notin Session    /\ NULL \notin Token
  /\ NULL \notin Origin  /\ NULL \notin Form       /\ NULL \notin AllOps
  /\ NULL \notin PublicOps
  BY NullAssumption, FormAssumption DEF UserIds, SessionIds, TokenIds, AllOps

\* A process without a request has well-typed locals.
LEMMA IdleOK == Idle \in Request /\ LocalsOK(Idle)
<1>1. Idle \in Request
  BY BoundsAssumption DEF Idle, Request, Labels, Times
<1>2. LocalsOK(Idle)
  BY NullIds DEF Idle, LocalsOK, LoadLabels, AllOps, PublicOps, AdminOps
<1> QED  BY <1>1, <1>2

\* Tokens are only ever handed out.
Monotone == /\ lastSession' \in Nat /\ lastToken' \in Nat
            /\ lastSession <= lastSession' /\ lastToken <= lastToken'

\* What the invariant says of one request.
LEMMA Here ==
  ASSUME TypeInv, NEW p \in Procs
  PROVE  req[p] \in Request /\ LocalsOK(req[p]) /\ IssuedTo(req[p], lastSession, lastToken)
  BY DEF TypeInv, ReqGood

\* A token that was issued stays issued.
LEMMA IssuedLater ==
  ASSUME TypeInv, Monotone, NEW r \in Request, IssuedTo(r, lastSession, lastToken)
  PROVE  IssuedTo(r, lastSession', lastToken')
  BY BoundsAssumption DEF IssuedTo, Monotone, Request, SessionIds, TokenIds, TypeInv, StoreGood,
     StoreTypeOK

\* A step that sets the locals of one request to r.
LEMMA SetLocals ==
  ASSUME TypeInv, NEW p \in Procs, Monotone,
         NEW r \in Request, LocalsOK(r), IssuedTo(r, lastSession', lastToken'),
         req' = [req EXCEPT ![p] = r]
  PROVE  ReqGood'
<1>1. req' \in [Procs -> Request] /\ \A q \in Procs : LocalsOK(req'[q])
  BY DEF TypeInv, ReqGood
<1>2. ASSUME NEW q \in Procs PROVE IssuedTo(req'[q], lastSession', lastToken')
  <2>1. CASE q = p
    BY <2>1 DEF TypeInv, ReqGood
  <2>2. CASE q # p
    BY <2>2, Here, IssuedLater DEF TypeInv, ReqGood
  <2> QED  BY <2>1, <2>2
<1> QED  BY <1>1, <1>2 DEF ReqGood

\* The usual case: the tokens the request holds stay the same.
LEMMA Advance ==
  ASSUME TypeInv, NEW p \in Procs, Monotone, NEW r \in Request, LocalsOK(r),
         r.sid = req[p].sid, r.new = req[p].new, r.token = req[p].token,
         req' = [req EXCEPT ![p] = r]
  PROVE  ReqGood'
<1>1. IssuedTo(req[p], lastSession', lastToken')
  BY Here, IssuedLater
<1>2. IssuedTo(r, lastSession', lastToken')
  BY <1>1 DEF IssuedTo
<1> QED  BY <1>2, SetLocals

\* An answered request leaves good locals behind.
LEMMA ReplyGood ==
  ASSUME TypeInv, NEW p \in Procs, Reply(p), Monotone
  PROVE  ReqGood'
<1>1. IssuedTo(Idle, lastSession', lastToken')
  BY DEF IssuedTo, Idle
<1> QED  BY <1>1, IdleOK, SetLocals DEF Reply

\* A step that stores and hands out nothing keeps the store and the clients good.
LEMMA SameStore ==
  ASSUME TypeInv, UNCHANGED <<storeVars, clientVars>>
  PROVE  StoreGood' /\ ClientsGood' /\ Monotone
  BY DEF TypeInv, StoreGood, StoreTypeOK, ClientsGood, Monotone, storeVars, clientVars,
     userVars, sessionVars, tokenVars

-----------------------------------------------------------------------------

SameTokens(r, q) == r.sid = q.sid /\ r.new = q.new /\ r.token = q.token

\* Advance, with the tokens that stay the same abbreviated.
LEMMA Move ==
  ASSUME TypeInv, NEW p \in Procs, Monotone, NEW r \in Request, LocalsOK(r),
         SameTokens(r, req[p]), req' = [req EXCEPT ![p] = r]
  PROVE  ReqGood'
  BY Advance DEF SameTokens

\* A browser may be given the cookie of any session token generated.
LEMMA GrowingClients ==
  ASSUME TypeInv, Monotone, NEW s \in SessionIds, s <= lastSession',
         cookies' = cookies \cup {s}, mailed' = mailed
  PROVE  ClientsGood'
  BY DEF TypeInv, StoreGood, StoreTypeOK, ClientsGood, Monotone, SessionIds

\* The clients stay good when no token is answered or mailed.
LEMMA SameClients ==
  ASSUME TypeInv, Monotone, cookies' = cookies, mailed' = mailed
  PROVE  ClientsGood'
  BY DEF TypeInv, StoreGood, StoreTypeOK, ClientsGood, Monotone

-----------------------------------------------------------------------------
(***************************************************************************)
(* What a step may make of the locals of a request.                        *)
(***************************************************************************)
\* GetSession copies the user and the impersonator of the row it read.
LEMMA GetSessionLocals ==
  ASSUME NEW q \in Request, LocalsOK(q), q.pc = "GetSession", NEW row \in Session,
         NEW r, r = [q EXCEPT !.pc = "GetUser", !.user = row.user, !.imp = row.imp]
  PROVE  r \in Request /\ LocalsOK(r) /\ SameTokens(r, q)
<1>1. r \in Request
  BY DEF Request, Session, Labels
<1>2. LocalsOK(r)
  BY NullIds DEF Request, Session, LocalsOK, LoadLabels
<1> QED  BY <1>1, <1>2 DEF SameTokens, Request

\* A user row was read and is kept for the statements that follow.
LEMMA SeenLocals ==
  ASSUME NEW q \in Request, LocalsOK(q), q.pc # "Idle", q.user # NULL, NEW row \in User,
         NEW l \in {"GetImpersonator", "Handle", "CheckEmail", "CountAdmins", "DeleteUser"},
         l = "GetImpersonator" => q.imp # NULL,
         NEW r, r = [q EXCEPT !.pc = l, !.seen = row]
  PROVE  r \in Request /\ LocalsOK(r) /\ SameTokens(r, q)
<1>1. r \in Request
  BY DEF Request, Labels, Row
<1>2. LocalsOK(r)
  BY NullIds DEF Request, LocalsOK, LoadLabels
<1> QED  BY <1>1, <1>2 DEF SameTokens, Request

\* The request goes on to another statement, perhaps noting the clock.
LEMMA GotoLocals ==
  ASSUME NEW q \in Request, LocalsOK(q), q.pc # "Idle",
         NEW l \in {"DropSession", "CreateSession", "StopCreateSession", "InsertUser",
                    "CountAdmins", "UpdateUser", "DeleteUser", "SetPassword", "InsertToken",
                    "PurgeTokens", "RevokeDeactivated", "RevokeSessions"},
         q.pc \in LoadLabels => l = "DropSession",
         l = "DropSession" => q.user # NULL,
         l \in {"StopCreateSession", "SetPassword", "RevokeSessions"} => q.target # NULL,
         NEW k \in Times, NEW r, r \in {[q EXCEPT !.pc = l], [q EXCEPT !.pc = l, !.tick = k]}
  PROVE  r \in Request /\ LocalsOK(r) /\ SameTokens(r, q)
<1>0. l \in Labels
  BY DEF Labels
<1>1. r \in Request
  <2>1. CASE r = [q EXCEPT !.pc = l]
    BY <1>0, <2>1 DEF Request
  <2>2. CASE r = [q EXCEPT !.pc = l, !.tick = k]
    BY <1>0, <2>2 DEF Request
  <2> QED  BY <2>1, <2>2
<1>2. /\ r.pc = l /\ SameTokens(r, q)
      /\ r.op = q.op /\ r.user = q.user /\ r.imp = q.imp /\ r.target = q.target
      /\ r.form = q.form /\ r.seen = q.seen
  BY DEF Request, SameTokens
<1>3. LocalsOK(r)
  BY <1>2 DEF LocalsOK, LoadLabels, SameTokens
<1> QED  BY <1>1, <1>2, <1>3

\* The handler has found the user its operation is about.
LEMMA TargetLocals ==
  ASSUME NEW q \in Request, LocalsOK(q), q.pc = "Handle", NEW u \in UserIds,
         NEW l \in {"StopGetAdmin", "SetPassword", "MarkUsed"},
         NEW r, r = [q EXCEPT !.pc = l, !.target = u]
  PROVE  r \in Request /\ LocalsOK(r) /\ SameTokens(r, q)
<1>1. r \in Request
  BY DEF Request, Labels
<1>2. LocalsOK(r)
  BY NullIds DEF Request, LocalsOK, LoadLabels
<1> QED  BY <1>1, <1>2 DEF SameTokens, Request

\* The same for a step of the system.
LEMMA GotoGood ==
  ASSUME TypeInv, NEW p \in Procs, Monotone, req[p].pc # "Idle",
         NEW l \in {"DropSession", "CreateSession", "StopCreateSession", "InsertUser",
                    "CountAdmins", "UpdateUser", "DeleteUser", "SetPassword", "InsertToken",
                    "PurgeTokens", "RevokeDeactivated", "RevokeSessions"},
         req[p].pc \in LoadLabels => l = "DropSession",
         l = "DropSession" => req[p].user # NULL,
         l \in {"StopCreateSession", "SetPassword", "RevokeSessions"} => req[p].target # NULL,
         NEW k \in Times,
         \/ Goto(p, l)
         \/ req' = [req EXCEPT ![p].pc = l, ![p].tick = k]
  PROVE  ReqGood'
<1> DEFINE r1 == [req[p] EXCEPT !.pc = l]
           r2 == [req[p] EXCEPT !.pc = l, !.tick = k]
<1>1. req[p] \in Request /\ LocalsOK(req[p])
  BY Here
<1>2. r1 \in Request /\ LocalsOK(r1) /\ SameTokens(r1, req[p])
  BY <1>1, GotoLocals
<1>3. r2 \in Request /\ LocalsOK(r2) /\ SameTokens(r2, req[p])
  BY <1>1, GotoLocals
<1>4. CASE Goto(p, l)
  BY <1>2, <1>4, Move DEF Goto
<1>5. CASE req' = [req EXCEPT ![p].pc = l, ![p].tick = k]
  BY <1>3, <1>5, Move
<1> QED  BY <1>4, <1>5

\* The system takes the step of SeenLocals.
LEMMA SeenGood ==
  ASSUME TypeInv, NEW p \in Procs, Monotone, req[p].pc # "Idle", req[p].user # NULL,
         NEW u \in UserIds, users[u] # NULL,
         NEW l \in {"GetImpersonator", "Handle", "CheckEmail", "CountAdmins", "DeleteUser"},
         l = "GetImpersonator" => req[p].imp # NULL,
         req' = [req EXCEPT ![p].pc = l, ![p].seen = users[u]]
  PROVE  ReqGood'
<1> DEFINE r == [req[p] EXCEPT !.pc = l, !.seen = users[u]]
<1>1. req[p] \in Request /\ LocalsOK(req[p])
  BY Here
<1>2. users[u] \in User
  BY DEF TypeInv, StoreGood, StoreTypeOK
<1>3. r \in Request /\ LocalsOK(r) /\ SameTokens(r, req[p])
  BY <1>1, <1>2, SeenLocals
<1> QED  BY <1>3, Move

\* The system takes the step of TargetLocals.
LEMMA TargetGood ==
  ASSUME TypeInv, NEW p \in Procs, Monotone, req[p].pc = "Handle", NEW u \in UserIds,
         NEW l \in {"StopGetAdmin", "SetPassword", "MarkUsed"},
         req' = [req EXCEPT ![p].pc = l, ![p].target = u]
  PROVE  ReqGood'
<1> DEFINE r == [req[p] EXCEPT !.pc = l, !.target = u]
<1>1. req[p] \in Request /\ LocalsOK(req[p])
  BY Here
<1>2. r \in Request /\ LocalsOK(r) /\ SameTokens(r, req[p])
  BY <1>1, TargetLocals
<1> QED  BY <1>2, Move

-----------------------------------------------------------------------------
(***************************************************************************)
(* What a statement makes of the tables.                                   *)
(***************************************************************************)
LEMMA DeleteSessionGood ==
  ASSUME TypeInv, NEW s, DeleteSession(s), UNCHANGED <<userVars, tokenVars, clock, secured>>
  PROVE  StoreGood' /\ Monotone
<1>1. sessions' = [sessions EXCEPT ![s] = NULL]
         /\ sessions \in [SessionIds -> Session \cup {NULL}]
  BY DEF DeleteSession, TypeInv, StoreGood, StoreTypeOK
<1>2. /\ sessions' \in [SessionIds -> Session \cup {NULL}]
      /\ \A t \in SessionIds : sessions'[t] # NULL => sessions[t] # NULL
  BY <1>1
<1>3. UNCHANGED <<lastSession, origin>>
  BY DEF DeleteSession
<1> QED
  BY <1>2, <1>3 DEF TypeInv, StoreGood, StoreTypeOK, Monotone, userVars, tokenVars

\* An inserted session row has its origin recorded.
LEMMA CreateSessionGood ==
  ASSUME TypeInv, NEW u \in UserIds, NEW imp \in UserIds \cup {NULL}, NEW owner \in UserIds,
         NEW cred \in Times, lastSession < MaxSessions, CreateSession(u, imp, owner, cred),
         UNCHANGED <<userVars, tokenVars, clock, secured>>
  PROVE  StoreGood' /\ Monotone /\ lastSession' \in SessionIds
<1> DEFINE row == [user |-> u, imp |-> imp]
           org == [owner |-> owner, cred |-> cred, at |-> clock]
<1>1. row \in Session /\ org \in Origin
  BY DEF Session, Origin, TypeInv, StoreGood, StoreTypeOK
<1> HIDE DEF row, org
<1>2. /\ lastSession' = lastSession + 1
      /\ sessions' = [sessions EXCEPT ![lastSession + 1] = row]
      /\ origin' = [origin EXCEPT ![lastSession + 1] = org]
  BY DEF CreateSession, row, org
<1>3. lastSession \in Nat /\ lastSession' \in SessionIds /\ lastToken \in Nat
  BY <1>2, BoundsAssumption DEF TypeInv, StoreGood, StoreTypeOK, SessionIds
<1>4. StoreTypeOK'
  <2>1. /\ sessions' \in [SessionIds -> Session \cup {NULL}]
        /\ origin' \in [SessionIds -> Origin \cup {NULL}]
    BY <1>1, <1>2 DEF TypeInv, StoreGood, StoreTypeOK
  <2>2. lastSession' \in 0 .. MaxSessions
    BY <1>3 DEF SessionIds
  <2> QED  BY <2>1, <2>2 DEF TypeInv, StoreGood, StoreTypeOK, userVars, tokenVars
<1>5. \A s \in SessionIds : /\ sessions'[s] # NULL => s <= lastSession'
                            /\ s <= lastSession' => origin'[s] # NULL
  BY <1>1, <1>2, <1>3, NullIds, BoundsAssumption DEF TypeInv, StoreGood, StoreTypeOK, SessionIds
<1>6. Monotone
  BY <1>2, <1>3 DEF Monotone, tokenVars
<1> QED  BY <1>3, <1>4, <1>5, <1>6 DEF StoreGood, TypeInv, tokenVars

\* DeleteUserSessions keeps the store good.
LEMMA DeleteUserSessionsGood ==
  ASSUME TypeInv, NEW u \in UserIds, DeleteUserSessions(u),
         UNCHANGED <<userVars, tokenVars, clock>>,
         secured' \in [UserIds -> Times]
  PROVE  StoreGood' /\ Monotone
  BY DEF TypeInv, StoreGood, StoreTypeOK, DeleteUserSessions, Monotone, userVars, tokenVars

\* A write to the users table alone keeps the store good.
LEMMA UsersGood ==
  ASSUME TypeInv, users' \in [UserIds -> User \cup {NULL}], lastUser' \in 0 .. MaxUsers,
         clock' \in Times, UNCHANGED <<sessionVars, tokenVars, secured>>
  PROVE  StoreGood' /\ Monotone
  BY DEF TypeInv, StoreGood, StoreTypeOK, Monotone, sessionVars, tokenVars

\* DELETE FROM users, with its cascades, keeps the store good.
LEMMA DeleteUserGood ==
  ASSUME TypeInv, NEW u \in UserIds, DeleteUser(u), UNCHANGED <<clock, secured>>
  PROVE  StoreGood' /\ Monotone
  BY DEF TypeInv, StoreGood, StoreTypeOK, DeleteUser, Monotone

\* A write to the reset tokens alone keeps the store good.
LEMMA TokensGood ==
  ASSUME TypeInv, tokens' \in [TokenIds -> Token \cup {NULL}],
         spent' \in [TokenIds -> Nat],
         \A t \in TokenIds : tokens'[t] # NULL \/ spent'[t] # 0 => t <= lastToken',
         lastToken' \in 0 .. MaxTokens, lastToken <= lastToken',
         UNCHANGED <<userVars, sessionVars, secured>>, clock' \in Times
  PROVE  StoreGood' /\ Monotone
  BY DEF TypeInv, StoreGood, StoreTypeOK, Monotone, userVars, sessionVars

-----------------------------------------------------------------------------
\* The LoadUser middleware and the gates preserve the invariant.
LEMMA LoadUserType ==
  ASSUME TypeInv, NEW p \in Procs, LoadUser(p)
  PROVE  TypeInv'
<1>1. req[p] \in Request /\ LocalsOK(req[p])
  BY Here
<1>2. CASE GetSession(p)
  <2> DEFINE row == sessions[req[p].sid]
             r == [req[p] EXCEPT !.pc = "GetUser", !.user = row.user, !.imp = row.imp]
  <2>1. StoreGood' /\ ClientsGood' /\ Monotone
    BY <1>2, SameStore DEF GetSession
  <2>2. CASE row = NULL
    BY <1>2, <2>1, <2>2, ReplyGood DEF GetSession, TypeInv
  <2>3. CASE row # NULL
    <3>1. row \in Session
      BY <1>1, <1>2, <2>3, NullIds DEF TypeInv, StoreGood, StoreTypeOK, LocalsOK, LoadLabels,
         Request,
         GetSession
    <3>2. req' = [req EXCEPT ![p] = r]
      BY <1>2, <2>3 DEF GetSession
    <3> HIDE DEF row
    <3>3. r \in Request /\ LocalsOK(r) /\ SameTokens(r, req[p])
      BY <1>1, <1>2, <3>1, GetSessionLocals DEF GetSession
    <3> QED  BY <2>1, <3>2, <3>3, Move DEF TypeInv
  <2> QED  BY <2>2, <2>3
<1>3. CASE GetUser(p)
  <2>1. StoreGood' /\ ClientsGood' /\ Monotone
    BY <1>3, SameStore DEF GetUser
  <2>2. req[p].user \in UserIds /\ req[p].user # NULL
    BY <1>1, <1>3 DEF GetUser, LocalsOK, Request
  <2>3. CASE Reply(p)
    BY <2>1, <2>3, ReplyGood DEF TypeInv
  <2>4. CASE Goto(p, "DropSession")
    <3>1. 0 \in Times
      BY BoundsAssumption DEF Times
    <3> QED  BY <1>3, <2>1, <2>2, <2>4, <3>1, GotoGood DEF TypeInv, GetUser
  <2>5. ASSUME NEW l \in {"Handle", "GetImpersonator"}, users[req[p].user] # NULL,
               l = "GetImpersonator" => req[p].imp # NULL,
               req' = [req EXCEPT ![p].pc = l, ![p].seen = users[req[p].user]]
        PROVE  TypeInv'
    BY <1>3, <2>1, <2>2, <2>5, SeenGood DEF GetUser, TypeInv
  <2> QED  BY <1>3, <2>3, <2>4, <2>5 DEF GetUser, Admit
<1>4. CASE GetImpersonator(p)
  <2>1. StoreGood' /\ ClientsGood' /\ Monotone
    BY <1>4, SameStore DEF GetImpersonator
  <2>2. req[p].user # NULL /\ 0 \in Times
    BY <1>1, <1>4, BoundsAssumption DEF GetImpersonator, LocalsOK, Request, Times
  <2>3. CASE Reply(p)
    BY <2>1, <2>3, ReplyGood DEF TypeInv
  <2>4. CASE Goto(p, "DropSession")
    BY <1>4, <2>1, <2>2, <2>4, GotoGood DEF TypeInv, GetImpersonator
  <2>5. CASE req' = [req EXCEPT ![p].pc = "Handle", ![p].seen = req[p].seen]
    <3> DEFINE r == [req[p] EXCEPT !.pc = "Handle", !.seen = req[p].seen]
    <3>1. req[p].seen \in User /\ req[p].pc # "Idle"
      BY <1>1, <1>4 DEF GetImpersonator, LocalsOK, Request, Row
    <3>2. r \in Request /\ LocalsOK(r) /\ SameTokens(r, req[p])
      BY <1>1, <2>2, <3>1, SeenLocals
    <3> QED  BY <2>1, <2>5, <3>2, Move DEF TypeInv
  <2> QED  BY <1>4, <2>3, <2>4, <2>5 DEF GetImpersonator, Admit
<1>5. CASE DropSession(p)
  <2>1. StoreGood' /\ Monotone
    BY <1>5, DeleteSessionGood DEF DropSession
  <2> QED  BY <1>5, <2>1, ReplyGood, SameClients DEF DropSession, TypeInv, clientVars
<1> QED  BY <1>2, <1>3, <1>4, <1>5 DEF LoadUser

\* Login, logout and the rotations preserve the invariant.
LEMMA AuthType ==
  ASSUME TypeInv, NEW p \in Procs, AuthStep(p)
  PROVE  TypeInv'
<1>1. req[p] \in Request /\ LocalsOK(req[p]) /\ IssuedTo(req[p], lastSession, lastToken)
  BY Here
<1>2. 0 \in Times /\ clock \in Times
  BY BoundsAssumption DEF Times, TypeInv, StoreGood, StoreTypeOK
<1>3. CASE LoginGetUser(p) \/ StartGetTarget(p) \/ StopGetSession(p) \/ StopGetAdmin(p)
  <2>1. StoreGood' /\ ClientsGood' /\ Monotone
    BY <1>3, SameStore DEF LoginGetUser, StartGetTarget, StopGetSession, StopGetAdmin, Proceed
  <2>2. CASE Reply(p)
    BY <2>1, <2>2, ReplyGood DEF TypeInv
  <2>3. CASE LoginGetUser(p) /\ ~Reply(p)
    BY <1>1, <1>2, <2>1, <2>3, GotoGood DEF LoginGetUser, At, TypeInv, LoadLabels
  <2>4. CASE StartGetTarget(p) /\ ~Reply(p)
    BY <1>1, <1>2, <2>1, <2>4, GotoGood DEF StartGetTarget, At, TypeInv, LoadLabels
  <2>5. CASE StopGetSession(p) /\ ~Reply(p)
    <3> DEFINE row == sessions[req[p].sid]
    <3>1. row # NULL /\ row.imp # NULL /\ req[p].sid \in SessionIds
      BY <1>1, <2>5, FormAssumption DEF StopGetSession, At, LocalsOK, Request, PublicOps
    <3>2. row.imp \in UserIds
      BY <3>1 DEF TypeInv, StoreGood, StoreTypeOK, Session
    <3> QED  BY <2>1, <2>5, <3>1, <3>2, TargetGood DEF StopGetSession, At, TypeInv
  <2>6. CASE StopGetAdmin(p)
    <3>1. req[p].user # NULL /\ req[p].target # NULL /\ req[p].pc = "StopGetAdmin"
      BY <1>1, <2>6 DEF StopGetAdmin, At, LocalsOK, PublicOps
    <3> QED  BY <1>1, <1>2, <2>1, <2>6, <3>1, GotoGood DEF StopGetAdmin, Proceed, TypeInv,
           LoadLabels
  <2> QED  BY <1>3, <2>2, <2>3, <2>4, <2>5, <2>6
<1>4. CASE LoginCreateSession(p)
  <2>1. req[p].target \in UserIds /\ req[p].tick \in Times
    BY <1>1, <1>4 DEF LoginCreateSession, At, LocalsOK, Request
  <2>2. StoreGood' /\ Monotone /\ lastSession' \in SessionIds
    BY <1>4, <2>1, CreateSessionGood DEF LoginCreateSession, CanCreateSession
  <2>3. ClientsGood'
    BY <1>4, <2>2, GrowingClients DEF LoginCreateSession, CreateSession, SessionIds
  <2> QED  BY <1>4, <2>2, <2>3, ReplyGood DEF LoginCreateSession, TypeInv
<1>5. CASE Logout(p)
  <2>1. StoreGood' /\ Monotone
    BY <1>5, DeleteSessionGood DEF Logout
  <2> QED  BY <1>5, <2>1, ReplyGood, SameClients DEF Logout, TypeInv, clientVars
<1>6. ASSUME NEW u \in UserIds, NEW imp \in UserIds \cup {NULL}, RotateTo(p, u, imp),
             req[p].sid # NULL, req[p].pc # "Idle", req[p].op \notin PublicOps,
             req[p].pc \notin LoadLabels
      PROVE  TypeInv'
  <2> DEFINE r == [req[p] EXCEPT !.pc = "EndRotation", !.new = lastSession + 1]
  <2>1. req[p].sid \in SessionIds /\ req[p].sid <= lastSession
    BY <1>1, <1>6 DEF Request, IssuedTo
  <2>2. origin[req[p].sid] \in Origin
    BY <2>1 DEF TypeInv, StoreGood, StoreTypeOK
  <2>3. StoreGood' /\ Monotone /\ lastSession' \in SessionIds /\ lastSession' = lastSession + 1
    BY <1>6, <2>2, CreateSessionGood DEF RotateTo, CanCreateSession, Origin, CreateSession
  <2>4. ASSUME NEW n \in SessionIds, NEW q \in Request, LocalsOK(q), q.sid # NULL,
           q.pc # "Idle", q.pc \notin LoadLabels
        PROVE  LET m == [q EXCEPT !.pc = "EndRotation", !.new = n] IN m \in Request
    BY <2>4 DEF Request, Labels
  <2>5. ASSUME NEW n \in SessionIds, NEW q \in Request, LocalsOK(q), q.sid # NULL,
           q.pc # "Idle", q.pc \notin LoadLabels
        PROVE  LET m == [q EXCEPT !.pc = "EndRotation", !.new = n] IN LocalsOK(m)
    BY <2>5, NullIds DEF Request, LocalsOK, LoadLabels
  <2>6. r \in Request /\ LocalsOK(r)
    BY <1>1, <1>6, <2>3, <2>4, <2>5
  <2>7. IssuedTo(r, lastSession', lastToken')
    <3>1. IssuedTo(req[p], lastSession', lastToken')
      BY <1>1, <2>3, IssuedLater
    <3>2. r.sid = req[p].sid /\ r.token = req[p].token /\ r.new = lastSession'
      BY <1>1, <2>3 DEF Request
    <3> QED  BY <2>3, <3>1, <3>2 DEF IssuedTo, Monotone
  <2>8. ReqGood'
    BY <1>6, <2>3, <2>6, <2>7, SetLocals DEF RotateTo
  <2> QED  BY <1>6, <2>3, <2>8, SameClients DEF RotateTo, TypeInv, clientVars
<1>7. CASE StartCreateSession(p)
  BY <1>1, <1>6, <1>7, FormAssumption DEF StartCreateSession, At, LocalsOK, Request, PublicOps,
     LoadLabels
<1>8. CASE StopCreateSession(p)
  BY <1>1, <1>6, <1>8, FormAssumption DEF StopCreateSession, At, LocalsOK, Request, PublicOps,
     LoadLabels
<1>9. CASE EndRotation(p)
  <2>1. StoreGood' /\ Monotone
    BY <1>9, DeleteSessionGood DEF EndRotation
  <2>2. req[p].new \in SessionIds /\ req[p].new <= lastSession
    BY <1>1, <1>9 DEF EndRotation, LocalsOK, Request, IssuedTo
  <2>3. ClientsGood'
    BY <1>9, <2>1, <2>2, GrowingClients DEF EndRotation, DeleteSession
  <2> QED  BY <1>9, <2>1, <2>3, ReplyGood DEF EndRotation, TypeInv
<1> QED
  BY <1>3, <1>4, <1>5, <1>7, <1>8, <1>9 DEF AuthStep

\* Writing a password hash preserves the invariant.
LEMMA UpdateUserPasswordGood ==
  ASSUME TypeInv, NEW p \in Procs, UpdateUserPassword(p), req[p].pc = "SetPassword",
         \/ spent' = spent
         \/ req[p].token # NULL /\ spent' = [spent EXCEPT ![req[p].token] = @ + 1]
  PROVE  TypeInv'
<1>1. req[p] \in Request /\ LocalsOK(req[p])
  BY Here
<1>2. clock' \in Times /\ clock + 1 \in Times
  BY BoundsAssumption DEF UpdateUserPassword, Times, TypeInv, StoreGood, StoreTypeOK
<1>3. UNCHANGED <<userVars, sessionVars, secured>> /\ tokens' = tokens /\ lastToken' = lastToken
  BY DEF UpdateUserPassword
<1>4. /\ spent' \in [TokenIds -> Nat]
      /\ \A t \in TokenIds : spent'[t] # 0 => t <= lastToken
  <2>1. req[p].token # NULL => req[p].token \in TokenIds /\ req[p].token <= lastToken
    BY Here DEF Request, IssuedTo
  <2> QED  BY <2>1 DEF TypeInv, StoreGood, StoreTypeOK
<1>5. StoreGood' /\ Monotone
  BY <1>2, <1>3, <1>4, TokensGood DEF TypeInv, StoreGood, StoreTypeOK, TokenIds
<1>6. ReqGood'
  BY <1>1, <1>2, <1>5, GotoGood DEF UpdateUserPassword, LocalsOK, LoadLabels
<1> QED  BY <1>5, <1>6, SameClients DEF TypeInv, UpdateUserPassword, clientVars

\* The user settings operations preserve the invariant.
LEMMA UserAdminType ==
  ASSUME TypeInv, NEW p \in Procs, UserAdminStep(p)
  PROVE  TypeInv'
<1>1. req[p] \in Request /\ LocalsOK(req[p])
  BY Here
<1>2. 0 \in Times /\ clock \in Times
  BY BoundsAssumption DEF Times, TypeInv, StoreGood, StoreTypeOK
<1>3. CASE /\ UNCHANGED <<storeVars, clientVars>>
           /\ \/ CreateCheckEmail(p) \/ UpdateCheckEmail(p) \/ UpdateCountAdmins(p)
              \/ DeleteCountAdmins(p)
  <2>1. StoreGood' /\ ClientsGood' /\ Monotone
    BY <1>3, SameStore
  <2>2. CASE Refuse(p)
    BY <2>1, <2>2, ReplyGood DEF TypeInv, Refuse
  <2>3. ASSUME NEW l \in {"InsertUser", "CountAdmins", "UpdateUser", "DeleteUser"},
               Proceed(p, l), req[p].pc \in {"Handle", "CheckEmail", "CountAdmins"}
        PROVE  TypeInv'
    BY <1>2, <2>1, <2>3, GotoGood DEF Proceed, TypeInv, LoadLabels
  <2> QED  BY <1>3, <2>2, <2>3 DEF CreateCheckEmail, UpdateCheckEmail, UpdateCountAdmins,
              DeleteCountAdmins, At
<1>4. CASE UpdateGetUser(p) \/ DeleteGetUser(p)
  <2>1. StoreGood' /\ ClientsGood' /\ Monotone
    BY <1>4, SameStore DEF UpdateGetUser, DeleteGetUser
  <2>2. CASE Reply(p)
    BY <2>1, <2>2, ReplyGood DEF TypeInv
  <2>3. req[p].pc = "Handle" /\ req[p].user # NULL /\ req[p].target \in UserIds
    BY <1>1, <1>4, FormAssumption DEF UpdateGetUser, DeleteGetUser, At, LocalsOK, Request,
       PublicOps
  <2>4. ASSUME NEW l \in {"CheckEmail", "CountAdmins", "DeleteUser"}, users[req[p].target] # NULL,
               req' = [req EXCEPT ![p].pc = l, ![p].seen = users[req[p].target]]
        PROVE  TypeInv'
    BY <2>1, <2>3, <2>4, SeenGood DEF TypeInv
  <2> QED  BY <1>4, <2>2, <2>4 DEF UpdateGetUser, DeleteGetUser
<1>5. CASE InsertUser(p)
  <2> DEFINE row == [role |-> req[p].form.role, active |-> req[p].form.active]
  <2>1. row \in User
    BY <1>1, <1>5 DEF InsertUser, At, LocalsOK, Request, Form, User
  <2> HIDE DEF row
  <2>2. lastUser' = lastUser + 1 /\ users' = [users EXCEPT ![lastUser + 1] = row]
    BY <1>5 DEF InsertUser, CreateUser, row
  <2>3. lastUser' \in 0 .. MaxUsers /\ users' \in [UserIds -> User \cup {NULL}]
    <3>1. lastUser \in 0 .. MaxUsers /\ lastUser < MaxUsers
             /\ users \in [UserIds -> User \cup {NULL}]
      BY <1>5 DEF InsertUser, TypeInv, StoreGood, StoreTypeOK
    <3>2. lastUser' \in 0 .. MaxUsers
      BY <2>2, <3>1, BoundsAssumption
    <3>3. users' \in [UserIds -> User \cup {NULL}]
      BY <2>1, <2>2, <3>1
    <3> QED  BY <3>2, <3>3
  <2>4. StoreGood' /\ Monotone
    BY <1>2, <1>5, <2>3, UsersGood DEF InsertUser
  <2> QED  BY <1>5, <2>4, ReplyGood, SameClients DEF InsertUser, TypeInv, clientVars
<1>6. ASSUME NEW l \in {"RevokeDeactivated", "SetPassword", "Idle"}, NEW k \in Times, Monotone,
             req[p].op = "update", req[p].pc \in {"UpdateUser", "RevokeDeactivated"},
             \/ Continue(p, l, req[p])
             \/ Continue(p, l, [req[p] EXCEPT !.tick = k])
      PROVE  ReqGood'
  <2>1. CASE l = "Idle"
    BY <1>6, <2>1, ReplyGood DEF Continue, Reply
  <2>2. CASE l # "Idle"
    <3>1. req[p].target # NULL /\ l \in {"RevokeDeactivated", "SetPassword"}
      BY <1>1, <1>6, <2>2 DEF LocalsOK
    <3> DEFINE r1 == [req[p] EXCEPT !.pc = l]
               r2 == [req[p] EXCEPT !.pc = l, !.tick = k]
    <3>2. r1 \in Request /\ LocalsOK(r1) /\ SameTokens(r1, req[p])
      BY <1>1, <1>6, <3>1, GotoLocals DEF LoadLabels
    <3>3. r2 \in Request /\ LocalsOK(r2) /\ SameTokens(r2, req[p])
      BY <1>1, <1>6, <3>1, GotoLocals DEF LoadLabels
    <3>4. req' = [req EXCEPT ![p] = r1] \/ req' = [req EXCEPT ![p] = r2]
      BY <1>1, <1>6, <2>2 DEF Continue, Request
    <3> QED  BY <1>6, <3>2, <3>3, <3>4, Move
  <2> QED  BY <2>1, <2>2
<1>7. CASE WriteUser(p)
  <2> DEFINE row == [role |-> req[p].form.role, active |-> req[p].form.active]
  <2>1. row \in User /\ req[p].op = "update" /\ req[p].pc = "UpdateUser"
    BY <1>1, <1>7 DEF WriteUser, At, LocalsOK, Request, Form, User
  <2> HIDE DEF row
  <2>2. UpdateUser(req[p].target, row)
    BY <1>7 DEF WriteUser, row
  <2>3. lastUser' \in 0 .. MaxUsers /\ users' \in [UserIds -> User \cup {NULL}]
    BY <2>1, <2>2 DEF UpdateUser, TypeInv, StoreGood, StoreTypeOK
  <2>4. clock' \in Times /\ (clock < MaxClock => clock + 1 \in Times)
    BY <1>7, <1>2, BoundsAssumption DEF WriteUser, Times
  <2>5. StoreGood' /\ Monotone
    BY <1>7, <2>3, <2>4, UsersGood DEF WriteUser
  <2>6. ReqGood'
    BY <1>2, <1>6, <1>7, <2>1, <2>4, <2>5 DEF WriteUser, AfterUpdate
  <2> QED  BY <1>7, <2>5, <2>6, SameClients DEF WriteUser, TypeInv, clientVars
<1>8. ASSUME Revoke(p), req[p].target # NULL, UNCHANGED tokenVars
      PROVE  StoreGood' /\ Monotone /\ ClientsGood'
  <2>1. secured' \in [UserIds -> Times] /\ req[p].target \in UserIds
    BY <1>1, <1>8 DEF Revoke, TypeInv, StoreGood, StoreTypeOK, Request
  <2> QED  BY <1>8, <2>1, DeleteUserSessionsGood, SameClients DEF Revoke, clientVars
<1>9. CASE RevokeDeactivated(p)
  <2>1. req[p].target # NULL /\ req[p].op = "update" /\ req[p].pc = "RevokeDeactivated"
    BY <1>1, <1>9 DEF RevokeDeactivated, At, LocalsOK
  <2> QED  BY <1>2, <1>6, <1>8, <1>9, <2>1 DEF RevokeDeactivated, AfterUpdate, TypeInv
<1>10. CASE RemoveUser(p)
  <2>1. req[p].target \in UserIds
    BY <1>1, <1>10 DEF RemoveUser, At, LocalsOK, Request
  <2>2. StoreGood' /\ Monotone
    BY <1>10, <2>1, DeleteUserGood DEF RemoveUser
  <2> QED  BY <1>10, <2>2, ReplyGood, SameClients DEF RemoveUser, TypeInv, clientVars
<1>11. CASE ChangeGetUser(p)
  <2>1. StoreGood' /\ ClientsGood' /\ Monotone
    BY <1>11, SameStore DEF ChangeGetUser
  <2>2. CASE Reply(p)
    BY <2>1, <2>2, ReplyGood DEF TypeInv
  <2>3. req[p].pc = "Handle" /\ req[p].user \in UserIds
    BY <1>1, <1>11, FormAssumption DEF ChangeGetUser, At, LocalsOK, Request, PublicOps, LoadLabels
  <2> QED  BY <1>11, <2>1, <2>2, <2>3, TargetGood DEF ChangeGetUser, TypeInv
<1>12. CASE SetPassword(p)
  BY <1>1, <1>12, UpdateUserPasswordGood DEF SetPassword, tokenVars, LocalsOK
<1>13. CASE RevokeSessions(p)
  <2>1. StoreGood' /\ Monotone /\ ClientsGood'
    BY <1>1, <1>8, <1>13 DEF RevokeSessions, LocalsOK
  <2> QED  BY <1>13, <2>1, ReplyGood DEF RevokeSessions, TypeInv
<1> QED
  BY <1>3, <1>4, <1>5, <1>7, <1>9, <1>10, <1>11, <1>12, <1>13
  DEF UserAdminStep, CreateCheckEmail, UpdateCheckEmail, UpdateCountAdmins, DeleteCountAdmins,
      Refuse, Proceed

\* Requesting and using a reset token preserve the invariant.
LEMMA ResetType ==
  ASSUME TypeInv, NEW p \in Procs, ResetStep(p)
  PROVE  TypeInv'
<1>1. req[p] \in Request /\ LocalsOK(req[p]) /\ IssuedTo(req[p], lastSession, lastToken)
  BY Here
<1>2. 0 \in Times /\ clock \in Times
  BY BoundsAssumption DEF Times, TypeInv, StoreGood, StoreTypeOK
<1>3. CASE ForgotGetUser(p) \/ ResetGetToken(p)
  <2>1. StoreGood' /\ ClientsGood' /\ Monotone /\ req[p].pc = "Handle"
    BY <1>3, SameStore DEF ForgotGetUser, ResetGetToken, Proceed, Refuse, At
  <2>2. CASE Reply(p)
    BY <2>1, <2>2, ReplyGood DEF TypeInv
  <2>3. CASE Goto(p, "InsertToken")
    BY <1>2, <2>1, <2>3, GotoGood DEF TypeInv, LoadLabels
  <2>4. CASE /\ req[p].op = "reset" /\ ValidToken(req[p].token)
             /\ req' = [req EXCEPT ![p].pc = "MarkUsed", ![p].target = tokens[req[p].token].user]
    <3>1. tokens[req[p].token].user \in UserIds
      BY <1>1, <2>4 DEF ValidToken, LocalsOK, Request, Token, TypeInv, StoreGood, StoreTypeOK
    <3> QED  BY <2>1, <2>4, <3>1, TargetGood DEF TypeInv
  <2> QED  BY <1>3, <2>2, <2>3, <2>4 DEF ForgotGetUser, ResetGetToken, Proceed, Refuse, At
<1>4. CASE ForgotInsertToken(p)
  <2> DEFINE row == [user |-> req[p].target, used |-> FALSE, expired |-> FALSE]
             r == [req[p] EXCEPT !.pc = "SendMail", !.token = lastToken + 1]
  <2>1. row \in Token
    BY <1>1, <1>4 DEF ForgotInsertToken, At, LocalsOK, Request, Token
  <2> HIDE DEF row
  <2>2. lastToken' = lastToken + 1 /\ tokens' = [tokens EXCEPT ![lastToken + 1] = row]
    BY <1>4 DEF ForgotInsertToken, CreatePasswordResetToken, row
  <2>3. /\ lastToken \in Nat /\ lastToken' \in TokenIds /\ lastToken' \in 0 .. MaxTokens
        /\ tokens' \in [TokenIds -> Token \cup {NULL}]
        /\ \A t \in TokenIds : tokens'[t] # NULL \/ spent[t] # 0 => t <= lastToken'
    <3>1. /\ lastToken \in 0 .. MaxTokens /\ lastToken < MaxTokens
          /\ tokens \in [TokenIds -> Token \cup {NULL}]
          /\ \A t \in TokenIds : tokens[t] # NULL \/ spent[t] # 0 => t <= lastToken
      BY <1>4 DEF ForgotInsertToken, TypeInv, StoreGood, StoreTypeOK
    <3> QED  BY <2>1, <2>2, <3>1, BoundsAssumption DEF TokenIds
  <2>4. StoreGood' /\ Monotone
    BY <1>2, <1>4, <2>2, <2>3, TokensGood DEF ForgotInsertToken, TypeInv, StoreGood, StoreTypeOK
  <2>5. ASSUME NEW n \in TokenIds, NEW q \in Request, LocalsOK(q), q.op = "forgot",
           q.pc = "InsertToken"
        PROVE  [q EXCEPT !.pc = "SendMail", !.token = n] \in Request
    BY <2>5 DEF Request, Labels
  <2>6. ASSUME NEW n \in TokenIds, NEW q \in Request, LocalsOK(q), q.op = "forgot",
           q.pc = "InsertToken"
        PROVE  LocalsOK([q EXCEPT !.pc = "SendMail", !.token = n])
    BY <2>6, NullIds DEF Request, LocalsOK, LoadLabels, PublicOps
  <2>7. r \in Request /\ LocalsOK(r)
    BY <1>1, <1>4, <2>2, <2>3, <2>5, <2>6 DEF ForgotInsertToken, At
  <2>8. IssuedTo(r, lastSession', lastToken')
    <3>1. IssuedTo(req[p], lastSession', lastToken')
      BY <1>1, <2>4, IssuedLater
    <3>2. r.sid = req[p].sid /\ r.new = req[p].new /\ r.token = lastToken'
      BY <1>1, <2>2 DEF Request
    <3> QED  BY <2>4, <3>1, <3>2 DEF IssuedTo, Monotone
  <2>9. ReqGood'
    BY <1>4, <2>4, <2>7, <2>8, SetLocals DEF ForgotInsertToken
  <2> QED  BY <1>4, <2>4, <2>9, SameClients DEF ForgotInsertToken, TypeInv, clientVars
<1>5. CASE ForgotSendMail(p)
  <2>1. UNCHANGED storeVars /\ cookies' = cookies /\ mailed' = mailed \cup {req[p].token}
    BY <1>5 DEF ForgotSendMail
  <2>2. StoreGood' /\ Monotone
    BY <2>1 DEF TypeInv, StoreGood, StoreTypeOK, Monotone, storeVars, userVars, sessionVars,
       tokenVars
  <2>3. req[p].token \in TokenIds /\ req[p].token <= lastToken
    BY <1>1, <1>5 DEF ForgotSendMail, At, LocalsOK, Request, IssuedTo
  <2>4. ClientsGood'
    <3>1. lastSession' = lastSession /\ lastToken' = lastToken /\ lastToken \in Nat
      BY <2>1 DEF storeVars, sessionVars, tokenVars, TypeInv, StoreGood, StoreTypeOK
    <3>2. cookies \subseteq 1 .. lastSession /\ mailed \subseteq 1 .. lastToken
      BY DEF TypeInv, ClientsGood
    <3>3. req[p].token \in 1 .. lastToken
      BY <2>3, <3>1 DEF TokenIds
    <3> QED  BY <2>1, <3>1, <3>2, <3>3 DEF ClientsGood
  <2> QED  BY <1>5, <2>2, <2>4, ReplyGood DEF ForgotSendMail, TypeInv
<1>6. CASE ResetMarkUsed(p)
  <2>1. tokens' \in [TokenIds -> Token \cup {NULL}]
        /\ \A t \in TokenIds : tokens'[t] # NULL => tokens[t] # NULL
    <3>1. CASE Markable(req[p].token)
      <4>1. tokens[req[p].token] \in Token /\ req[p].token \in TokenIds
        BY <1>1, <1>6, <3>1 DEF Markable, ResetMarkUsed, At, LocalsOK, Request, TypeInv,
           StoreGood, StoreTypeOK
      <4>2. ASSUME NEW row \in Token PROVE [row EXCEPT !.used = TRUE] \in Token
        BY DEF Token
      <4> QED  BY <1>6, <3>1, <4>1, <4>2, NullIds DEF ResetMarkUsed, MarkPasswordResetTokenUsed,
             TypeInv, StoreGood, StoreTypeOK
    <3>2. CASE ~Markable(req[p].token)
      BY <1>6, <3>2 DEF ResetMarkUsed, TypeInv, StoreGood, StoreTypeOK
    <3> QED  BY <3>1, <3>2
  <2>2. StoreGood' /\ Monotone
    BY <1>2, <1>6, <2>1, TokensGood DEF ResetMarkUsed, TypeInv, StoreGood, StoreTypeOK
  <2>3. ReqGood'
    BY <1>1, <1>2, <1>6, <2>2, ReplyGood, GotoGood DEF ResetMarkUsed, At, LocalsOK, LoadLabels
  <2> QED  BY <1>6, <2>2, <2>3, SameClients DEF ResetMarkUsed, TypeInv, clientVars
<1>7. CASE ResetSetPassword(p)
  BY <1>1, <1>7, UpdateUserPasswordGood DEF ResetSetPassword, At, LocalsOK
<1>8. CASE ResetRevokeSessions(p)
  <2>1. secured' \in [UserIds -> Times] /\ req[p].target \in UserIds
    BY <1>1, <1>8 DEF ResetRevokeSessions, At, LocalsOK, Revoke, TypeInv, StoreGood,
       StoreTypeOK, Request
  <2>2. StoreGood' /\ Monotone
    BY <1>8, <2>1, DeleteUserSessionsGood DEF ResetRevokeSessions, Revoke
  <2>3. ReqGood'
    BY <1>2, <1>8, <2>2, GotoGood DEF ResetRevokeSessions, At, LoadLabels
  <2> QED  BY <1>8, <2>2, <2>3, SameClients DEF ResetRevokeSessions, Revoke, TypeInv, clientVars
<1>9. CASE ResetPurgeTokens(p)
  <2>1. tokens' \in [TokenIds -> Token \cup {NULL}]
        /\ \A t \in TokenIds : tokens'[t] # NULL => tokens[t] # NULL
    BY <1>9 DEF ResetPurgeTokens, DeleteExpiredPasswordResetTokens, TypeInv, StoreGood,
       StoreTypeOK
  <2>2. StoreGood' /\ Monotone
    BY <1>2, <1>9, <2>1, TokensGood DEF ResetPurgeTokens, TypeInv, StoreGood, StoreTypeOK
  <2> QED  BY <1>9, <2>2, ReplyGood, SameClients DEF ResetPurgeTokens, TypeInv, clientVars
<1> QED
  BY <1>3, <1>4, <1>5, <1>6, <1>7, <1>8, <1>9 DEF ResetStep

-----------------------------------------------------------------------------
\* A request arrives with good locals.
LEMMA ArriveGood ==
  ASSUME TypeInv, NEW p \in Procs, NEW r \in Request, LocalsOK(r),
         IssuedTo(r, lastSession, lastToken), Arrive(p, r)
  PROVE  TypeInv'
<1>1. StoreGood' /\ ClientsGood' /\ Monotone
  BY SameStore DEF Arrive
<1>2. IssuedTo(r, lastSession', lastToken')
  BY <1>1, IssuedLater
<1> QED  BY <1>1, <1>2, SetLocals DEF Arrive, TypeInv

\* A request with a cookie, before LoadUser.
CookieRequest(r, s) ==
  /\ r \in Request /\ r.op \in AllOps \ PublicOps /\ r.pc = "GetSession" /\ r.sid = s
  /\ r.user = NULL /\ r.token = NULL /\ r.new = NULL /\ r.tick = 0
  /\ r.op \in {"impersonate", "delete", "update"} => r.target # NULL
  /\ r.op \in {"create", "update"} => r.form # NULL

\* Every request ArriveWithCookie can ask for has the shape of CookieRequest.
LEMMA CookieRequests ==
  ASSUME NEW s \in SessionIds, NEW u \in UserIds, NEW f \in Form, NEW r0,
         r0 = [Idle EXCEPT !.pc = "GetSession", !.sid = s]
  PROVE  /\ \A op \in {"logout", "unimpersonate", "changePassword"} :
              CookieRequest([r0 EXCEPT !.op = op], s)
         /\ \A op \in {"impersonate", "delete"} :
              CookieRequest([r0 EXCEPT !.op = op, !.target = u], s)
         /\ CookieRequest([r0 EXCEPT !.op = "create", !.form = f], s)
         /\ CookieRequest([r0 EXCEPT !.op = "update", !.target = u, !.form = f], s)
<1>1. /\ r0 \in Request /\ r0.pc = "GetSession" /\ r0.sid = s
      /\ r0.user = NULL /\ r0.token = NULL /\ r0.new = NULL /\ r0.tick = 0
  <2>1. r0 \in Request
    BY IdleOK DEF Request, Labels
  <2> QED  BY <2>1 DEF Idle
<1>2. {"logout", "unimpersonate", "changePassword", "impersonate", "delete", "create", "update"}
        \subseteq AllOps \ PublicOps
  BY DEF AllOps, PublicOps, AdminOps
<1>3. u # NULL /\ f # NULL
  BY NullIds
<1> HIDE DEF PublicOps
<1>4. ASSUME NEW op \in {"logout", "unimpersonate", "changePassword"}
      PROVE  CookieRequest([r0 EXCEPT !.op = op], s)
  BY <1>1, <1>2, ZenonT(30) DEF Request, CookieRequest
<1>5. ASSUME NEW op \in {"impersonate", "delete"}
      PROVE  CookieRequest([r0 EXCEPT !.op = op, !.target = u], s)
  BY <1>1, <1>2, <1>3, ZenonT(30) DEF Request, CookieRequest
<1>6. CookieRequest([r0 EXCEPT !.op = "create", !.form = f], s)
  BY <1>1, <1>2, <1>3, ZenonT(30) DEF Request, CookieRequest
<1>7. CookieRequest([r0 EXCEPT !.op = "update", !.target = u, !.form = f], s)
  BY <1>1, <1>2, <1>3, ZenonT(30) DEF Request, CookieRequest
<1> QED  BY <1>4, <1>5, <1>6, <1>7

\* Clients ask about ids the users table has handed out.
LEMMA KnownIds == TypeInv => KnownUsers \subseteq UserIds
  BY BoundsAssumption DEF KnownUsers, UserIds, TypeInv, StoreGood, StoreTypeOK

\* Cookies are session tokens that were generated.
LEMMA CookieIds == TypeInv => \A s \in cookies : s \in SessionIds /\ s <= lastSession
  BY BoundsAssumption DEF TypeInv, ClientsGood, StoreGood, StoreTypeOK, SessionIds

\* What arrives with a cookie is a CookieRequest.
LEMMA CookieArrivals ==
  ASSUME TypeInv, NEW p \in Procs, ArriveWithCookie(p)
  PROVE  \E s \in cookies, r \in Request : CookieRequest(r, s) /\ Arrive(p, r)
<1>1. PICK s \in cookies :
        LET r == [Idle EXCEPT !.pc = "GetSession", !.sid = s] IN
        \/ \E op \in {"logout", "unimpersonate", "changePassword"} :
             Arrive(p, [r EXCEPT !.op = op])
        \/ \E op \in {"impersonate", "delete"}, u \in KnownUsers :
             Arrive(p, [r EXCEPT !.op = op, !.target = u])
        \/ \E f \in Form : Arrive(p, [r EXCEPT !.op = "create", !.form = f])
        \/ \E f \in Form, u \in KnownUsers :
             Arrive(p, [r EXCEPT !.op = "update", !.target = u, !.form = f])
  BY DEF ArriveWithCookie
<1> DEFINE r == [Idle EXCEPT !.pc = "GetSession", !.sid = s]
<1>2. s \in SessionIds /\ UserIds # {} /\ Form # {}
  <2>1. 1 \in UserIds
    BY BoundsAssumption DEF UserIds
  <2>2. [role |-> "admin", active |-> TRUE, password |-> TRUE] \in Form
    BY DEF Form, Roles
  <2> QED  BY CookieIds, <2>1, <2>2
<1>3. \A u \in UserIds, f \in Form :
        /\ \A op \in {"logout", "unimpersonate", "changePassword"} :
             CookieRequest([r EXCEPT !.op = op], s)
        /\ \A op \in {"impersonate", "delete"} :
             CookieRequest([r EXCEPT !.op = op, !.target = u], s)
        /\ CookieRequest([r EXCEPT !.op = "create", !.form = f], s)
        /\ CookieRequest([r EXCEPT !.op = "update", !.target = u, !.form = f], s)
  BY <1>2, CookieRequests
<1>4. \/ \E op \in {"logout", "unimpersonate", "changePassword"} :
           Arrive(p, [r EXCEPT !.op = op])
      \/ \E op \in {"impersonate", "delete"}, u \in UserIds :
           Arrive(p, [r EXCEPT !.op = op, !.target = u])
      \/ \E f \in Form : Arrive(p, [r EXCEPT !.op = "create", !.form = f])
      \/ \E f \in Form, u \in UserIds :
           Arrive(p, [r EXCEPT !.op = "update", !.target = u, !.form = f])
  BY KnownIds, <1>1
<1> HIDE DEF r
<1>5. \E rr : CookieRequest(rr, s) /\ Arrive(p, rr)
  <2>1. PICK u \in UserIds, f \in Form : TRUE
    BY <1>2
  <2>2. CASE \E op \in {"logout", "unimpersonate", "changePassword"} :
               Arrive(p, [r EXCEPT !.op = op])
    BY <1>3, <2>1, <2>2
  <2>3. CASE \E op \in {"impersonate", "delete"}, v \in UserIds :
               Arrive(p, [r EXCEPT !.op = op, !.target = v])
    BY <1>3, <2>1, <2>3
  <2>4. CASE \E g \in Form : Arrive(p, [r EXCEPT !.op = "create", !.form = g])
    BY <1>3, <2>1, <2>4
  <2>5. CASE \E g \in Form, v \in UserIds :
               Arrive(p, [r EXCEPT !.op = "update", !.target = v, !.form = g])
    BY <1>3, <2>5
  <2> QED  BY <1>4, <2>2, <2>3, <2>4, <2>5
<1> QED  BY <1>5 DEF CookieRequest

\* Arrivals preserve the invariant.
LEMMA ArriveType ==
  ASSUME TypeInv, NEW p \in Procs, ArrivePublic(p) \/ ArriveWithCookie(p)
  PROVE  TypeInv'
<1>1. \A t \in mailed : t \in TokenIds /\ t <= lastToken
  BY BoundsAssumption DEF TypeInv, ClientsGood, StoreGood, StoreTypeOK, TokenIds
<1>2. ASSUME NEW op \in {"login", "forgot"}, NEW u \in UserIds, NEW r,
             r = [Idle EXCEPT !.op = op, !.pc = "Handle", !.target = u], Arrive(p, r)
      PROVE  TypeInv'
  <2>1. r \in Request
    BY <1>2, IdleOK, ZenonT(30) DEF Request, Labels, AllOps, PublicOps
  <2>2. LocalsOK(r)
    BY <1>2, NullIds DEF Idle, LocalsOK, LoadLabels, PublicOps
  <2>3. IssuedTo(r, lastSession, lastToken)
    BY <1>2 DEF Idle, IssuedTo
  <2> QED  BY <1>2, <2>1, <2>2, <2>3, ArriveGood
<1>3. ASSUME NEW t \in mailed, NEW r,
             r = [Idle EXCEPT !.op = "reset", !.pc = "Handle", !.token = t], Arrive(p, r)
      PROVE  TypeInv'
  <2>1. r \in Request
    BY <1>1, <1>3, IdleOK, ZenonT(30) DEF Request, Labels, AllOps, PublicOps
  <2>2. LocalsOK(r)
    BY <1>1, <1>3, NullIds DEF Idle, LocalsOK, LoadLabels, PublicOps
  <2>3. IssuedTo(r, lastSession, lastToken)
    BY <1>1, <1>3 DEF Idle, IssuedTo
  <2> QED  BY <1>3, <2>1, <2>2, <2>3, ArriveGood
<1>4. ASSUME NEW s \in cookies, NEW r, CookieRequest(r, s), Arrive(p, r)
      PROVE  TypeInv'
  <2>1. LocalsOK(r)
    BY <1>4, CookieIds, NullIds DEF CookieRequest, LocalsOK, LoadLabels, PublicOps
  <2>2. r \in Request /\ IssuedTo(r, lastSession, lastToken)
    BY <1>4, CookieIds DEF CookieRequest, IssuedTo
  <2> QED  BY <1>4, <2>1, <2>2, ArriveGood
<1>5. CASE ArrivePublic(p)
  BY KnownIds, <1>2, <1>3, <1>5 DEF ArrivePublic
<1>6. CASE ArriveWithCookie(p)
  BY <1>4, <1>6, CookieArrivals
<1> QED  BY <1>5, <1>6

\* The passing of time preserves the invariant.
LEMMA TickType ==
  ASSUME TypeInv, Tick
  PROVE  TypeInv'
<1>1. UNCHANGED <<req, cookies, mailed>>
  BY DEF Tick, clientVars
<1>2. StoreGood' /\ Monotone
  <2>1. CASE \E s \in SessionIds : ExpireSession(s)
    BY <2>1, DeleteSessionGood DEF ExpireSession
  <2>2. ASSUME NEW t \in TokenIds, ExpireToken(t)
        PROVE  StoreGood' /\ Monotone
    <3>1. tokens[t] \in Token /\ tokens \in [TokenIds -> Token \cup {NULL}]
      BY <2>2 DEF ExpireToken, TypeInv, StoreGood, StoreTypeOK
    <3>2. ASSUME NEW row \in Token PROVE [row EXCEPT !.expired = TRUE] \in Token
      BY DEF Token
    <3>3. tokens' = [tokens EXCEPT ![t] = [tokens[t] EXCEPT !.expired = TRUE]]
      BY <2>2 DEF ExpireToken
    <3>4. /\ tokens' \in [TokenIds -> Token \cup {NULL}]
          /\ \A k \in TokenIds : tokens'[k] # NULL => tokens[k] # NULL
      BY <2>2, <3>1, <3>2, <3>3 DEF ExpireToken
    <3>5. /\ UNCHANGED <<userVars, sessionVars, secured>>
          /\ clock' = clock /\ lastToken' = lastToken /\ spent' = spent
      BY <2>2 DEF ExpireToken
    <3> QED  BY <3>4, <3>5, TokensGood DEF TypeInv, StoreGood, StoreTypeOK
  <2> QED  BY <2>1, <2>2 DEF Tick
<1>3. ReqGood'
  BY <1>1, <1>2, Here, IssuedLater DEF ReqGood, TypeInv
<1> QED  BY <1>1, <1>2, <1>3, SameClients DEF TypeInv

\* The invariant holds at the start.
LEMMA InitType == Init => TypeInv
<1> SUFFICES ASSUME Init PROVE TypeInv
  OBVIOUS
<1>1. StoreTypeOK
  BY BoundsAssumption, SeededAssumption, NullIds DEF Init, StoreTypeOK, Times, UserIds
<1>2. StoreGood
  BY <1>1, BoundsAssumption DEF Init, StoreGood, SessionIds, TokenIds
<1>3. IssuedTo(Idle, lastSession, lastToken)
  BY DEF IssuedTo, Idle
<1>4. ReqGood
  BY <1>3, IdleOK DEF Init, ReqGood
<1> QED  BY <1>2, <1>4 DEF Init, TypeInv, ClientsGood

\* Whichever step the system takes.
LEMMA TypeStep == TypeInv /\ [Next]_vars => TypeInv'
<1> SUFFICES ASSUME TypeInv, [Next]_vars PROVE TypeInv'
  OBVIOUS
<1>1. ASSUME NEW p \in Procs, Fail(p) PROVE TypeInv'
  BY <1>1, SameStore, ReplyGood DEF Fail, Refuse, TypeInv
<1>2. CASE UNCHANGED vars
  <2>1. StoreGood' /\ ClientsGood' /\ Monotone
    BY <1>2, SameStore DEF vars
  <2> QED  BY <1>2, <2>1, Here, IssuedLater DEF ReqGood, TypeInv, vars
<1> QED
  BY <1>1, <1>2, ArriveType, LoadUserType, AuthType, UserAdminType, ResetType, TickType DEF Next, Step

\* The inductive invariant holds of every reachable state.
LEMMA TypeInvariant == Spec => []TypeInv
  BY InitType, TypeStep, PTL DEF Spec

(***************************************************************************)
(* In every reachable state every table row and every request is well      *)
(* formed, and a request that is about to execute a statement has already  *)
(* read what the statement needs: no handler dereferences a row that it    *)
(* did not find.                                                           *)
(***************************************************************************)
THEOREM TypeCorrect == Spec => []TypeOK
<1> DEFINE Noted == overtaken \in [Procs -> BOOLEAN]
<1>1. TypeInv /\ Noted => TypeOK
  BY BoundsAssumption
  DEF TypeInv, StoreGood, ReqGood, ClientsGood, TypeOK, RequestsTypeOK, StoreTypeOK, SessionIds,
      TokenIds
<1>2. Init => Noted
  BY DEF Init
<1>3. ASSUME Noted, [Next]_vars PROVE Noted'
  <2>1. CASE Next
    <3> DEFINE b(p) == Judging(req'[p]) /\ (overtaken[p] \/ Overtakes(req[p]))
    <3>1. \A p \in Procs : b(p) \in BOOLEAN
      OBVIOUS
    <3>2. overtaken' = [p \in Procs |-> b(p)]
      BY <2>1 DEF Next, Step, Overtaking
    <3> QED  BY <3>1, <3>2
  <2>2. CASE UNCHANGED vars
    BY <1>3, <2>2 DEF vars
  <2> QED  BY <1>3, <2>1, <2>2
<1> QED  BY <1>1, <1>2, <1>3, TypeInvariant, PTL DEF Spec

-----------------------------------------------------------------------------
(***************************************************************************)
(* Every step does one of three things to the sessions table.              *)
(***************************************************************************)
Prunes == /\ origin' = origin
          /\ \A s \in SessionIds : sessions'[s] # NULL => sessions'[s] = sessions[s]

\* The request whose INSERT it is, and what it knows of the session it opens.
Opener(p, u, imp, owner) ==
  \/ u = owner /\ imp = NULL
  \/ /\ At(p, "impersonate", "CreateSession")
     /\ u = req[p].target /\ imp = req[p].user /\ owner = origin[req[p].sid].owner
  \/ /\ At(p, "unimpersonate", "StopCreateSession")
     /\ u = req[p].target /\ imp = NULL /\ owner = origin[req[p].sid].owner

Opens(u, imp, owner, cred) ==
  /\ lastSession < MaxSessions
  /\ CreateSession(u, imp, owner, cred)
  /\ \E p \in Procs : Opener(p, u, imp, owner)

SessionStep ==
  /\ clock' \in {clock, clock + 1}
  /\ \/ secured' = secured /\ Prunes
     \/ /\ secured' = secured /\ clock' = clock
        /\ \E u \in UserIds, imp \in UserIds \cup {NULL}, owner \in UserIds, cred \in Times :
             Opens(u, imp, owner, cred)
     \/ \E p \in Procs : req[p].target \in UserIds /\ Revoke(p)

\* A step that leaves the sessions alone.
LEMMA StoreUntouched ==
  ASSUME TypeInv, UNCHANGED <<sessions, origin, secured>>, clock' \in {clock, clock + 1}
  PROVE  SessionStep
  BY DEF SessionStep, Prunes

\* DeleteSession removes one row and adds none.
LEMMA RowDeleted ==
  ASSUME TypeInv, NEW s, DeleteSession(s), UNCHANGED <<secured, clock>>
  PROVE  SessionStep
  BY DEF SessionStep, Prunes, DeleteSession, TypeInv, StoreGood, StoreTypeOK

\* LoadUser only ever removes the session it was given.
LEMMA LoadUserSessions ==
  ASSUME TypeInv, NEW p \in Procs, LoadUser(p)
  PROVE  SessionStep
<1>1. CASE DropSession(p)
  BY <1>1, RowDeleted DEF DropSession
<1>2. CASE ~DropSession(p)
  BY <1>2, StoreUntouched
  DEF LoadUser, GetSession, GetUser, GetImpersonator, storeVars, sessionVars
<1> QED  BY <1>1, <1>2

\* A rotation inserts one row, descending from the session presented.
LEMMA RotationSessions ==
  ASSUME TypeInv, NEW p \in Procs, NEW u \in UserIds, NEW imp \in UserIds \cup {NULL},
         req[p].sid # NULL, RotateTo(p, u, imp), Opener(p, u, imp, origin[req[p].sid].owner)
  PROVE  SessionStep
<1>1. req[p].sid \in SessionIds /\ req[p].sid <= lastSession
  BY Here DEF Request, IssuedTo
<1>2. origin[req[p].sid] \in Origin
  BY <1>1 DEF TypeInv, StoreGood, StoreTypeOK
<1>3. origin[req[p].sid].owner \in UserIds /\ origin[req[p].sid].cred \in Times
  BY <1>2 DEF Origin
<1> QED  BY <1>3 DEF RotateTo, CanCreateSession, SessionStep, Opens

\* Sessions are inserted by login and by the two rotations only.
LEMMA AuthSessions ==
  ASSUME TypeInv, NEW p \in Procs, AuthStep(p)
  PROVE  SessionStep
<1>1. req[p] \in Request /\ LocalsOK(req[p])
  BY Here
<1>2. CASE LoginGetUser(p) \/ StartGetTarget(p) \/ StopGetSession(p) \/ StopGetAdmin(p)
  BY <1>2, StoreUntouched
  DEF LoginGetUser, StartGetTarget, StopGetSession, StopGetAdmin, Proceed, storeVars, sessionVars
<1>3. CASE Logout(p) \/ EndRotation(p)
  BY <1>3, RowDeleted DEF Logout, EndRotation
<1>4. CASE LoginCreateSession(p)
  <2>1. req[p].target \in UserIds /\ req[p].tick \in Times
    BY <1>1, <1>4 DEF LoginCreateSession, At, LocalsOK, Request
  <2> QED  BY <1>4, <2>1 DEF LoginCreateSession, CanCreateSession, SessionStep, Opens,
              Opener
<1>5. CASE StartCreateSession(p)
  <2>1. req[p].target \in UserIds /\ req[p].user \in UserIds /\ req[p].sid # NULL
    BY <1>1, <1>5, NullIds DEF StartCreateSession, At, LocalsOK, LoadLabels, Request, PublicOps
  <2> QED  BY <1>5, <2>1, RotationSessions DEF StartCreateSession, Opener
<1>6. CASE StopCreateSession(p)
  <2>1. req[p].target \in UserIds /\ req[p].sid # NULL
    BY <1>1, <1>6, NullIds DEF StopCreateSession, At, LocalsOK, LoadLabels, Request, PublicOps
  <2> QED  BY <1>6, <2>1, RotationSessions DEF StopCreateSession, Opener
<1> QED
  BY <1>2, <1>3, <1>4, <1>5, <1>6 DEF AuthStep

\* The user settings operations only remove sessions.
LEMMA UserAdminSessions ==
  ASSUME TypeInv, NEW p \in Procs, UserAdminStep(p)
  PROVE  SessionStep
<1>1. req[p] \in Request /\ LocalsOK(req[p])
  BY Here
<1>2. CASE RemoveUser(p)
  BY <1>2 DEF RemoveUser, DeleteUser, SessionStep, Prunes
<1>3. CASE RevokeDeactivated(p) \/ RevokeSessions(p)
  <2>1. req[p].target \in UserIds /\ Revoke(p)
    BY <1>1, <1>3 DEF RevokeDeactivated, RevokeSessions, At, LocalsOK, Request
  <2> QED  BY <2>1 DEF SessionStep, Revoke
<1>4. CASE InsertUser(p) \/ WriteUser(p) \/ SetPassword(p)
  BY <1>4, StoreUntouched
  DEF InsertUser, WriteUser, SetPassword, UpdateUserPassword, sessionVars
<1>5. CASE UNCHANGED storeVars
  BY <1>5, StoreUntouched DEF storeVars, sessionVars
<1> QED
  BY <1>2, <1>3, <1>4, <1>5
  DEF UserAdminStep, CreateCheckEmail, UpdateGetUser, UpdateCheckEmail, UpdateCountAdmins,
      DeleteGetUser, DeleteCountAdmins, ChangeGetUser, Refuse, Proceed

\* A password reset only removes sessions.
LEMMA ResetSessions ==
  ASSUME TypeInv, NEW p \in Procs, ResetStep(p)
  PROVE  SessionStep
<1>1. req[p] \in Request /\ LocalsOK(req[p])
  BY Here
<1>2. CASE ResetRevokeSessions(p)
  <2>1. req[p].target \in UserIds /\ Revoke(p)
    BY <1>1, <1>2 DEF ResetRevokeSessions, At, LocalsOK, Request
  <2> QED  BY <2>1 DEF SessionStep, Revoke
<1>3. CASE ~ResetRevokeSessions(p)
  BY <1>3, StoreUntouched
  DEF ResetStep, ForgotGetUser, ForgotInsertToken, ForgotSendMail, ResetGetToken, ResetMarkUsed,
      ResetSetPassword, UpdateUserPassword, ResetPurgeTokens, Refuse, Proceed, storeVars,
      sessionVars
<1> QED  BY <1>2, <1>3

\* Every step of the system is one of the three kinds of SessionStep.
LEMMA EverySessionStep == TypeInv /\ [Next]_vars => SessionStep
<1> SUFFICES ASSUME TypeInv, [Next]_vars PROVE SessionStep
  OBVIOUS
<1>1. CASE Tick
  <2>1. CASE \E s \in SessionIds : ExpireSession(s)
    BY <2>1, RowDeleted DEF ExpireSession
  <2>2. CASE \E t \in TokenIds : ExpireToken(t)
    BY <2>2, StoreUntouched DEF ExpireToken, sessionVars
  <2> QED  BY <1>1, <2>1, <2>2 DEF Tick
<1>2. ASSUME NEW p \in Procs, ArrivePublic(p) \/ ArriveWithCookie(p) \/ Fail(p)
      PROVE  SessionStep
  BY <1>2, StoreUntouched
  DEF ArrivePublic, ArriveWithCookie, Arrive, Fail, Refuse, storeVars, sessionVars
<1>3. CASE UNCHANGED vars
  BY <1>3, StoreUntouched DEF vars, storeVars, sessionVars
<1> QED
  BY <1>1, <1>2, <1>3, LoadUserSessions, AuthSessions, UserAdminSessions, ResetSessions DEF Next, Step

ServerStep(p) == LoadUser(p) \/ AuthStep(p) \/ UserAdminStep(p) \/ ResetStep(p) \/ Fail(p)
RequestStep(p) == ServerStep(p) \/ ArrivePublic(p) \/ ArriveWithCookie(p)

\* A request changes no locals but its own.
LEMMA OthersWait ==
  ASSUME TypeInv, NEW p \in Procs, RequestStep(p)
  PROVE  \A q \in Procs \ {p} : req'[q] = req[q]
<1>1. req \in [Procs -> Request]
  BY DEF TypeInv, ReqGood
<1> QED
  BY <1>1 DEF RequestStep, ServerStep, LoadUser, GetSession, GetUser, GetImpersonator,
     DropSession, Admit, AuthStep,
     LoginGetUser, LoginCreateSession, Logout, StartGetTarget, StartCreateSession,
     StopGetSession, StopGetAdmin, StopCreateSession, EndRotation, RotateTo, UserAdminStep,
     CreateCheckEmail, InsertUser, UpdateGetUser, UpdateCheckEmail, UpdateCountAdmins, WriteUser,
     RevokeDeactivated, DeleteGetUser, DeleteCountAdmins, RemoveUser, ChangeGetUser, SetPassword,
     RevokeSessions, UpdateUserPassword, Continue, ResetStep, ForgotGetUser, ForgotInsertToken,
     ForgotSendMail, ResetGetToken, ResetMarkUsed, ResetSetPassword, ResetRevokeSessions,
     ResetPurgeTokens, ArrivePublic, ArriveWithCookie, Arrive, Fail, Refuse, Proceed, Goto, Reply

\* A request on a public route arrives without a user.
LEMMA PublicArrivals ==
  ASSUME NEW p \in Procs, ArrivePublic(p)
  PROVE  \E r : /\ Arrive(p, r) /\ r.op \in PublicOps /\ r.pc = "Handle"
               /\ r.user = NULL /\ r.sid = NULL /\ r.tick = 0
<1>1. ASSUME NEW op \in {"login", "forgot"}, NEW u, NEW r,
             r = [Idle EXCEPT !.op = op, !.pc = "Handle", !.target = u]
      PROVE  r.op = op /\ r.pc = "Handle" /\ r.user = NULL /\ r.sid = NULL /\ r.tick = 0
  BY <1>1 DEF Idle
<1>2. ASSUME NEW t, NEW r, r = [Idle EXCEPT !.op = "reset", !.pc = "Handle", !.token = t]
      PROVE  r.op = "reset" /\ r.pc = "Handle" /\ r.user = NULL /\ r.sid = NULL /\ r.tick = 0
  BY <1>2 DEF Idle
<1>3. CASE \E op \in {"login", "forgot"}, u \in KnownUsers :
             Arrive(p, [Idle EXCEPT !.op = op, !.pc = "Handle", !.target = u])
  <2>1. PICK op \in {"login", "forgot"}, u \in KnownUsers :
          Arrive(p, [Idle EXCEPT !.op = op, !.pc = "Handle", !.target = u])
    BY <1>3
  <2>2. op \in PublicOps
    BY DEF PublicOps
  <2> DEFINE r == [Idle EXCEPT !.op = op, !.pc = "Handle", !.target = u]
  <2>3. r.op = op /\ r.pc = "Handle" /\ r.user = NULL /\ r.sid = NULL /\ r.tick = 0
    BY <1>1
  <2>4. Arrive(p, r)
    BY <2>1
  <2> HIDE DEF r
  <2> QED  BY <2>2, <2>3, <2>4
<1>4. CASE \E t \in mailed :
             Arrive(p, [Idle EXCEPT !.op = "reset", !.pc = "Handle", !.token = t])
  BY <1>2, <1>4 DEF PublicOps
<1> QED  BY <1>3, <1>4 DEF ArrivePublic

-----------------------------------------------------------------------------
(***************************************************************************)
(* OldSessionsRevoked is inductive once we know that no revocation is      *)
(* about a write still to come.                                            *)
(***************************************************************************)
TicksOK == \A q \in Procs : req[q].tick <= clock

RevocationInv ==
  /\ \A u \in UserIds : secured[u] <= clock
  /\ TicksOK
  /\ OldSessionsRevoked

\* The ticks a request may come to hold: an old one, none, or this instant.
LEMMA KeepsTick ==
  ASSUME TypeInv, TicksOK, NEW p \in Procs, clock' \in {clock, clock + 1},
         \A q \in Procs \ {p} : req'[q] = req[q],
         req'[p].tick \in {req[p].tick, 0, clock, clock'}
  PROVE  TicksOK'
<1>1. clock \in Nat /\ \A q \in Procs : req[q].tick \in Nat
  BY BoundsAssumption DEF TypeInv, ReqGood, StoreGood, StoreTypeOK, Request, Times
<1> QED  BY <1>1 DEF TicksOK

\* No request notes a clock that lies in the future.
LEMMA RequestTicks ==
  ASSUME TypeInv, TicksOK, NEW p \in Procs, SessionStep,
         RequestStep(p)
  PROVE  TicksOK'
<1>1. req[p] \in Request /\ req \in [Procs -> Request]
  BY Here DEF TypeInv, ReqGood
<1>2. \A q \in Procs \ {p} : req'[q] = req[q]
  BY OthersWait
<1>3. req'[p].tick \in {req[p].tick, 0, clock, clock'}
  <2>1. CASE Reply(p)
    BY <1>1, <2>1 DEF Reply, Idle
  <2>2. CASE \E l \in Labels : Goto(p, l)
    BY <1>1, <2>2 DEF Goto, Request
  <2>3. CASE LoadUser(p)
    BY <1>1, <2>1, <2>3
    DEF LoadUser, GetSession, GetUser, GetImpersonator, DropSession, Admit, Goto, Request
  <2>4. CASE AuthStep(p)
    BY <1>1, <2>1, <2>4
    DEF AuthStep, LoginGetUser, LoginCreateSession, Logout, StartGetTarget, StartCreateSession,
        StopGetSession, StopGetAdmin, StopCreateSession, EndRotation, RotateTo, Goto, Proceed,
        Request
  <2>5. CASE UserAdminStep(p)
    <3>1. CASE WriteUser(p) \/ RevokeDeactivated(p)
      <4>1. PICK l \in {"RevokeDeactivated"} \cup {AfterUpdate(req[p])} :
              \/ Continue(p, l, req[p])
              \/ /\ clock' = clock + 1
                 /\ Continue(p, l, [req[p] EXCEPT !.tick = clock + 1])
        BY <3>1 DEF WriteUser, RevokeDeactivated
      <4>2. ASSUME NEW r \in {req[p], [req[p] EXCEPT !.tick = clock + 1]}
            PROVE  [r EXCEPT !.pc = l].tick = r.tick
        BY <1>1 DEF Request
      <4>3. [req[p] EXCEPT !.tick = clock + 1].tick = clock + 1
        BY <1>1 DEF Request
      <4> QED  BY <1>1, <2>1, <4>1, <4>2, <4>3 DEF Continue, Reply
    <3>2. CASE ~(WriteUser(p) \/ RevokeDeactivated(p))
      BY <1>1, <2>1, <2>5, <3>2
      DEF UserAdminStep, CreateCheckEmail, InsertUser, UpdateGetUser, UpdateCheckEmail,
          UpdateCountAdmins, DeleteGetUser, DeleteCountAdmins, RemoveUser, ChangeGetUser,
          SetPassword, RevokeSessions, UpdateUserPassword, Refuse, Proceed, Goto, Request
    <3> QED  BY <3>1, <3>2
  <2>6. CASE ResetStep(p)
    BY <1>1, <2>1, <2>6
    DEF ResetStep, ForgotGetUser, ForgotInsertToken, ForgotSendMail, ResetGetToken,
        ResetMarkUsed, ResetSetPassword, ResetRevokeSessions, ResetPurgeTokens,
        UpdateUserPassword, Refuse, Proceed, Goto, Request
  <2>7. CASE ArrivePublic(p)
    BY <1>1, <2>7, PublicArrivals DEF Arrive
  <2>8. CASE ArriveWithCookie(p)
    BY <1>1, <2>8, CookieArrivals DEF CookieRequest, Arrive
  <2> QED  BY <2>1, <2>3, <2>4, <2>5, <2>6, <2>7, <2>8
           DEF RequestStep, ServerStep, Fail, Refuse
<1> QED  BY <1>2, <1>3, KeepsTick DEF SessionStep

\* The strengthening holds at the start.
LEMMA RevocationInit == Init => RevocationInv
<1> SUFFICES ASSUME Init PROVE RevocationInv
  OBVIOUS
<1>1. TicksOK
  BY DEF Init, Idle, TicksOK
<1> QED  BY <1>1 DEF Init, RevocationInv, OldSessionsRevoked

\* No step puts back a session that a revocation has removed.
LEMMA RevocationStep ==
  ASSUME TypeInv, TypeInv', RevocationInv, [Next]_vars
  PROVE  RevocationInv'
<1>1. SessionStep
  BY EverySessionStep
<1>2. TicksOK'
  <2>1. CASE Tick \/ UNCHANGED vars
    <3>1. req' = req
      BY <2>1 DEF Tick, vars
    <3>2. clock \in Nat /\ \A q \in Procs : req[q].tick \in Nat
      BY BoundsAssumption DEF TypeInv, ReqGood, StoreGood, StoreTypeOK, Request, Times
    <3> QED  BY <1>1, <3>1, <3>2 DEF SessionStep, RevocationInv, TicksOK
  <2>2. CASE \E p \in Procs : RequestStep(p)
    BY <1>1, <2>2, RequestTicks DEF RevocationInv
  <2> QED  BY <2>1, <2>2 DEF Next, Step, RequestStep, ServerStep
<1>3. /\ clock \in Nat
      /\ \A u \in UserIds : secured[u] \in Nat /\ secured[u] <= clock
      /\ \A s \in SessionIds : sessions[s] # NULL =>
           /\ sessions[s].user \in UserIds /\ sessions[s].imp \in UserIds \cup {NULL}
           /\ origin[s].at \in Nat
  <2>1. Times \subseteq Nat
    BY BoundsAssumption DEF Times
  <2>2. clock \in Nat /\ \A u \in UserIds : secured[u] \in Nat /\ secured[u] <= clock
    BY <2>1 DEF TypeInv, StoreGood, StoreTypeOK, RevocationInv
  <2>3. ASSUME NEW s \in SessionIds, sessions[s] # NULL
        PROVE  sessions[s] \in Session /\ origin[s] \in Origin
    BY <2>3 DEF TypeInv, StoreGood, StoreTypeOK
  <2> QED  BY <2>1, <2>2, <2>3 DEF Session, Origin
<1>4. CASE secured' = secured /\ Prunes
  <2>1. \A u \in UserIds : secured'[u] <= clock'
    BY <1>1, <1>3, <1>4 DEF SessionStep
  <2>2. OldSessionsRevoked'
    BY <1>4 DEF RevocationInv, OldSessionsRevoked, Prunes
  <2> QED  BY <1>2, <2>1, <2>2 DEF RevocationInv
<1>5. ASSUME NEW u \in UserIds, NEW imp \in UserIds \cup {NULL}, NEW owner \in UserIds,
             NEW cred \in Times, Opens(u, imp, owner, cred), secured' = secured, clock' = clock
      PROVE  RevocationInv'
  <2> DEFINE n == lastSession + 1
  <2>1. /\ n \in SessionIds
        /\ sessions' = [sessions EXCEPT ![n] = [user |-> u, imp |-> imp]]
        /\ origin' = [origin EXCEPT ![n] = [owner |-> owner, cred |-> cred, at |-> clock]]
    BY <1>5, BoundsAssumption
    DEF Opens, CreateSession, SessionIds, TypeInv, StoreGood, StoreTypeOK
  <2>2. sessions \in [SessionIds -> Session \cup {NULL}]
           /\ origin \in [SessionIds -> Origin \cup {NULL}]
    BY DEF TypeInv, StoreGood, StoreTypeOK
  <2> HIDE DEF n
  <2>3. ASSUME NEW s \in SessionIds, sessions'[s] # NULL
        PROVE  /\ origin'[s].at >= secured[sessions'[s].user]
               /\ sessions'[s].imp # NULL => origin'[s].at >= secured[sessions'[s].imp]
    <3>1. CASE s = n
      BY <1>3, <2>1, <2>2, <3>1
    <3>2. CASE s # n
      BY <2>1, <2>2, <2>3, <3>2 DEF RevocationInv, OldSessionsRevoked
    <3> QED  BY <3>1, <3>2
  <2> QED  BY <1>2, <1>5, <2>3 DEF RevocationInv, OldSessionsRevoked
<1>6. ASSUME NEW p \in Procs, req[p].target \in UserIds, Revoke(p)
      PROVE  RevocationInv'
  <2>1. clock' = clock /\ origin' = origin /\ req[p].tick \in Nat /\ req[p].tick <= clock
    BY <1>6, BoundsAssumption
    DEF Revoke, DeleteUserSessions, RevocationInv, TicksOK, TypeInv, ReqGood, Request, Times
  <2>2. \A s \in SessionIds : sessions'[s] # NULL =>
          sessions'[s] = sessions[s] /\ req[p].target \notin {sessions[s].user, sessions[s].imp}
    BY <1>6 DEF Revoke, DeleteUserSessions
  <2>3. \A u \in UserIds : /\ u # req[p].target => secured'[u] = secured[u]
                           /\ secured'[u] \in {secured[u], req[p].tick}
    BY <1>6 DEF Revoke, TypeInv, StoreGood, StoreTypeOK
  <2>4. \A u \in UserIds : secured'[u] <= clock'
    BY <1>3, <2>1, <2>3
  <2>5. OldSessionsRevoked'
    BY <1>3, <2>1, <2>2, <2>3 DEF RevocationInv, OldSessionsRevoked
  <2> QED  BY <1>2, <2>4, <2>5 DEF RevocationInv
<1> QED
  BY <1>1, <1>4, <1>5, <1>6 DEF SessionStep

(***************************************************************************)
(* Whatever requests run at once, and wherever they fail: once a new       *)
(* password or a deactivation has been followed by DeleteUserSessions, no  *)
(* session created before it is left for that user, impersonated by that   *)
(* user or impersonating that user.                                        *)
(***************************************************************************)
THEOREM OldSessionsStayRevoked == Spec => []OldSessionsRevoked
<1>1. RevocationInv => OldSessionsRevoked
  BY DEF RevocationInv
<1>2. TypeInv /\ TypeInv' /\ RevocationInv /\ [Next]_vars => RevocationInv'
  BY RevocationStep
<1> QED  BY <1>1, <1>2, RevocationInit, TypeInvariant, PTL DEF Spec

-----------------------------------------------------------------------------
(***************************************************************************)
(* PrincipalKept is inductive together with what a running request knows   *)
(* of the session it was sent with.                                        *)
(***************************************************************************)
Behind(user, imp) == IF imp = NULL THEN user ELSE imp

ChainOK(r, o) ==
  /\ r.user # NULL => o[r.sid].owner = Behind(r.user, r.imp)
  /\ r.op = "unimpersonate" /\ r.pc \in {"StopGetAdmin", "StopCreateSession"}
       => o[r.sid].owner = r.target
  /\ r.op = "impersonate" /\ r.pc = "CreateSession" => r.imp = NULL

ChainInv == PrincipalKept /\ \A p \in Procs : ChainOK(req[p], origin)

\* The origin of a session token is written once.
LEMMA OriginsKept ==
  ASSUME TypeInv, SessionStep, NEW s \in SessionIds, s <= lastSession
  PROVE  origin'[s] = origin[s]
<1>1. ASSUME NEW u, NEW imp, NEW owner, NEW cred, CreateSession(u, imp, owner, cred)
      PROVE  origin'[s] = origin[s]
  <2>1. s # lastSession + 1
    BY DEF TypeInv, StoreGood, StoreTypeOK, SessionIds
  <2> QED  BY <1>1, <2>1 DEF CreateSession, TypeInv, StoreGood, StoreTypeOK
<1> QED  BY <1>1 DEF SessionStep, Prunes, Opens, Revoke, DeleteUserSessions

\* What a request knows stays true while other requests take their steps.
LEMMA ChainLater ==
  ASSUME TypeInv, SessionStep, NEW r \in Request, LocalsOK(r),
         r.sid # NULL => r.sid <= lastSession, ChainOK(r, origin)
  PROVE  ChainOK(r, origin')
<1>1. r.sid # NULL => origin'[r.sid] = origin[r.sid]
  BY OriginsKept DEF Request
<1>2. r.op = "unimpersonate" => r.sid # NULL
  BY NullIds DEF LocalsOK, PublicOps, AllOps
<1> QED  BY <1>1, <1>2 DEF ChainOK, LocalsOK

\* What the request that takes a step knows then.
LEMMA ChainMoves ==
  ASSUME TypeInv, ChainInv, NEW p \in Procs, RequestStep(p)
  PROVE  ChainOK(req'[p], origin)
<1>1. /\ req[p] \in Request /\ req \in [Procs -> Request] /\ LocalsOK(req[p])
      /\ ChainOK(req[p], origin)
  BY Here DEF TypeInv, ReqGood, ChainInv
<1>2. CASE Reply(p)
  BY <1>1, <1>2, NullIds DEF Reply, Idle, ChainOK, AllOps, PublicOps, AdminOps
<1>3. CASE LoadUser(p)
  <2>1. CASE GetSession(p) /\ ~Reply(p)
    <3>1. req[p].sid \in SessionIds /\ sessions[req[p].sid] # NULL
      BY <1>1, <2>1 DEF GetSession, LocalsOK, LoadLabels, Request
    <3>2. origin[req[p].sid].owner = Behind(sessions[req[p].sid].user, sessions[req[p].sid].imp)
      BY <3>1 DEF ChainInv, PrincipalKept, Principal, Behind
    <3> QED  BY <1>1, <2>1, <3>1, <3>2 DEF GetSession, ChainOK, Request
  <2>2. CASE GetUser(p) \/ GetImpersonator(p) \/ DropSession(p)
    BY <1>1, <1>2, <2>2
    DEF GetUser, GetImpersonator, DropSession, Admit, Goto, ChainOK, Request
  <2> QED  BY <1>2, <1>3, <2>1, <2>2 DEF LoadUser
<1>4. CASE AuthStep(p)
  <2>1. CASE StopGetSession(p) /\ ~Reply(p)
    <3>1. req[p].sid \in SessionIds /\ sessions[req[p].sid] # NULL
             /\ sessions[req[p].sid].imp # NULL
      BY <1>1, <2>1, NullIds DEF StopGetSession, At, LocalsOK, LoadLabels, Request, PublicOps
    <3>2. origin[req[p].sid].owner = sessions[req[p].sid].imp
      BY <3>1 DEF ChainInv, PrincipalKept, Principal
    <3> QED  BY <1>1, <2>1, <3>1, <3>2 DEF StopGetSession, At, ChainOK, Request
  <2>2. CASE LoginGetUser(p) \/ StartGetTarget(p) \/ StartCreateSession(p)
    BY <1>1, <1>2, <2>2
    DEF LoginGetUser, StartGetTarget, MayImpersonate, StartCreateSession, RotateTo, At, Goto,
        ChainOK, Request
  <2>3. CASE StopGetAdmin(p) \/ StopCreateSession(p)
    BY <1>1, <1>2, <2>3
    DEF StopGetAdmin, StopCreateSession, RotateTo, At, Proceed, Goto, ChainOK, Request
  <2> QED  BY <1>2, <1>4, <2>1, <2>2, <2>3
           DEF AuthStep, LoginCreateSession, Logout, EndRotation
<1>5. CASE UserAdminStep(p)
  <2>1. CASE WriteUser(p) \/ RevokeDeactivated(p)
    <3>1. PICK l \in Labels, r \in {req[p], [req[p] EXCEPT !.tick = clock + 1]} :
             Continue(p, l, r)
      BY <2>1 DEF WriteUser, RevokeDeactivated, AfterUpdate, Labels
    <3>2. req[p].op = "update"
      BY <2>1 DEF WriteUser, RevokeDeactivated, At
    <3>3. /\ [r EXCEPT !.pc = l].op = req[p].op     /\ [r EXCEPT !.pc = l].sid = req[p].sid
          /\ [r EXCEPT !.pc = l].user = req[p].user /\ [r EXCEPT !.pc = l].imp = req[p].imp
      BY <1>1 DEF Request
    <3> QED  BY <1>1, <1>2, <3>1, <3>2, <3>3 DEF Continue, Reply, ChainOK
  <2>2. CASE ~(WriteUser(p) \/ RevokeDeactivated(p))
    BY <1>1, <1>2, <1>5, <2>2
    DEF UserAdminStep, CreateCheckEmail, InsertUser, UpdateGetUser, UpdateCheckEmail,
        UpdateCountAdmins, DeleteGetUser, DeleteCountAdmins, RemoveUser, ChangeGetUser,
        SetPassword, RevokeSessions, UpdateUserPassword, Refuse, Proceed, Goto, At, ChainOK,
        Request
  <2> QED  BY <2>1, <2>2
<1>6. CASE ResetStep(p)
  BY <1>1, <1>2, <1>6
  DEF ResetStep, ForgotGetUser, ForgotInsertToken, ForgotSendMail, ResetGetToken,
      ResetMarkUsed, ResetSetPassword, ResetRevokeSessions, ResetPurgeTokens,
      UpdateUserPassword, Refuse, Proceed, Goto, At, ChainOK, Request
<1>7. CASE ArrivePublic(p)
  <2>1. PICK r : Arrive(p, r) /\ r.user = NULL /\ r.op \in PublicOps
    BY <1>7, PublicArrivals
  <2> QED  BY <1>1, <2>1 DEF Arrive, PublicOps, ChainOK
<1>8. CASE ArriveWithCookie(p)
  BY <1>1, <1>8, CookieArrivals DEF CookieRequest, Arrive, ChainOK
<1> QED  BY <1>2, <1>3, <1>4, <1>5, <1>6, <1>7, <1>8
         DEF RequestStep, ServerStep, Fail, Refuse

\* A request keeps the cookie it was sent with.
LEMMA CookieKept ==
  ASSUME TypeInv, NEW p \in Procs, RequestStep(p)
  PROVE  req'[p].sid \in {req[p].sid, NULL} \cup cookies
<1>1. req[p] \in Request /\ req \in [Procs -> Request]
  BY Here DEF TypeInv, ReqGood
<1>2. CASE Reply(p)
  BY <1>1, <1>2 DEF Reply, Idle
<1>3. CASE WriteUser(p) \/ RevokeDeactivated(p)
  <2>1. PICK l \in Labels, r \in {req[p], [req[p] EXCEPT !.tick = clock + 1]} : Continue(p, l, r)
    BY <1>3 DEF WriteUser, RevokeDeactivated, AfterUpdate, Labels
  <2>2. [r EXCEPT !.pc = l].sid = req[p].sid
    BY <1>1 DEF Request
  <2> QED  BY <1>1, <1>2, <2>1, <2>2 DEF Continue, Reply
<1>4. CASE ServerStep(p) /\ ~(WriteUser(p) \/ RevokeDeactivated(p))
  BY <1>1, <1>2, <1>4 DEF ServerStep, LoadUser, GetSession, GetUser, GetImpersonator,
     DropSession, Admit, AuthStep,
     LoginGetUser, LoginCreateSession, Logout, StartGetTarget, StartCreateSession,
     StopGetSession, StopGetAdmin, StopCreateSession, EndRotation, RotateTo, UserAdminStep,
     CreateCheckEmail, InsertUser, UpdateGetUser, UpdateCheckEmail, UpdateCountAdmins,
     DeleteGetUser, DeleteCountAdmins, RemoveUser, ChangeGetUser, SetPassword,
     RevokeSessions, UpdateUserPassword, ResetStep, ForgotGetUser, ForgotInsertToken,
     ForgotSendMail, ResetGetToken, ResetMarkUsed, ResetSetPassword, ResetRevokeSessions,
     ResetPurgeTokens, Fail, Refuse, Proceed, Goto, Request
<1>5. CASE ArrivePublic(p)
  BY <1>1, <1>5, PublicArrivals DEF Arrive
<1>6. CASE ArriveWithCookie(p)
  BY <1>1, <1>6, CookieArrivals DEF CookieRequest, Arrive
<1> QED  BY <1>3, <1>4, <1>5, <1>6 DEF RequestStep

\* A session inserted by a rotation has the principal of the one presented.
LEMMA ChainSessions ==
  ASSUME TypeInv, ChainInv, SessionStep
  PROVE  PrincipalKept'
<1>1. CASE Prunes
  BY <1>1 DEF Prunes, ChainInv, PrincipalKept, Principal
<1>2. CASE \E p \in Procs : Revoke(p)
  BY <1>2 DEF Revoke, DeleteUserSessions, ChainInv, PrincipalKept, Principal
<1>3. ASSUME NEW u \in UserIds, NEW imp \in UserIds \cup {NULL}, NEW owner \in UserIds,
             NEW cred \in Times, Opens(u, imp, owner, cred)
      PROVE  PrincipalKept'
  <2> DEFINE row == [user |-> u, imp |-> imp]
             org == [owner |-> owner, cred |-> cred, at |-> clock]
  <2>1. owner = Behind(u, imp)
    <3>1. PICK p \in Procs : Opener(p, u, imp, owner)
      BY <1>3 DEF Opens
    <3>2. req[p] \in Request /\ LocalsOK(req[p]) /\ ChainOK(req[p], origin)
      BY Here DEF ChainInv
    <3>3. CASE At(p, "impersonate", "CreateSession")
      BY <3>1, <3>2, <3>3, NullIds
      DEF Opener, At, ChainOK, Behind, LocalsOK, LoadLabels, PublicOps, AllOps, AdminOps, Request
    <3>4. CASE ~At(p, "impersonate", "CreateSession")
      BY <3>1, <3>2, <3>4 DEF Opener, At, ChainOK, Behind
    <3> QED  BY <3>3, <3>4
  <2>2. Principal(row) = owner /\ org.owner = owner
    BY <2>1 DEF Principal, Behind
  <2> HIDE DEF row, org
  <2>3. /\ sessions' = [sessions EXCEPT ![lastSession + 1] = row]
        /\ origin' = [origin EXCEPT ![lastSession + 1] = org]
    BY <1>3 DEF Opens, CreateSession, row, org
  <2> QED  BY <2>2, <2>3 DEF ChainInv, PrincipalKept, TypeInv, StoreGood, StoreTypeOK
<1> QED  BY <1>1, <1>2, <1>3 DEF SessionStep

\* The strengthening holds at the start.
LEMMA ChainInit == Init => ChainInv
  BY NullIds DEF Init, Idle, ChainInv, ChainOK, PrincipalKept, AllOps, PublicOps, AdminOps

\* The strengthening is inductive.
LEMMA ChainStep ==
  ASSUME TypeInv, TypeInv', ChainInv, [Next]_vars
  PROVE  ChainInv'
<1>1. SessionStep
  BY EverySessionStep
<1>2. PrincipalKept'
  BY <1>1, ChainSessions
<1>3. ASSUME NEW q \in Procs, req'[q] = req[q] PROVE ChainOK(req'[q], origin')
  BY <1>1, <1>3, Here, ChainLater DEF ChainInv, IssuedTo
<1>4. ASSUME NEW p \in Procs, RequestStep(p)
      PROVE  ChainInv'
  <2>1. \A q \in Procs \ {p} : req'[q] = req[q]
    BY <1>4, OthersWait
  <2>2. ChainOK(req'[p], origin)
    BY <1>4, ChainMoves
  <2>3. req'[p] \in Request /\ LocalsOK(req'[p])
    BY DEF TypeInv, ReqGood
  <2>4. req'[p].sid # NULL => req'[p].sid <= lastSession
    BY <1>4, CookieKept, CookieIds, Here DEF IssuedTo
  <2>5. ChainOK(req'[p], origin')
    BY <1>1, <2>2, <2>3, <2>4, ChainLater
  <2> QED  BY <1>2, <1>3, <2>1, <2>5 DEF ChainInv
<1>5. CASE Tick \/ UNCHANGED vars
  BY <1>2, <1>3, <1>5 DEF Tick, vars, ChainInv
<1> QED  BY <1>4, <1>5 DEF Next, Step, RequestStep, ServerStep

(***************************************************************************)
(* However logins and rotations interleave and fail, the person behind a   *)
(* session is the one who logged in: no sequence of StartImpersonation and *)
(* StopImpersonation leads to an account of which the client never had the *)
(* password, except as the impersonated user.                              *)
(***************************************************************************)
THEOREM SessionsKeepTheirPrincipal == Spec => []PrincipalKept
<1>1. ChainInv => PrincipalKept
  BY DEF ChainInv
<1>2. TypeInv /\ TypeInv' /\ ChainInv /\ [Next]_vars => ChainInv'
  BY ChainStep
<1> QED  BY <1>1, <1>2, ChainInit, TypeInvariant, PTL DEF Spec

-----------------------------------------------------------------------------
(***************************************************************************)
(* TokenSpentOnce is inductive together with what holds of a request that  *)
(* has marked its token and not written the password yet.                  *)
(***************************************************************************)
Spending(p) == At(p, "reset", "SetPassword")

ResetInv ==
  /\ \A t \in TokenIds : spent[t] <= 1 /\ (spent[t] # 0 => ~Markable(t))
  /\ \A p \in Procs : Spending(p) => spent[req[p].token] = 0 /\ ~Markable(req[p].token)
  /\ \A p, q \in Procs : Spending(p) /\ Spending(q) /\ p # q => req[p].token # req[q].token

\* No unused row comes back.
Uses == /\ spent' = spent
        /\ \A t \in TokenIds : tokens'[t] # NULL /\ ~tokens'[t].used => Markable(t)

Issues == /\ spent' = spent /\ lastToken < MaxTokens
          /\ \A t \in TokenIds : t # lastToken + 1 => tokens'[t] = tokens[t]

\* What a step can do to the reset tokens: use or drop, issue, or spend one.
LEMMA TokenSteps ==
  ASSUME TypeInv, [Next]_vars
  PROVE  Uses \/ Issues \/ \E p \in Procs : ResetSetPassword(p)
<1>1. ASSUME tokens' = tokens, spent' = spent PROVE Uses
  BY <1>1 DEF Uses, Markable
<1>2. ASSUME NEW p \in Procs, ResetStep(p)
      PROVE  Uses \/ Issues \/ ResetSetPassword(p)
  <2>1. CASE ForgotInsertToken(p)
    BY <2>1 DEF ForgotInsertToken, CreatePasswordResetToken, Issues, TypeInv, StoreGood,
       StoreTypeOK
  <2>2. CASE ResetMarkUsed(p)
    <3>1. req[p].token \in TokenIds
      BY <2>2, Here DEF ResetMarkUsed, At, LocalsOK, Request
    <3>2. CASE tokens' = [tokens EXCEPT ![req[p].token].used = TRUE] /\ Markable(req[p].token)
      <4>1. tokens \in [TokenIds -> Token \cup {NULL}]
        BY DEF TypeInv, StoreGood, StoreTypeOK
      <4>2. spent' = spent
        BY <2>2 DEF ResetMarkUsed
      <4> QED  BY <3>1, <3>2, <4>1, <4>2 DEF Uses, Markable, Token
    <3> QED  BY <1>1, <2>2, <3>2 DEF ResetMarkUsed, MarkPasswordResetTokenUsed
  <2>3. CASE ResetPurgeTokens(p)
    BY <2>3 DEF ResetPurgeTokens, DeleteExpiredPasswordResetTokens, Uses, Markable
  <2>4. CASE ForgotGetUser(p) \/ ForgotSendMail(p) \/ ResetGetToken(p) \/ ResetRevokeSessions(p)
    BY <1>1, <2>4
    DEF ForgotGetUser, ForgotSendMail, ResetGetToken, ResetRevokeSessions, Refuse, Proceed,
        storeVars, tokenVars
  <2> QED  BY <1>2, <2>1, <2>2, <2>3, <2>4 DEF ResetStep
<1>3. CASE Tick
  <2>1. CASE \E s \in SessionIds : ExpireSession(s)
    BY <1>1, <2>1 DEF ExpireSession, tokenVars
  <2>2. ASSUME NEW t \in TokenIds, ExpireToken(t) PROVE Uses
    <3>1. tokens \in [TokenIds -> Token \cup {NULL}] /\ spent' = spent
      BY <2>2 DEF TypeInv, StoreGood, StoreTypeOK, ExpireToken
    <3> QED  BY <2>2, <3>1 DEF ExpireToken, Uses, Markable, Token
  <2> QED  BY <1>3, <2>1, <2>2 DEF Tick
<1>4. ASSUME NEW p \in Procs, UserAdminStep(p) PROVE Uses
  <2>1. CASE RemoveUser(p)
    BY <2>1 DEF RemoveUser, DeleteUser, Uses, Markable
  <2>2. CASE ~RemoveUser(p)
    BY <1>1, <1>4, <2>2
    DEF UserAdminStep, CreateCheckEmail, InsertUser, UpdateGetUser, UpdateCheckEmail,
        UpdateCountAdmins, WriteUser, RevokeDeactivated, DeleteGetUser, DeleteCountAdmins,
        ChangeGetUser, SetPassword, RevokeSessions, UpdateUserPassword, Revoke, Refuse, Proceed,
        storeVars, tokenVars
  <2> QED  BY <2>1, <2>2
<1>5. ASSUME NEW p \in Procs,
             LoadUser(p) \/ AuthStep(p) \/ ArrivePublic(p) \/ ArriveWithCookie(p) \/ Fail(p)
      PROVE  Uses
  BY <1>1, <1>5
  DEF LoadUser, GetSession, GetUser, GetImpersonator, DropSession, AuthStep, LoginGetUser,
      LoginCreateSession, Logout, StartGetTarget, StartCreateSession, StopGetSession,
      StopGetAdmin, StopCreateSession, EndRotation, RotateTo, ArrivePublic, ArriveWithCookie,
      Arrive, Fail, Refuse, Proceed, storeVars, tokenVars
<1>6. CASE UNCHANGED vars
  BY <1>1, <1>6 DEF vars, storeVars, tokenVars
<1> QED  BY <1>2, <1>3, <1>4, <1>5, <1>6 DEF Next, Step

\* Only ResetMarkUsed lets a request spend its token.
LEMMA NoOtherSpender ==
  ASSUME TypeInv, NEW p \in Procs, RequestStep(p), ~ResetMarkUsed(p)
  PROVE  ~(req'[p].op = "reset" /\ req'[p].pc = "SetPassword")
<1>1. req[p] \in Request /\ req \in [Procs -> Request]
  BY Here DEF TypeInv, ReqGood
<1>2. CASE Reply(p)
  BY <1>1, <1>2 DEF Reply, Idle
<1>3. CASE WriteUser(p) \/ RevokeDeactivated(p)
  <2>1. PICK l \in Labels, r \in {req[p], [req[p] EXCEPT !.tick = clock + 1]} : Continue(p, l, r)
    BY <1>3 DEF WriteUser, RevokeDeactivated, AfterUpdate, Labels
  <2>2. [r EXCEPT !.pc = l].op = "update"
    BY <1>1, <1>3 DEF Request, WriteUser, RevokeDeactivated, At
  <2> QED  BY <1>1, <1>2, <2>1, <2>2 DEF Continue, Reply
<1>4. CASE ServerStep(p) /\ ~(WriteUser(p) \/ RevokeDeactivated(p))
  BY <1>1, <1>2, <1>4 DEF At, ServerStep, LoadUser, GetSession, GetUser, GetImpersonator,
     DropSession, Admit, AuthStep,
     LoginGetUser, LoginCreateSession, Logout, StartGetTarget, StartCreateSession,
     StopGetSession, StopGetAdmin, StopCreateSession, EndRotation, RotateTo, UserAdminStep,
     CreateCheckEmail, InsertUser, UpdateGetUser, UpdateCheckEmail, UpdateCountAdmins,
     DeleteGetUser, DeleteCountAdmins, RemoveUser, ChangeGetUser, SetPassword,
     RevokeSessions, UpdateUserPassword, ResetStep, ForgotGetUser, ForgotInsertToken,
     ForgotSendMail, ResetGetToken, ResetMarkUsed, ResetSetPassword, ResetRevokeSessions,
     ResetPurgeTokens, Fail, Refuse, Proceed, Goto, Request
<1>5. CASE ArrivePublic(p)
  BY <1>1, <1>5, PublicArrivals DEF Arrive
<1>6. CASE ArriveWithCookie(p)
  BY <1>1, <1>6, CookieArrivals DEF CookieRequest, Arrive
<1> QED  BY <1>3, <1>4, <1>5, <1>6 DEF RequestStep

\* The strengthening holds at the start.
LEMMA ResetInit == Init => ResetInv
  BY DEF Init, Idle, ResetInv, Spending, At

\* The strengthening is inductive: two requests never both spend a token.
LEMMA ResetInvStep ==
  ASSUME TypeInv, ResetInv, [Next]_vars
  PROVE  ResetInv'
<1>1. /\ spent \in [TokenIds -> Nat] /\ lastToken \in Nat
      /\ \A t \in TokenIds : spent[t] # 0 => t <= lastToken
      /\ req \in [Procs -> Request]
      /\ \A p \in Procs : Spending(p) => req[p].token \in TokenIds /\ req[p].token <= lastToken
  <2>1. \A p \in Procs : Spending(p) => req[p].token \in TokenIds /\ req[p].token <= lastToken
    BY Here DEF Spending, At, LocalsOK, Request, IssuedTo
  <2> QED  BY <2>1 DEF TypeInv, StoreGood, StoreTypeOK, ReqGood
\* The requests that are still spending were, unless they have just marked.
<1>2. ASSUME NEW p \in Procs, RequestStep(p), ~ResetMarkUsed(p), NEW q \in Procs, Spending(q)'
      PROVE  q # p /\ req'[q] = req[q] /\ Spending(q)
  BY <1>2, NoOtherSpender, OthersWait DEF Spending, At
<1>3. ASSUME NEW p \in Procs, ResetSetPassword(p) PROVE ResetInv'
  <2>1. RequestStep(p) /\ ~ResetMarkUsed(p)
    BY <1>3 DEF RequestStep, ServerStep, ResetStep, ResetSetPassword, ResetMarkUsed, At
  <2>2. Spending(p) /\ spent' = [spent EXCEPT ![req[p].token] = @ + 1] /\ tokens' = tokens
    BY <1>3 DEF ResetSetPassword, UpdateUserPassword, Spending
  <2>3. \A t \in TokenIds : spent'[t] <= 1 /\ (spent'[t] # 0 => ~Markable(t)')
    BY <1>1, <2>2 DEF ResetInv, Markable
  <2>4. \A q \in Procs : Spending(q)' =>
          /\ q # p /\ req'[q] = req[q] /\ Spending(q)
          /\ spent'[req[q].token] = spent[req[q].token]
    BY <1>1, <1>2, <2>1, <2>2 DEF ResetInv
  <2> QED  BY <2>2, <2>3, <2>4 DEF ResetInv, Markable
<1>4. ASSUME Uses \/ Issues,
             \A q \in Procs : Spending(q)' => req'[q] = req[q] /\ Spending(q)
      PROVE  ResetInv'
  <2>1. ASSUME NEW t \in TokenIds, t <= lastToken, ~Markable(t) PROVE ~Markable(t)'
    BY <1>1, <1>4, <2>1 DEF Uses, Issues, Markable, TokenIds
  <2>2. spent' = spent
    BY <1>4 DEF Uses, Issues
  <2>3. \A t \in TokenIds : spent'[t] <= 1 /\ (spent'[t] # 0 => ~Markable(t)')
    BY <1>1, <2>1, <2>2 DEF ResetInv
  <2> QED  BY <1>1, <1>4, <2>1, <2>2, <2>3 DEF ResetInv, Markable
<1>5. ASSUME NEW p \in Procs, ResetMarkUsed(p) PROVE ResetInv'
  <2>1. spent' = spent /\ req[p].token \in TokenIds
    BY <1>5, Here DEF ResetMarkUsed, At, LocalsOK, Request
  <2>2. \A q \in Procs \ {p} : req'[q] = req[q]
    BY <1>5, OthersWait DEF RequestStep, ServerStep, ResetStep
  <2>3. CASE Markable(req[p].token)
    <3>1. /\ tokens' = [tokens EXCEPT ![req[p].token].used = TRUE]
          /\ req'[p].token = req[p].token
      BY <1>1, <1>5, <2>3 DEF ResetMarkUsed, MarkPasswordResetTokenUsed, Goto, Request
    <3>2. tokens \in [TokenIds -> Token \cup {NULL}]
      BY DEF TypeInv, StoreGood, StoreTypeOK
    <3>3. \A t \in TokenIds : Markable(t)' => Markable(t) /\ t # req[p].token
      BY <2>1, <2>3, <3>1, <3>2 DEF Markable, Token
    <3>4. \A t \in TokenIds : spent'[t] <= 1 /\ (spent'[t] # 0 => ~Markable(t)')
      BY <2>1, <3>3 DEF ResetInv
    <3>5. \A q \in Procs \ {p} : Spending(q)' => Spending(q) /\ req[q].token # req[p].token
      BY <2>2, <2>3 DEF ResetInv, Spending, At
    <3>6. spent[req[p].token] = 0
      BY <1>1, <2>1, <2>3 DEF ResetInv
    <3>7. ASSUME NEW q \in Procs, Spending(q)'
          PROVE  /\ req'[q].token \in TokenIds
                 /\ spent'[req'[q].token] = 0
                 /\ \A t \in TokenIds : t = req'[q].token => ~Markable(t)'
      <4>1. CASE q = p
        BY <2>1, <3>1, <3>3, <3>6, <4>1
      <4>2. CASE q # p
        BY <1>1, <2>1, <2>2, <3>3, <3>5, <3>7, <4>2 DEF ResetInv
      <4> QED  BY <4>1, <4>2
    <3>8. ASSUME NEW q \in Procs, NEW r \in Procs, Spending(q)', Spending(r)', q # r
          PROVE  req'[q].token # req'[r].token
      BY <2>2, <3>1, <3>5, <3>8 DEF ResetInv
    <3> QED  BY <3>4, <3>7, <3>8 DEF ResetInv, Markable
  <2>4. CASE ~Markable(req[p].token)
    <3>1. tokens' = tokens /\ Reply(p)
      BY <1>5, <2>4 DEF ResetMarkUsed
    <3>2. Uses
      BY <2>1, <3>1 DEF Uses, Markable
    <3>3. ~Spending(p)'
      BY <1>1, <3>1 DEF Reply, Idle, Spending, At
    <3> QED  BY <1>4, <2>2, <3>2, <3>3 DEF Spending, At
  <2> QED  BY <2>3, <2>4
<1>6. ASSUME NEW p \in Procs, RequestStep(p), ~ResetMarkUsed(p), ~ResetSetPassword(p),
             Uses \/ Issues
      PROVE  ResetInv'
  BY <1>2, <1>4, <1>6
<1>7. CASE Tick \/ UNCHANGED vars
  <2>1. \A q \in Procs : Spending(q)' => req'[q] = req[q] /\ Spending(q)
    BY <1>7 DEF Tick, vars, Spending, At
  <2>2. CASE Uses \/ Issues
    BY <1>4, <2>1, <2>2
  <2> QED  BY <1>3, <2>2, TokenSteps
<1> QED
  BY <1>3, <1>5, <1>6, <1>7, TokenSteps DEF Next, Step, RequestStep, ServerStep

(***************************************************************************)
(* Any number of requests may present the same reset token at once, and    *)
(* any of them may fail anywhere: the token lets one of them write a       *)
(* password, and is no longer usable by then.                              *)
(***************************************************************************)
THEOREM TokensAreSpentOnce == Spec => []TokenSpentOnce
<1>1. TypeInv /\ ResetInv => TokenSpentOnce
  BY DEF ResetInv, TokenSpentOnce, Markable
<1>2. TypeInv /\ ResetInv /\ [Next]_vars => ResetInv'
  BY ResetInvStep
<1> QED  BY <1>1, <1>2, ResetInit, TypeInvariant, PTL DEF Spec

-----------------------------------------------------------------------------
(***************************************************************************)
(* Removals.  What a request that nobody has overtaken has read and        *)
(* counted is still so when it writes, and its guards against removing     *)
(* oneself look at its own locals only, which nobody changes.              *)
(***************************************************************************)
WasAdmin(r) == r.seen.role = "admin" /\ r.seen.active

\* A request that has been overtaken knows nothing.
Fresh(p) ==
  ~overtaken[p] =>
    /\ Judging(req[p]) => (WasAdmin(req[p]) <=> req[p].target \in ActiveAdmins)
    /\ At(p, "update", "UpdateUser") /\ RemovesAdmin(req[p]) => CountActiveAdmins > 1
    /\ At(p, "delete", "DeleteUser") /\ WasAdmin(req[p])     => CountActiveAdmins > 1

NotItself(p) ==
  LET r == req[p] IN
  /\ At(p, "update", "CountAdmins") \/ At(p, "update", "UpdateUser") =>
       ~(r.target = r.user /\ Deactivates(r))
  /\ At(p, "delete", "CountAdmins") \/ At(p, "delete", "DeleteUser") => r.target # r.user

NumbersUsed == \A u \in UserIds : users[u] # NULL => u <= lastUser

RemovalInv ==
  /\ NumbersUsed
  /\ \A p \in Procs : Fresh(p) /\ NotItself(p)

\* A request that has nothing to judge is fresh, and does not remove itself.
LEMMA NothingToJudge ==
  ASSUME NEW p \in Procs, ~Judging(req'[p])
  PROVE  Fresh(p)' /\ NotItself(p)'
  BY DEF Fresh, NotItself, Judging, At

\* Two administrators are more than one.
LEMMA AnotherAdmin ==
  ASSUME CountActiveAdmins > 1, NEW u
  PROVE  \E v \in ActiveAdmins : v # u
<1>1. SUFFICES ASSUME ActiveAdmins \subseteq {u} PROVE FALSE
  OBVIOUS
<1>2. IsFiniteSet({u}) /\ Cardinality({u}) = 1
  BY FS_Singleton
<1>3. IsFiniteSet(ActiveAdmins) /\ Cardinality(ActiveAdmins) <= 1
  BY <1>1, <1>2, FS_Subset
<1>4. Cardinality(ActiveAdmins) \in Nat
  BY <1>3, FS_CardinalityType
<1> QED  BY <1>3, <1>4 DEF CountActiveAdmins

\* A count that is not at most one is of more.
LEMMA Counted ==
  ASSUME ~(CountActiveAdmins <= 1)
  PROVE  CountActiveAdmins > 1
<1>1. IsFiniteSet(UserIds)
  BY FS_Interval, BoundsAssumption DEF UserIds
<1>2. ActiveAdmins \in SUBSET UserIds
  BY DEF ActiveAdmins
<1>3. Cardinality(ActiveAdmins) \in Nat
  BY <1>1, <1>2, FS_Subset, FS_CardinalityType
<1> QED  BY <1>3 DEF CountActiveAdmins

\* Who else has a request stays fresh while it only waits, or is overtaken.
LEMMA WaitingFresh ==
  ASSUME NEW p \in Procs, Fresh(p), req'[p] = req[p], Overtaking
  PROVE  Fresh(p)'
<1>1. SUFFICES ASSUME ~overtaken'[p], Judging(req[p]) PROVE Fresh(p)'
  BY NothingToJudge DEF Fresh
<1>2. ~overtaken[p] /\ ~Overtakes(req[p])
  BY <1>1 DEF Overtaking
<1>3. req[p].target \in ActiveAdmins' <=> req[p].target \in ActiveAdmins
  BY <1>1, <1>2 DEF Overtakes
<1>4. Writing(req[p]) => CountActiveAdmins' = CountActiveAdmins
  BY <1>1, <1>2 DEF Overtakes, CountActiveAdmins
<1> QED  BY <1>2, <1>3, <1>4 DEF Fresh, Judging, Writing, At, WasAdmin, RemovesAdmin

\* Requests that wait keep their locals.
LEMMA WaitingNotItself ==
  ASSUME NEW p \in Procs, NotItself(p), req'[p] = req[p]
  PROVE  NotItself(p)'
  BY DEF NotItself, At, Deactivates

Checks(p) == \/ UpdateGetUser(p) \/ UpdateCheckEmail(p) \/ UpdateCountAdmins(p)
             \/ DeleteGetUser(p) \/ DeleteCountAdmins(p)

\* The three statements that write users.
Writes(p) == InsertUser(p) \/ WriteUser(p) \/ RemoveUser(p)

\* The statements of a removal that come before its write.
LEMMA ChecksFresh ==
  ASSUME TypeInv, NEW p \in Procs, Fresh(p), NotItself(p), Checks(p), Overtaking
  PROVE  Fresh(p)' /\ NotItself(p)' /\ UNCHANGED <<users, lastUser>>
<1>1. req[p] \in Request /\ req \in [Procs -> Request] /\ LocalsOK(req[p])
  BY Here DEF TypeInv, ReqGood
<1>2. UNCHANGED <<users, lastUser>>
  BY DEF Checks, UpdateGetUser, UpdateCheckEmail, UpdateCountAdmins, DeleteGetUser,
     DeleteCountAdmins, Refuse, Proceed, storeVars, userVars
<1>3. CountActiveAdmins' = CountActiveAdmins /\ ActiveAdmins' = ActiveAdmins
  BY <1>2 DEF CountActiveAdmins, ActiveAdmins, IsActiveAdmin, IsActive
<1>4. CASE Reply(p)
  <2>1. ~Judging(req'[p])
    BY <1>1, <1>4 DEF Reply, Idle, Judging
  <2> QED  BY <1>2, <2>1, NothingToJudge
<1>5. ASSUME ~overtaken'[p], Judging(req'[p]) PROVE ~overtaken[p]
  BY <1>5 DEF Overtaking
<1>6. ASSUME NEW row, row = users[req[p].target], row # NULL, req[p].target \in UserIds
      PROVE  row.role = "admin" /\ row.active <=> req[p].target \in ActiveAdmins
  BY <1>6 DEF ActiveAdmins, IsActiveAdmin, IsActive
<1>7. CASE UpdateGetUser(p) /\ ~Reply(p)
  <2>1. /\ users[req[p].target] # NULL /\ req[p].target \in UserIds
        /\ req'[p].op = "update" /\ req'[p].pc = "CheckEmail"
        /\ req'[p].seen = users[req[p].target] /\ req'[p].target = req[p].target
    BY <1>1, <1>7 DEF UpdateGetUser, At, LocalsOK, Request
  <2> QED  BY <1>2, <1>3, <1>6, <2>1 DEF Fresh, NotItself, At, WasAdmin
<1>8. CASE UpdateCheckEmail(p) /\ ~Reply(p)
  <2>1. PICK l \in {"CountAdmins", "UpdateUser"} :
          /\ req' = [req EXCEPT ![p].pc = l]
          /\ ~(req[p].target = req[p].user /\ Deactivates(req[p]))
          /\ l = "UpdateUser" => ~RemovesAdmin(req[p])
    BY <1>8 DEF UpdateCheckEmail, Refuse, Proceed, Goto
  <2>2. req'[p] = [req[p] EXCEPT !.pc = l]
    BY <1>1, <2>1
  <2>3. /\ req[p].op = "update" /\ req[p].pc = "CheckEmail"
        /\ req'[p].op = "update" /\ req'[p].pc = l
        /\ req'[p].target = req[p].target /\ req'[p].user = req[p].user
        /\ req'[p].form = req[p].form /\ req'[p].seen = req[p].seen
    BY <1>1, <1>8, <2>2 DEF UpdateCheckEmail, At, Request
  <2>4. Judging(req[p]) /\ Judging(req'[p])
    BY <2>3 DEF Judging
  <2>5. NotItself(p)'
    BY <2>1, <2>3 DEF NotItself, At, Deactivates
  <2>6. Fresh(p)'
    BY <1>3, <1>5, <2>1, <2>3, <2>4 DEF Fresh, At, WasAdmin, RemovesAdmin
  <2> QED  BY <1>2, <2>5, <2>6
<1>9. CASE UpdateCountAdmins(p) /\ ~Reply(p)
  <2>1. CountActiveAdmins > 1 /\ req' = [req EXCEPT ![p].pc = "UpdateUser"]
    BY <1>9, Counted DEF UpdateCountAdmins, Refuse, Proceed, Goto
  <2>2. /\ req[p].op = "update" /\ req[p].pc = "CountAdmins"
        /\ req'[p].op = "update" /\ req'[p].pc = "UpdateUser"
        /\ req'[p].target = req[p].target /\ req'[p].user = req[p].user
        /\ req'[p].form = req[p].form /\ req'[p].seen = req[p].seen
    BY <1>1, <1>9, <2>1 DEF UpdateCountAdmins, At, Request
  <2>3. Judging(req[p]) /\ Judging(req'[p])
    BY <2>2 DEF Judging
  <2> QED  BY <1>2, <1>3, <1>5, <2>1, <2>2, <2>3
           DEF Fresh, NotItself, At, WasAdmin, Deactivates
<1>10. CASE DeleteGetUser(p) /\ ~Reply(p)
  <2>1. PICK l \in {"CountAdmins", "DeleteUser"} :
          /\ req' = [req EXCEPT ![p].pc = l, ![p].seen = users[req[p].target]]
          /\ req[p].target # req[p].user
          /\ users[req[p].target] # NULL
          /\ l = "DeleteUser" => users[req[p].target].role # "admin"
    BY <1>10 DEF DeleteGetUser
  <2>2. /\ req[p].target \in UserIds
        /\ req'[p].op = "delete" /\ req'[p].pc = l /\ req'[p].seen = users[req[p].target]
        /\ req'[p].target = req[p].target /\ req'[p].user = req[p].user
    BY <1>1, <1>10, <2>1 DEF DeleteGetUser, At, LocalsOK, Request
  <2> QED  BY <1>2, <1>3, <1>6, <2>1, <2>2 DEF Fresh, NotItself, At, WasAdmin
<1>11. CASE DeleteCountAdmins(p) /\ ~Reply(p)
  <2>1. /\ req[p].seen.active => CountActiveAdmins > 1
        /\ req' = [req EXCEPT ![p].pc = "DeleteUser"]
    BY <1>11, Counted DEF DeleteCountAdmins, Refuse, Proceed, Goto
  <2>2. /\ req[p].op = "delete" /\ req[p].pc = "CountAdmins"
        /\ req'[p].op = "delete" /\ req'[p].pc = "DeleteUser"
        /\ req'[p].target = req[p].target /\ req'[p].user = req[p].user
        /\ req'[p].seen = req[p].seen
    BY <1>1, <1>11, <2>1 DEF DeleteCountAdmins, At, Request
  <2>3. Judging(req[p]) /\ Judging(req'[p])
    BY <2>2 DEF Judging
  <2> QED  BY <1>2, <1>3, <1>5, <2>1, <2>2, <2>3 DEF Fresh, NotItself, At, WasAdmin
<1> QED
  BY <1>2, <1>4, <1>7, <1>8, <1>9, <1>10, <1>11 DEF Checks

\* A request that writes a user has nothing to judge any more, and ids stay used.
LEMMA WritesEnd ==
  ASSUME TypeInv, NumbersUsed, NEW p \in Procs, Writes(p)
  PROVE  ~Judging(req'[p]) /\ NumbersUsed'
<1>1. /\ req[p] \in Request /\ req \in [Procs -> Request]
      /\ users \in [UserIds -> User \cup {NULL}] /\ lastUser \in Nat
  BY Here, BoundsAssumption DEF TypeInv, ReqGood, StoreGood, StoreTypeOK
<1>2. CASE InsertUser(p)
  BY <1>1, <1>2 DEF InsertUser, CreateUser, NumbersUsed, UserIds, Reply, Idle, Judging
<1>3. CASE WriteUser(p)
  <2>1. NumbersUsed'
    BY <1>1, <1>3 DEF WriteUser, UpdateUser, NumbersUsed
  <2>2. PICK l \in {"RevokeDeactivated", "SetPassword", "Idle"}, n \in Times :
          req' = [req EXCEPT ![p] = IF l = "Idle" THEN Idle
                                    ELSE [req[p] EXCEPT !.tick = n, !.pc = l]]
    <3>1. CASE Deactivates(req[p])
      <4>1. clock + 1 \in Times
        BY <1>3, <3>1, BoundsAssumption DEF WriteUser, TypeInv, StoreGood, StoreTypeOK, Times
      <4>2. req' = [req EXCEPT ![p] = [req[p] EXCEPT !.tick = clock + 1,
                                                     !.pc = "RevokeDeactivated"]]
        BY <1>3, <3>1 DEF WriteUser, Continue
      <4> QED  BY <4>1, <4>2
    <3>2. CASE ~Deactivates(req[p])
      <4>1. req' = [req EXCEPT ![p] = IF AfterUpdate(req[p]) = "Idle" THEN Idle
                                      ELSE [req[p] EXCEPT !.pc = AfterUpdate(req[p])]]
        BY <1>3, <3>2 DEF WriteUser, Continue
      <4>2. req[p].tick \in Times /\ req[p] = [req[p] EXCEPT !.tick = req[p].tick]
        BY <1>1 DEF Request
      <4> QED  BY <4>1, <4>2 DEF AfterUpdate
    <3> QED  BY <3>1, <3>2
  <2>3. CASE l = "Idle"
    BY <1>1, <2>1, <2>2, <2>3 DEF Idle, Judging
  <2>4. CASE l # "Idle"
    BY <1>1, <2>1, <2>2, <2>4 DEF Request, Judging
  <2> QED  BY <2>3, <2>4
<1>4. CASE RemoveUser(p)
  BY <1>1, <1>4 DEF RemoveUser, DeleteUser, NumbersUsed, Reply, Idle, Judging
<1> QED  BY <1>2, <1>3, <1>4 DEF Writes

\* No other step writes users, or comes near a removal.
LEMMA ElsewhereStep ==
  ASSUME TypeInv, NEW p \in Procs, RequestStep(p), ~Checks(p), ~Writes(p)
  PROVE  ~Judging(req'[p]) /\ UNCHANGED <<users, lastUser>>
<1>1. req[p] \in Request /\ req \in [Procs -> Request]
  BY Here DEF TypeInv, ReqGood
<1>2. Reply(p) => ~Judging(req'[p])
  BY <1>1 DEF Reply, Idle, Judging
<1>3. CASE LoadUser(p)
  BY <1>1, <1>2, <1>3
  DEF LoadUser, GetSession, GetUser, GetImpersonator, DropSession, Admit, Goto, Request,
      Judging, storeVars, userVars
<1>4. CASE AuthStep(p)
  BY <1>1, <1>2, <1>4
  DEF AuthStep, LoginGetUser, LoginCreateSession, Logout, StartGetTarget, StartCreateSession,
      StopGetSession, StopGetAdmin, StopCreateSession, EndRotation, RotateTo, Goto, Proceed,
      Request, Judging, storeVars, userVars
<1>5. CASE UserAdminStep(p)
  <2>1. CASE RevokeDeactivated(p)
    BY <1>1, <1>2, <2>1
    DEF RevokeDeactivated, Revoke, Continue, AfterUpdate, Idle, Request, Judging, userVars
  <2>2. CASE ~RevokeDeactivated(p)
    BY <1>1, <1>2, <1>5, <2>2
    DEF UserAdminStep, Checks, Writes, CreateCheckEmail, ChangeGetUser, SetPassword,
        RevokeSessions, Revoke, UpdateUserPassword, Refuse, Proceed, Goto, Request, Judging,
        storeVars, userVars
  <2> QED  BY <2>1, <2>2
<1>6. CASE ResetStep(p)
  BY <1>1, <1>2, <1>6
  DEF ResetStep, ForgotGetUser, ForgotInsertToken, ForgotSendMail, ResetGetToken,
      ResetMarkUsed, ResetSetPassword, ResetRevokeSessions, ResetPurgeTokens, Revoke,
      UpdateUserPassword, Refuse, Proceed, Goto, Request, Judging, storeVars, userVars
<1>7. CASE ArrivePublic(p)
  BY <1>1, <1>7, PublicArrivals DEF Arrive, Judging, storeVars, userVars
<1>8. CASE ArriveWithCookie(p)
  BY <1>1, <1>8, CookieArrivals DEF CookieRequest, Arrive, Judging, storeVars, userVars
<1> QED  BY <1>2, <1>3, <1>4, <1>5, <1>6, <1>7, <1>8
         DEF RequestStep, ServerStep, Fail, Refuse, storeVars, userVars

\* The strengthening holds at the start.
LEMMA RemovalInit == Init => RemovalInv
<1> SUFFICES ASSUME Init PROVE RemovalInv
  OBVIOUS
<1>1. NumbersUsed
  BY SeededAssumption DEF Init, NumbersUsed, UserIds
<1>2. \A p \in Procs : req[p].op = NULL /\ req[p].pc = "Idle"
  BY DEF Init, Idle
<1>3. \A p \in Procs : Fresh(p) /\ NotItself(p)
  BY <1>2 DEF Fresh, NotItself, At, Judging
<1> QED  BY <1>1, <1>3 DEF RemovalInv

\* The strengthening is inductive, however requests interleave.
LEMMA RemovalStep ==
  ASSUME TypeInv, RemovalInv, [Next]_vars
  PROVE  RemovalInv'
<1>1. ASSUME UNCHANGED <<users, lastUser, req>>, Next PROVE RemovalInv'
  BY <1>1, WaitingFresh, WaitingNotItself DEF RemovalInv, NumbersUsed, Next
<1>2. ASSUME NEW p \in Procs, RequestStep(p), Overtaking PROVE RemovalInv'
  <2>1. \A q \in Procs \ {p} : Fresh(q)' /\ NotItself(q)'
    BY <1>2, OthersWait, WaitingFresh, WaitingNotItself DEF RemovalInv
  <2>2. CASE Checks(p)
    BY <1>2, <2>1, <2>2, ChecksFresh DEF RemovalInv, NumbersUsed
  <2>3. CASE Writes(p)
    BY <2>1, <2>3, WritesEnd, NothingToJudge DEF RemovalInv
  <2>4. CASE ~Checks(p) /\ ~Writes(p)
    BY <1>2, <2>1, <2>4, ElsewhereStep, NothingToJudge DEF RemovalInv, NumbersUsed
  <2> QED  BY <2>2, <2>3, <2>4
<1>3. CASE Next /\ Tick
  BY <1>1, <1>3 DEF Tick, ExpireSession, ExpireToken, userVars
<1>4. CASE UNCHANGED vars
  BY <1>4 DEF vars, storeVars, userVars, RemovalInv, NumbersUsed, Fresh, NotItself, Judging, At,
              CountActiveAdmins, ActiveAdmins, IsActiveAdmin, IsActive
<1> QED  BY <1>2, <1>3, <1>4 DEF Next, Step, RequestStep, ServerStep

\* A write that nobody has overtaken leaves an administrator, if there was one.
LEMMA WritesLeaveAdmin ==
  ASSUME TypeInv, RemovalInv, NEW p \in Procs, Writes(p), ActiveAdmins # {},
         Writing(req[p]) => ~overtaken[p]
  PROVE  ActiveAdmins' # {}
<1>1. /\ req[p] \in Request /\ req \in [Procs -> Request] /\ LocalsOK(req[p]) /\ Fresh(p)
      /\ users \in [UserIds -> User \cup {NULL}] /\ lastUser \in Nat
  BY Here, BoundsAssumption DEF TypeInv, ReqGood, RemovalInv, StoreGood, StoreTypeOK
<1>2. PICK a \in ActiveAdmins : TRUE
  OBVIOUS
<1>3. CASE InsertUser(p)
  <2>1. a \in UserIds /\ users[a] # NULL /\ a <= lastUser
    BY <1>2 DEF ActiveAdmins, IsActiveAdmin, IsActive, RemovalInv, NumbersUsed
  <2>2. users'[a] = users[a] /\ a \in ActiveAdmins'
    BY <1>1, <1>2, <1>3, <2>1
    DEF InsertUser, CreateUser, ActiveAdmins, IsActiveAdmin, IsActive, UserIds
  <2> QED  BY <2>2
<1>4. CASE WriteUser(p)
  <2> DEFINE t   == req[p].target
             row == [role |-> req[p].form.role, active |-> req[p].form.active]
  <2>1. /\ At(p, "update", "UpdateUser")
        /\ users' = [users EXCEPT ![t] = IF @ = NULL THEN NULL ELSE row]
    BY <1>4 DEF WriteUser, UpdateUser
  <2>2. Writing(req[p]) /\ Judging(req[p]) /\ ~overtaken[p]
    BY <2>1 DEF At, Writing, Judging
  <2>3. \E v \in ActiveAdmins : v # t \/ (row.role = "admin" /\ row.active)
    <3>1. CASE RemovesAdmin(req[p])
      BY <1>1, <2>1, <2>2, <3>1, AnotherAdmin DEF Fresh
    <3>2. CASE ~RemovesAdmin(req[p]) /\ WasAdmin(req[p])
      BY <1>2, <3>2 DEF RemovesAdmin, WasAdmin
    <3>3. CASE ~WasAdmin(req[p])
      BY <1>1, <1>2, <2>2, <3>3 DEF Fresh
    <3> QED  BY <3>1, <3>2, <3>3
  <2>4. PICK v \in ActiveAdmins : v # t \/ (row.role = "admin" /\ row.active)
    BY <2>3
  <2>5. v \in ActiveAdmins'
    <3>1. v \in UserIds /\ users[v] # NULL /\ users[v].active /\ users[v].role = "admin"
      BY DEF ActiveAdmins, IsActiveAdmin, IsActive
    <3>2. CASE v # t
      BY <1>1, <2>1, <3>1, <3>2 DEF ActiveAdmins, IsActiveAdmin, IsActive
    <3>3. CASE v = t /\ row.role = "admin" /\ row.active
      <4>1. users'[v] = row /\ row # NULL
        BY <1>1, <2>1, <3>1, <3>3, NullAssumption DEF User, Roles
      <4> QED  BY <3>1, <3>3, <4>1 DEF ActiveAdmins, IsActiveAdmin, IsActive
    <3> QED  BY <2>4, <3>2, <3>3
  <2> QED  BY <2>5
<1>5. CASE RemoveUser(p)
  <2>1. At(p, "delete", "DeleteUser") /\ users' = [users EXCEPT ![req[p].target] = NULL]
    BY <1>5 DEF RemoveUser, DeleteUser
  <2>2. Judging(req[p]) /\ ~overtaken[p]
    BY <2>1 DEF At, Writing, Judging
  <2>3. \E v \in ActiveAdmins : v # req[p].target
    <3>1. CASE WasAdmin(req[p])
      BY <1>1, <2>1, <2>2, <3>1, AnotherAdmin DEF Fresh
    <3>2. CASE ~WasAdmin(req[p])
      BY <1>1, <1>2, <2>2, <3>2 DEF Fresh
    <3> QED  BY <3>1, <3>2
  <2> QED  BY <1>1, <2>1, <2>3 DEF ActiveAdmins, IsActiveAdmin, IsActive
<1> QED  BY <1>3, <1>4, <1>5 DEF Writes

(***************************************************************************)
(* However many requests run at once, and fail, the last active            *)
(* administrator is only removed by a request that another has overtaken   *)
(* between its read, or its count, and its write: what ErrLastAdmin is     *)
(* good for.                                                               *)
(***************************************************************************)
THEOREM LastAdminsAreOvertaken == Spec => LastAdminOnlyOvertaken
<1> DEFINE Lost == ActiveAdmins # {} /\ ActiveAdmins' = {} =>
                     \E p \in Procs : overtaken[p] /\ Writing(req[p]) /\ req'[p] # req[p]
<1>1. TypeInv /\ RemovalInv /\ [Next]_vars => [Lost]_vars
  <2> SUFFICES ASSUME TypeInv, RemovalInv, Next, ActiveAdmins # {}, ActiveAdmins' = {}
               PROVE  \E p \in Procs : overtaken[p] /\ Writing(req[p]) /\ req'[p] # req[p]
    OBVIOUS
  <2>1. ~UNCHANGED users
    BY DEF ActiveAdmins, IsActiveAdmin, IsActive
  <2>2. PICK p \in Procs : RequestStep(p)
    BY <2>1 DEF Next, Step, RequestStep, ServerStep, Tick, ExpireSession, ExpireToken, userVars
  <2>3. Writes(p)
    BY <2>1, <2>2, ElsewhereStep, ChecksFresh DEF RemovalInv, Next
  <2>4. overtaken[p] /\ Writing(req[p])
    BY <2>3, WritesLeaveAdmin
  <2>5. req'[p] # req[p]
    <3>1. Judging(req[p])
      BY <2>3, <2>4 DEF Writes, InsertUser, WriteUser, RemoveUser, At, Judging, Writing
    <3> QED  BY <2>3, <3>1, WritesEnd DEF RemovalInv
  <2> QED  BY <2>4, <2>5
<1>2. TypeInv /\ RemovalInv /\ [Next]_vars => RemovalInv'
  BY RemovalStep
<1>3. Spec => [][Lost]_vars
  BY <1>1, <1>2, RemovalInit, TypeInvariant, PTL DEF Spec
<1> QED  BY <1>3 DEF LastAdminOnlyOvertaken

(***************************************************************************)
(* However many requests run at once, none deletes the account it acts as, *)
(* nor deactivates one that it has read as active: the guards of the       *)
(* handler of Delete and of the service of Update.                         *)
(***************************************************************************)
THEOREM NobodyRemovesThemselves == Spec => NoSelfRemoval
<1> DEFINE Kept == \A p \in Procs, u \in UserIds :
                     (/\ req[p].pc = "DeleteUser" \/ (req[p].pc = "UpdateUser" /\ req[p].seen.active)
                      /\ req[p].user = u /\ req[p].target = u
                      /\ req'[p] # req[p]
                      /\ IsActive(u)) => IsActive(u)'
<1>1. TypeInv /\ RemovalInv /\ [Next]_vars => [Kept]_vars
  <2> SUFFICES ASSUME TypeInv, RemovalInv, Next, NEW p \in Procs, NEW u \in UserIds,
                      \/ req[p].pc = "DeleteUser"
                      \/ req[p].pc = "UpdateUser" /\ req[p].seen.active,
                      req[p].user = u, req[p].target = u, req'[p] # req[p], IsActive(u)
               PROVE  IsActive(u)'
    OBVIOUS
  <2>1. RequestStep(p)
    BY OthersWait DEF Next, Step, RequestStep, ServerStep, Tick
  <2>2. /\ req[p] \in Request /\ NotItself(p)
        /\ users \in [UserIds -> User \cup {NULL}]
    BY Here DEF TypeInv, RemovalInv, StoreGood, StoreTypeOK
  <2>3. CASE WriteUser(p)
    <3> DEFINE row == [role |-> req[p].form.role, active |-> req[p].form.active]
    <3>1. /\ users' = [users EXCEPT ![u] = IF @ = NULL THEN NULL ELSE row]
          /\ req[p].form.active
      <4>1. At(p, "update", "UpdateUser") /\ req[p].seen.active
        BY <2>3 DEF WriteUser, At
      <4>2. ~Deactivates(req[p])
        BY <2>2, <4>1 DEF NotItself
      <4> QED  BY <2>3, <4>1, <4>2 DEF WriteUser, UpdateUser, Deactivates
    <3>2. users'[u] = row /\ row # NULL
      <4>1. row \in User
        <5>1. req[p].form \in Form
          BY <2>3, Here DEF WriteUser, At, LocalsOK, Request
        <5> QED  BY <5>1 DEF Form, User
      <4> QED  BY <2>2, <3>1, <4>1, NullAssumption DEF IsActive
    <3> QED  BY <3>1, <3>2 DEF IsActive
  <2>4. CASE RemoveUser(p)
    BY <2>2, <2>4 DEF RemoveUser, NotItself
  <2>5. CASE Checks(p)
    BY <2>5, ChecksFresh DEF IsActive, RemovalInv, Next
  <2>6. CASE ~Checks(p) /\ ~Writes(p)
    BY <2>1, <2>6, ElsewhereStep DEF IsActive
  <2>7. ~InsertUser(p)
    BY DEF InsertUser, At
  <2> QED  BY <2>3, <2>4, <2>5, <2>6, <2>7 DEF Writes
<1>2. TypeInv /\ RemovalInv /\ [Next]_vars => RemovalInv'
  BY RemovalStep
<1>3. Spec => [][Kept]_vars
  BY <1>1, <1>2, RemovalInit, TypeInvariant, PTL DEF Spec
<1> QED  BY <1>3 DEF NoSelfRemoval
=============================================================================
