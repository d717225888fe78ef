------------------------------- MODULE Avatar -------------------------------
(***************************************************************************)
(* The upload of a profile picture: UploadPicture of handlers/profile.go   *)
(* with SaveOriginalAndThumb of imageutil.  An upload writes two files of  *)
(* a new name, removes the two of the old name, and points the row at the  *)
(* new one.  Nothing makes these steps one: requests of the same user      *)
(* interleave, each step may fail, and the program may stop.               *)
(*                                                                         *)
(* A name is the user's id with a random part; the extension, which stays  *)
(* with the name, is left out.  Only files that are whole are counted: a   *)
(* write that fails may leave a torn one, to which no row ever points.     *)
(***************************************************************************)
EXTENDS Integers

CONSTANTS
  NULL,
  Users,     \* the users who have an account at the start
  Nonces,    \* the random parts of names
  Procs      \* the goroutines that serve a request

Names == [user : Users, nonce : Nonces]
Kinds == {"original", "thumb"}
Files == [name : Names, kind : Kinds]

VARIABLES
  members,    \* users not deleted
  rows,       \* rows[u]: users.avatar_path, or NULL
  files,      \* the files in the avatar directory
  used,       \* names that were drawn
  req,        \* req[p]: the upload that p serves, or NULL
  lost,       \* history: names whose removal was begun, and the row not updated
  disturbed   \* history: users of whom an upload failed or met another, or who left

vars == <<members, rows, files, used, req, lost, disturbed>>

\* at: what the upload does next.  old is the row's name when the session was
\* resolved, name the new one.
Upload == [user : Users, old : Names \cup {NULL}, name : Names \cup {NULL},
           at : {"validate", "original", "thumb", "removeOriginal", "removeThumb", "update"}]

ASSUME AvatarAssumption == NULL \notin Upload /\ NULL \notin Names

File(n, kind) == [name |-> n, kind |-> kind]

FilesOf(n) == IF n = NULL THEN {} ELSE {File(n, kind) : kind \in Kinds}

Serving(p, at) == req[p] # NULL /\ req[p].at = at

Goto(p, at) == req' = [req EXCEPT ![p].at = at]

Reply(p) == req' = [req EXCEPT ![p] = NULL]

Busy(u) == {p \in Procs : req[p] # NULL /\ req[p].user = u}

-----------------------------------------------------------------------------
\* The request arrives, and LoadUser reads the row of its user.
Arrive(p, u) ==
  /\ req[p] = NULL /\ u \in members
  /\ req' = [req EXCEPT ![p] = [user |-> u, old |-> rows[u], name |-> NULL, at |-> "validate"]]
  /\ disturbed' = IF Busy(u) = {} THEN disturbed ELSE disturbed \cup {u}
  /\ UNCHANGED <<members, rows, files, used, lost>>

\* No file, too large a file, or neither JPEG nor PNG: the page with a message.
Refuse(p) ==
  /\ Serving(p, "validate")
  /\ Reply(p)
  /\ UNCHANGED <<members, rows, files, used, lost, disturbed>>

\* Mutation: the name is the user's id, and not new.
NameOf(u) == [user : {u}, nonce : Nonces]

\* Six random bytes: that they repeat is left out.
randomBasename(u) == [user : {u}, nonce : Nonces] \ used

Accept(p) ==
  /\ Serving(p, "validate")
  /\ \E n \in randomBasename(req[p].user) :
       /\ used' = used \cup {n}
       /\ req'  = [req EXCEPT ![p] = [@ EXCEPT !.name = n, !.at = "original"]]
  /\ UNCHANGED <<members, rows, files, lost, disturbed>>

WriteOriginal(p) ==
  /\ Serving(p, "original")
  /\ files' = files \cup {File(req[p].name, "original")}
  /\ Goto(p, "thumb")
  /\ UNCHANGED <<members, rows, used, lost, disturbed>>

WriteThumb(p) ==
  /\ Serving(p, "thumb")
  /\ files' = files \cup {File(req[p].name, "thumb")}
  /\ Goto(p, IF req[p].old = NULL THEN "update" ELSE "removeOriginal")
  /\ UNCHANGED <<members, rows, used, lost, disturbed>>

\* Mutation: the extension is not trimmed, and there is no such thumbnail.
ThumbOfPath(r) == {}

oldThumb(r) == {File(r.old, "thumb")}

\* It matters not that a file was there: ErrNotExist is swallowed.
RemoveOriginal(p) ==
  /\ Serving(p, "removeOriginal")
  /\ files' = files \ {File(req[p].old, "original")}
  /\ Goto(p, "removeThumb")
  /\ UNCHANGED <<members, rows, used, lost, disturbed>>

RemoveThumb(p) ==
  /\ Serving(p, "removeThumb")
  /\ files' = files \ oldThumb(req[p])
  /\ Goto(p, "update")
  /\ UNCHANGED <<members, rows, used, lost, disturbed>>

\* Any other error is logged, and the upload goes on.
KeepOriginal(p) ==
  /\ Serving(p, "removeOriginal")
  /\ Goto(p, "removeThumb")
  /\ disturbed' = disturbed \cup {req[p].user}
  /\ UNCHANGED <<members, rows, files, used, lost>>

KeepThumb(p) ==
  /\ Serving(p, "removeThumb")
  /\ Goto(p, "update")
  /\ disturbed' = disturbed \cup {req[p].user}
  /\ UNCHANGED <<members, rows, files, used, lost>>

\* Mutation: an account that is gone comes back.
Upserted(u, n) == [rows EXCEPT ![u] = n]

\* An UPDATE, which matches no row when the account is gone.
UpdateAvatar(u, n) == [rows EXCEPT ![u] = IF u \in members THEN n ELSE @]

Update(p) ==
  /\ Serving(p, "update")
  /\ rows' = UpdateAvatar(req[p].user, req[p].name)
  /\ Reply(p)
  /\ UNCHANGED <<members, files, used, lost, disturbed>>

\* The step fails, or the program stops.
Fail(p) ==
  /\ req[p] # NULL
  /\ Reply(p)
  /\ lost' = IF req[p].at \in {"removeThumb", "update"} /\ req[p].old # NULL
             THEN lost \cup {req[p].old} ELSE lost
  /\ disturbed' = IF req[p].at = "validate" THEN disturbed
                  ELSE disturbed \cup {req[p].user}
  /\ UNCHANGED <<members, rows, files, used>>

\* DeleteUser: the files stay.
DeleteUser(u) ==
  /\ members'   = members \ {u}
  /\ rows'      = [rows EXCEPT ![u] = NULL]
  /\ disturbed' = disturbed \cup {u}
  /\ UNCHANGED <<files, used, req, lost>>

Init ==
  /\ members   = Users
  /\ rows      = [u \in Users |-> NULL]
  /\ files     = {}
  /\ used      = {}
  /\ req       = [p \in Procs |-> NULL]
  /\ lost      = {}
  /\ disturbed = {}

Serve(p) ==
  \/ Refuse(p) \/ Accept(p) \/ WriteOriginal(p) \/ WriteThumb(p)
  \/ RemoveOriginal(p) \/ KeepOriginal(p) \/ RemoveThumb(p) \/ KeepThumb(p)
  \/ Update(p)

Next ==
  \/ \E p \in Procs : Serve(p) \/ Fail(p) \/ \E u \in Users : Arrive(p, u)
  \/ \E u \in members : DeleteUser(u)

Spec == Init /\ [][Next]_vars

-----------------------------------------------------------------------------
AvatarTypeOK ==
  /\ members   \subseteq Users
  /\ rows      \in [Users -> Names \cup {NULL}]
  /\ files     \subseteq Files
  /\ used      \subseteq Names
  /\ req       \in [Procs -> Upload \cup {NULL}]
  /\ lost      \subseteq Names
  /\ disturbed \subseteq Users
  /\ \A u \in Users \ members : rows[u] = NULL

\* Someone who read this name is about to replace it, its files being removed.
BeingReplaced(n) ==
  \E p \in Procs : req[p] # NULL /\ req[p].old = n /\ req[p].at \in {"removeThumb", "update"}

\* The files of the picture that a row names are there: except while an upload
\* is between their removal and its UPDATE, and for good when it failed there.
\* No interleaving of uploads breaks a picture (UploadPicture).
PictureOnDisk ==
  \A u \in Users :
    rows[u] # NULL /\ rows[u] \notin lost /\ ~BeingReplaced(rows[u]) =>
      FilesOf(rows[u]) \subseteq files

\* A user whose uploads came one after another and all succeeded has the two
\* files of the present picture in the directory, and no others: nothing that
\* was replaced is left (the comment of UploadPicture).
NothingLeftBehind ==
  \A u \in Users \ disturbed :
    Busy(u) = {} => {f \in files : f.name.user = u} = FilesOf(rows[u])
=============================================================================
