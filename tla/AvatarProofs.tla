---------------------------- MODULE AvatarProofs ----------------------------
(***************************************************************************)
(* However uploads interleave and fail, for any number of users, names and *)
(* uploads at once: a row never names a picture that is not there, but for *)
(* the two cases of PictureOnDisk; and uploads that meet no trouble leave  *)
(* nothing behind.                                                         *)
(***************************************************************************)
EXTENDS Avatar, TLAPS

\* What an upload has done so far.
StageOf(r) ==
  /\ r.old # NULL => r.old \in used /\ r.old.user = r.user
  /\ r.at = "validate" => r.name = NULL
  /\ r.at # "validate" => r.name \in used /\ r.name.user = r.user
  /\ r.at \in {"removeOriginal", "removeThumb"} => r.old # NULL
  /\ r.at \notin {"validate", "original"} => File(r.name, "original") \in files
  /\ r.at \notin {"validate", "original", "thumb"} => File(r.name, "thumb") \in files

Stages == \A p \in Procs : req[p] # NULL => StageOf(req[p])

\* The new name of an upload is nobody else's until the UPDATE.
OwnName ==
  \A p, q \in Procs :
    req[p] # NULL /\ req[p].name # NULL /\ req[q] # NULL =>
      req[q].old # req[p].name /\ (p # q => req[q].name # req[p].name)

NotPublished ==
  \A p \in Procs : \A u \in Users :
    req[p] # NULL /\ req[p].name # NULL =>
      rows[u] # req[p].name /\ req[p].name \notin lost

OwnRow ==
  /\ lost \subseteq used
  /\ \A u \in Users : rows[u] # NULL => rows[u] \in used /\ rows[u].user = u

Complete(n) == File(n, "original") \in files /\ File(n, "thumb") \in files

PictureKept ==
  \A u \in Users :
    rows[u] # NULL /\ rows[u] \notin lost /\ ~BeingReplaced(rows[u]) => Complete(rows[u])

IndInv ==
  /\ AvatarTypeOK /\ Stages /\ OwnName /\ NotPublished /\ OwnRow /\ PictureKept

-----------------------------------------------------------------------------
(***************************************************************************)
(* Files and requests.                                                     *)
(***************************************************************************)
LEMMA FileFacts ==
  ASSUME NEW n, NEW m, NEW kind, NEW other
  PROVE  /\ File(n, kind) = File(m, other) <=> n = m /\ kind = other
         /\ n \in Names /\ kind \in Kinds => File(n, kind) \in Files
<1>1. File(n, kind).name = n /\ File(n, kind).kind = kind
  BY DEF File
<1>2. File(m, other).name = m /\ File(m, other).kind = other
  BY DEF File
<1>3. n \in Names /\ kind \in Kinds => File(n, kind) \in Files
  BY DEF File, Files
<1> QED
  BY <1>1, <1>2, <1>3

LEMMA MovesOn ==
  ASSUME AvatarTypeOK, NEW p \in Procs, req[p] # NULL, NEW at, Goto(p, at),
         at \in {"validate", "original", "thumb", "removeOriginal", "removeThumb", "update"}
  PROVE  /\ req' \in [Procs -> Upload \cup {NULL}]
         /\ req'[p] # NULL /\ req'[p].at = at /\ req'[p].user = req[p].user
         /\ req'[p].old = req[p].old /\ req'[p].name = req[p].name
         /\ \A q \in Procs : q # p => req'[q] = req[q]
<1>1. req[p] \in Upload /\ req \in [Procs -> Upload \cup {NULL}]
  BY DEF AvatarTypeOK
<1> DEFINE r == [req[p] EXCEPT !.at = at]
<1>2. r \in Upload /\ r.at = at /\ r.user = req[p].user /\ r.old = req[p].old
      /\ r.name = req[p].name
  BY <1>1 DEF Upload
<1>3. req' = [req EXCEPT ![p] = r]
  BY DEF Goto
<1>4. r # NULL
  BY <1>2, AvatarAssumption
<1> HIDE DEF r
<1> QED
  BY <1>1, <1>2, <1>3, <1>4

LEMMA Replies ==
  ASSUME AvatarTypeOK, NEW p \in Procs, Reply(p)
  PROVE  /\ req' \in [Procs -> Upload \cup {NULL}]
         /\ req'[p] = NULL
         /\ \A q \in Procs : q # p => req'[q] = req[q]
BY DEF AvatarTypeOK, Reply

\* A step that only moves a request on, or ends it, or adds to the files.
LEMMA Harmless ==
  ASSUME IndInv, NEW p \in Procs, UNCHANGED <<members, rows, used>>,
         files \subseteq files' /\ files' \subseteq Files,
         lost \subseteq lost' /\ lost' \subseteq used /\ disturbed' \subseteq Users,
         req' \in [Procs -> Upload \cup {NULL}],
         \A q \in Procs : q # p => req'[q] = req[q],
         req'[p] # NULL =>
           /\ req[p] # NULL /\ StageOf(req[p])'
           /\ req'[p].old = req[p].old /\ req'[p].name = req[p].name
           /\ req[p].at \in {"removeThumb", "update"} =>
                req'[p].at \in {"removeThumb", "update"},
         \A n \in lost' \ lost : \E q \in Procs : req[q] # NULL /\ req[q].old = n,
         req'[p] = NULL /\ req[p] # NULL /\ req[p].at \in {"removeThumb", "update"}
           /\ req[p].old # NULL => req[p].old \in lost'
  PROVE  IndInv'
<1>1. AvatarTypeOK'
  BY DEF IndInv, AvatarTypeOK
<1>2. Stages'
  <2>1. ASSUME NEW q \in Procs, q # p, req'[q] # NULL PROVE StageOf(req[q])'
    BY <2>1 DEF IndInv, Stages, StageOf
  <2> QED
    BY <2>1 DEF Stages
<1>3. OwnName'
  BY DEF IndInv, OwnName
<1>4. NotPublished'
  BY DEF IndInv, NotPublished, OwnName
<1>5. OwnRow'
  BY DEF IndInv, OwnRow
<1>6. ASSUME NEW u \in Users, rows[u] # NULL, rows[u] \notin lost', ~BeingReplaced(rows[u])'
      PROVE  Complete(rows[u])'
  <2>1. ~BeingReplaced(rows[u])
    BY <1>6 DEF BeingReplaced
  <2>2. Complete(rows[u])
    BY <1>6, <2>1 DEF IndInv, PictureKept
  <2> QED
    BY <2>2 DEF Complete
<1>7. PictureKept'
  BY <1>6 DEF PictureKept
<1> QED
  BY <1>1, <1>2, <1>3, <1>4, <1>5, <1>7 DEF IndInv

-----------------------------------------------------------------------------
(***************************************************************************)
(* The steps keep the invariant.                                           *)
(***************************************************************************)
LEMMA SavesTyped ==
  ASSUME IndInv, NEW p \in Procs, WriteOriginal(p) \/ WriteThumb(p) \/ KeepOriginal(p) \/ KeepThumb(p)
  PROVE  IndInv'
<1> USE DEF Kinds
<1>1. AvatarTypeOK /\ req[p] # NULL /\ StageOf(req[p]) /\ req[p] \in Upload
  BY DEF WriteOriginal, WriteThumb, KeepOriginal, KeepThumb, Serving, IndInv, Stages, AvatarTypeOK
<1>2. CASE WriteOriginal(p)
  <2>1. req[p].name \in Names
    BY <1>1, <1>2 DEF WriteOriginal, Serving, StageOf, AvatarTypeOK
  <2>2. files' \subseteq Files
    BY <1>1, <1>2, <2>1, FileFacts DEF WriteOriginal, AvatarTypeOK
  <2>3. req' \in [Procs -> Upload \cup {NULL}] /\ req'[p] # NULL /\ req'[p].at = "thumb"
        /\ req'[p].user = req[p].user /\ req'[p].old = req[p].old /\ req'[p].name = req[p].name
        /\ \A q \in Procs : q # p => req'[q] = req[q]
    BY <1>1, <1>2, MovesOn DEF WriteOriginal
  <2>4. StageOf(req[p])'
    BY <1>1, <1>2, <2>3 DEF WriteOriginal, Serving, StageOf
  <2> QED
    BY <1>1, <1>2, <2>2, <2>3, <2>4, Harmless DEF WriteOriginal, Serving, IndInv, OwnRow, AvatarTypeOK
<1>3. CASE WriteThumb(p)
  <2> DEFINE at == IF req[p].old = NULL THEN "update" ELSE "removeOriginal"
  <2>1. req[p].name \in Names
    BY <1>1, <1>3 DEF WriteThumb, Serving, StageOf, AvatarTypeOK
  <2>2. files' \subseteq Files
    BY <1>1, <1>3, <2>1, FileFacts DEF WriteThumb, AvatarTypeOK
  <2>3. req' \in [Procs -> Upload \cup {NULL}] /\ req'[p] # NULL /\ req'[p].at = at
        /\ req'[p].user = req[p].user /\ req'[p].old = req[p].old /\ req'[p].name = req[p].name
        /\ \A q \in Procs : q # p => req'[q] = req[q]
    BY <1>1, <1>3, MovesOn DEF WriteThumb
  <2>4. StageOf(req[p])'
    BY <1>1, <1>3, <2>3 DEF WriteThumb, Serving, StageOf
  <2> QED
    BY <1>1, <1>3, <2>2, <2>3, <2>4, Harmless DEF WriteThumb, Serving, IndInv, OwnRow, AvatarTypeOK
<1>4. ASSUME NEW at \in {"removeThumb", "update"}, Goto(p, at),
             req[p].at \in {"removeOriginal", "removeThumb"},
             disturbed' = disturbed \cup {req[p].user},
             UNCHANGED <<members, rows, files, used, lost>>
      PROVE  IndInv'
  <2>1. req' \in [Procs -> Upload \cup {NULL}] /\ req'[p] # NULL /\ req'[p].at = at
        /\ req'[p].user = req[p].user /\ req'[p].old = req[p].old /\ req'[p].name = req[p].name
        /\ \A q \in Procs : q # p => req'[q] = req[q]
    BY <1>1, <1>4, MovesOn
  <2>2. StageOf(req[p])'
    BY <1>1, <1>4, <2>1 DEF StageOf
  <2>3. disturbed' \subseteq Users
    BY <1>1, <1>4 DEF AvatarTypeOK, Upload
  <2> QED
    BY <1>1, <1>4, <2>1, <2>2, <2>3, Harmless DEF IndInv, OwnRow, AvatarTypeOK
<1> QED
  BY <1>2, <1>3, <1>4 DEF WriteOriginal, WriteThumb, KeepOriginal, KeepThumb, Serving

LEMMA EndsTyped ==
  ASSUME IndInv, NEW p \in Procs, Refuse(p) \/ Fail(p)
  PROVE  IndInv'
<1>1. req[p] # NULL /\ StageOf(req[p]) /\ req[p] \in Upload /\ lost \subseteq used
  BY DEF Refuse, Fail, Serving, IndInv, Stages, AvatarTypeOK, OwnRow
<1>2. req' \in [Procs -> Upload \cup {NULL}] /\ req'[p] = NULL
      /\ \A q \in Procs : q # p => req'[q] = req[q]
  BY Replies DEF Refuse, Fail, IndInv
<1>3. CASE Refuse(p)
  BY <1>1, <1>2, <1>3, Harmless DEF Refuse, Serving, IndInv, AvatarTypeOK
<1>4. CASE Fail(p)
  <2>1. disturbed' \subseteq Users
    BY <1>1, <1>4 DEF Fail, IndInv, AvatarTypeOK, Upload
  <2>2. /\ lost \subseteq lost' /\ lost' \subseteq used
        /\ \A n \in lost' \ lost : n = req[p].old
        /\ req[p].at \in {"removeThumb", "update"} /\ req[p].old # NULL => req[p].old \in lost'
    BY <1>1, <1>4 DEF Fail, StageOf
  <2> QED
    BY <1>1, <1>2, <1>4, <2>1, <2>2, Harmless DEF Fail, IndInv, AvatarTypeOK
<1> QED
  BY <1>3, <1>4

\* The files of the old name go: the request says that it is being replaced,
\* and no other upload has written them.
LEMMA RemovesTyped ==
  ASSUME IndInv, NEW p \in Procs, RemoveOriginal(p) \/ RemoveThumb(p)
  PROVE  IndInv'
<1>1. AvatarTypeOK /\ req[p] # NULL /\ StageOf(req[p]) /\ req[p] \in Upload
      /\ req[p].at \in {"removeOriginal", "removeThumb"}
  BY DEF RemoveOriginal, RemoveThumb, Serving, IndInv, Stages, AvatarTypeOK
<1>2. PICK at \in {"removeThumb", "update"} : Goto(p, at)
  BY DEF RemoveOriginal, RemoveThumb
<1>3. req' \in [Procs -> Upload \cup {NULL}] /\ req'[p] # NULL /\ req'[p].at = at
      /\ req'[p].user = req[p].user /\ req'[p].old = req[p].old /\ req'[p].name = req[p].name
      /\ \A q \in Procs : q # p => req'[q] = req[q]
  BY <1>1, <1>2, MovesOn
<1>4. UNCHANGED <<members, rows, used, lost, disturbed>>
  BY DEF RemoveOriginal, RemoveThumb
<1>5. /\ files' \subseteq files
      /\ \A n, kind : n # req[p].old /\ File(n, kind) \in files => File(n, kind) \in files'
  BY FileFacts DEF RemoveOriginal, RemoveThumb, oldThumb
<1>6. AvatarTypeOK'
  BY <1>1, <1>3, <1>4, <1>5 DEF AvatarTypeOK
<1>7. ASSUME NEW q \in Procs, req'[q] # NULL PROVE StageOf(req[q])'
  <2>1. req[q] # NULL /\ StageOf(req[q]) /\ req'[q].name = req[q].name
        /\ req'[q].old = req[q].old /\ req'[q].user = req[q].user
    BY <1>1, <1>3, <1>7 DEF IndInv, Stages
  <2>2. req[q].at # "validate" => req[q].name # NULL
    BY <2>1, <1>1, AvatarAssumption DEF StageOf, AvatarTypeOK
  <2>3. req[q].at # "validate" => req[q].name # req[p].old
    BY <1>1, <2>1, <2>2 DEF IndInv, OwnName
  <2>4. CASE q = p
    BY <1>1, <1>3, <1>4, <1>5, <2>1, <2>3, <2>4 DEF StageOf
  <2>5. CASE q # p
    BY <1>3, <1>4, <1>5, <2>1, <2>3, <2>5 DEF StageOf
  <2> QED
    BY <2>4, <2>5
<1>8. OwnName' /\ NotPublished' /\ OwnRow'
  BY <1>1, <1>3, <1>4 DEF IndInv, OwnName, NotPublished, OwnRow
<1>9. ASSUME NEW u \in Users, rows[u] # NULL, rows[u] \notin lost, ~BeingReplaced(rows[u])'
      PROVE  Complete(rows[u])'
  <2>1. rows[u] # req[p].old
    BY <1>3, <1>4, <1>9 DEF BeingReplaced
  <2>2. ~BeingReplaced(rows[u])
    BY <1>3, <1>4, <1>9, <2>1 DEF BeingReplaced
  <2>3. Complete(rows[u])
    BY <1>9, <2>2 DEF IndInv, PictureKept
  <2> QED
    BY <1>4, <1>5, <2>1, <2>3 DEF Complete
<1>10. Stages' /\ PictureKept'
  BY <1>4, <1>7, <1>9 DEF Stages, PictureKept
<1> QED
  BY <1>6, <1>8, <1>10 DEF IndInv

LEMMA ArriveTyped ==
  ASSUME IndInv, NEW p \in Procs, NEW u \in Users, Arrive(p, u)
  PROVE  IndInv'
<1> DEFINE r == [user |-> u, old |-> rows[u], name |-> NULL, at |-> "validate"]
<1>1. r \in Upload /\ r.user = u /\ r.old = rows[u] /\ r.name = NULL /\ r.at = "validate"
  BY DEF Upload, IndInv, AvatarTypeOK
<1>2. r # NULL
  BY <1>1, AvatarAssumption
<1>3. req' = [req EXCEPT ![p] = r] /\ UNCHANGED <<members, rows, files, used, lost>>
  BY DEF Arrive
<1> HIDE DEF r
<1>4. req' \in [Procs -> Upload \cup {NULL}] /\ req'[p] = r
      /\ \A q \in Procs : q # p => req'[q] = req[q]
  BY <1>1, <1>3 DEF IndInv, AvatarTypeOK
<1>5. AvatarTypeOK'
  BY <1>3, <1>4 DEF Arrive, IndInv, AvatarTypeOK
<1>6. ASSUME NEW q \in Procs, req'[q] # NULL PROVE StageOf(req[q])'
  <2>1. CASE q = p
    BY <1>1, <1>3, <1>4, <2>1 DEF StageOf, IndInv, OwnRow
  <2>2. CASE q # p
    BY <1>3, <1>4, <1>6, <2>2 DEF StageOf, IndInv, Stages
  <2> QED
    BY <2>1, <2>2
<1>7. OwnName'
  BY <1>1, <1>3, <1>4 DEF IndInv, OwnName, NotPublished
<1>8. NotPublished' /\ OwnRow'
  BY <1>1, <1>3, <1>4 DEF IndInv, NotPublished, OwnRow
<1>9. ASSUME NEW v \in Users, rows[v] # NULL, rows[v] \notin lost, ~BeingReplaced(rows[v])'
      PROVE  Complete(rows[v])'
  <2>1. ~BeingReplaced(rows[v])
    BY <1>3, <1>4, <1>9 DEF BeingReplaced, Arrive
  <2> QED
    BY <1>3, <1>9, <2>1 DEF IndInv, PictureKept, Complete
<1>10. Stages' /\ PictureKept'
  BY <1>3, <1>6, <1>9 DEF Stages, PictureKept
<1> QED
  BY <1>5, <1>7, <1>8, <1>10 DEF IndInv

\* The new name was not used: nobody has it.
LEMMA AcceptTyped ==
  ASSUME IndInv, NEW p \in Procs, Accept(p)
  PROVE  IndInv'
<1>1. AvatarTypeOK /\ req[p] # NULL /\ StageOf(req[p]) /\ req[p] \in Upload
      /\ req[p].at = "validate"
  BY DEF Accept, Serving, IndInv, Stages, AvatarTypeOK
<1>2. PICK n \in randomBasename(req[p].user) :
        /\ used' = used \cup {n}
        /\ req'  = [req EXCEPT ![p] = [req[p] EXCEPT !.name = n, !.at = "original"]]
  BY DEF Accept
<1>3. n \in Names /\ n.user = req[p].user /\ n \notin used /\ n # NULL
  BY <1>1, AvatarAssumption DEF randomBasename, Names, Upload
<1> DEFINE r == [req[p] EXCEPT !.name = n, !.at = "original"]
<1>4. r \in Upload /\ r.user = req[p].user /\ r.old = req[p].old /\ r.name = n
      /\ r.at = "original"
  BY <1>1, <1>3 DEF Upload
<1>5. r # NULL
  BY <1>4, AvatarAssumption
<1>6. UNCHANGED <<members, rows, files, lost, disturbed>>
  BY DEF Accept
<1> HIDE DEF r
<1>7. req' \in [Procs -> Upload \cup {NULL}] /\ req'[p] = r
      /\ \A q \in Procs : q # p => req'[q] = req[q]
  BY <1>1, <1>2, <1>4 DEF AvatarTypeOK, r
<1>8. AvatarTypeOK'
  BY <1>1, <1>2, <1>3, <1>6, <1>7 DEF AvatarTypeOK
<1>9. ASSUME NEW q \in Procs, req'[q] # NULL PROVE StageOf(req[q])'
  <2>1. CASE q = p
    BY <1>1, <1>2, <1>3, <1>4, <1>7, <2>1 DEF StageOf
  <2>2. CASE q # p
    BY <1>2, <1>6, <1>7, <1>9, <2>2 DEF StageOf, IndInv, Stages
  <2> QED
    BY <2>1, <2>2
<1>10. \A q \in Procs : req[q] # NULL => req[q].old # n /\ req[q].name # n
  BY <1>3 DEF IndInv, Stages, StageOf
<1>11. OwnName'
  BY <1>1, <1>4, <1>7, <1>10 DEF IndInv, OwnName
<1>12. \A u \in Users : rows[u] # n /\ n \notin lost
  BY <1>3 DEF IndInv, OwnRow
<1>13. NotPublished' /\ OwnRow'
  BY <1>2, <1>4, <1>6, <1>7, <1>12 DEF IndInv, NotPublished, OwnRow
<1>14. ASSUME NEW u \in Users, rows[u] # NULL, rows[u] \notin lost, ~BeingReplaced(rows[u])'
       PROVE  Complete(rows[u])'
  <2>1. ~BeingReplaced(rows[u])
    BY <1>1, <1>6, <1>7, <1>14 DEF BeingReplaced
  <2> QED
    BY <1>6, <1>14, <2>1 DEF IndInv, PictureKept, Complete
<1>15. Stages' /\ PictureKept'
  BY <1>6, <1>9, <1>14 DEF Stages, PictureKept
<1> QED
  BY <1>8, <1>11, <1>13, <1>15 DEF IndInv

\* The row comes to name two files that are there, and that nobody removes yet.
LEMMA UpdateTyped ==
  ASSUME IndInv, NEW p \in Procs, Update(p)
  PROVE  IndInv'
<1> DEFINE u == req[p].user
           n == req[p].name
<1>1. AvatarTypeOK /\ req[p] # NULL /\ StageOf(req[p]) /\ req[p] \in Upload
      /\ req[p].at = "update"
  BY DEF Update, Serving, IndInv, Stages, AvatarTypeOK
<1>2. u \in Users /\ n \in used /\ n \in Names /\ n.user = u /\ n # NULL /\ Complete(n)
  BY <1>1, AvatarAssumption DEF StageOf, Upload, AvatarTypeOK, Complete
<1>3. req' \in [Procs -> Upload \cup {NULL}] /\ req'[p] = NULL
      /\ \A q \in Procs : q # p => req'[q] = req[q]
  BY <1>1, Replies DEF Update
<1>4. UNCHANGED <<members, files, used, lost, disturbed>>
  BY DEF Update
<1>5. /\ rows'[u] = IF u \in members THEN n ELSE rows[u]
      /\ \A v \in Users : v # u => rows'[v] = rows[v]
      /\ rows' \in [Users -> Names \cup {NULL}]
  BY <1>1, <1>2 DEF Update, UpdateAvatar, AvatarTypeOK
<1>6. AvatarTypeOK'
  BY <1>1, <1>2, <1>3, <1>4, <1>5 DEF AvatarTypeOK
<1>7. Stages'
  BY <1>3, <1>4 DEF IndInv, Stages, StageOf
<1>8. OwnName'
  BY <1>3 DEF IndInv, OwnName
<1>9. \A q \in Procs : q # p /\ req[q] # NULL => req[q].old # n /\ req[q].name # n
  BY <1>1, <1>2 DEF IndInv, OwnName
<1>10. NotPublished' /\ OwnRow'
  BY <1>2, <1>3, <1>4, <1>5, <1>9 DEF IndInv, NotPublished, OwnRow
<1>11. ASSUME NEW v \in Users, rows'[v] # NULL, rows'[v] \notin lost, ~BeingReplaced(rows[v])'
       PROVE  Complete(rows[v])'
  <2>1. CASE rows'[v] = n
    BY <1>2, <1>4, <2>1 DEF Complete
  <2>2. CASE rows'[v] # n
    <3>1. rows'[v] = rows[v]
      BY <1>5, <2>2
    <3>2. req[p].old # rows[v]
      <4>1. SUFFICES ASSUME req[p].old = rows[v] PROVE FALSE
        OBVIOUS
      <4>2. v = u
        BY <1>1, <1>11, <3>1, <4>1 DEF StageOf, IndInv, OwnRow
      <4>3. rows[v] = NULL
        BY <1>1, <1>2, <1>5, <2>2, <4>2 DEF AvatarTypeOK
      <4> QED
        BY <1>11, <3>1, <4>3
    <3>3. ~BeingReplaced(rows[v])
      BY <1>3, <1>11, <3>1, <3>2 DEF BeingReplaced
    <3>4. Complete(rows[v])
      BY <1>11, <3>1, <3>3 DEF IndInv, PictureKept
    <3> QED
      BY <1>4, <3>1, <3>4 DEF Complete
  <2> QED
    BY <2>1, <2>2
<1>12. PictureKept'
  BY <1>4, <1>11 DEF PictureKept
<1> QED
  BY <1>6, <1>7, <1>8, <1>10, <1>12 DEF IndInv

LEMMA DeleteUserTyped ==
  ASSUME IndInv, NEW u \in members, DeleteUser(u)
  PROVE  IndInv'
<1>1. u \in Users /\ AvatarTypeOK
  BY DEF IndInv, AvatarTypeOK
<1>2. /\ rows'[u] = NULL /\ \A v \in Users : v # u => rows'[v] = rows[v]
      /\ rows' \in [Users -> Names \cup {NULL}]
      /\ members' = members \ {u} /\ disturbed' = disturbed \cup {u}
      /\ UNCHANGED <<files, used, req, lost>>
  BY <1>1 DEF DeleteUser, AvatarTypeOK
<1>3. AvatarTypeOK'
  BY <1>1, <1>2 DEF AvatarTypeOK
<1>4. Stages' /\ OwnName'
  BY <1>2 DEF IndInv, Stages, StageOf, OwnName
<1>5. NotPublished' /\ OwnRow'
  BY <1>2 DEF IndInv, NotPublished, OwnRow
<1>6. ASSUME NEW v \in Users, rows'[v] # NULL, rows'[v] \notin lost, ~BeingReplaced(rows[v])'
      PROVE  Complete(rows[v])'
  <2>1. rows'[v] = rows[v]
    BY <1>2, <1>6
  <2>2. ~BeingReplaced(rows[v])
    BY <1>2, <1>6, <2>1 DEF BeingReplaced
  <2> QED
    BY <1>2, <1>6, <2>1, <2>2 DEF IndInv, PictureKept, Complete
<1>7. PictureKept'
  BY <1>2, <1>6 DEF PictureKept
<1> QED
  BY <1>3, <1>4, <1>5, <1>7 DEF IndInv

LEMMA InitTyped ==
  ASSUME Init
  PROVE  IndInv
BY DEF Init, IndInv, AvatarTypeOK, Stages, OwnName, NotPublished, OwnRow, PictureKept

LEMMA StepTyped ==
  ASSUME IndInv, [Next]_vars
  PROVE  IndInv'
<1>1. CASE UNCHANGED vars
  BY <1>1 DEF vars, IndInv, AvatarTypeOK, Stages, StageOf, OwnName, NotPublished, OwnRow,
     PictureKept, BeingReplaced, Complete
<1>2. ASSUME NEW p \in Procs, Serve(p) \/ Fail(p) PROVE IndInv'
  BY <1>2, SavesTyped, EndsTyped, RemovesTyped, AcceptTyped, UpdateTyped DEF Serve
<1> QED
  BY <1>1, <1>2, ArriveTyped, DeleteUserTyped DEF Next

\* Rows and locals are typed, and an account that is gone has no picture,
\* whatever its uploads still do (UpdateAvatar).
THEOREM AvatarTypeCorrect == Spec => []AvatarTypeOK
<1>1. Init => IndInv
  BY InitTyped
<1>2. IndInv /\ [Next]_vars => IndInv'
  BY StepTyped
<1>3. IndInv => AvatarTypeOK
  BY DEF IndInv
<1> QED
  BY <1>1, <1>2, <1>3, PTL DEF Spec

\* However uploads of a user interleave, the row names a picture whose files
\* are there, unless an upload failed, or is about to go on, between removing
\* them and its UPDATE (UploadPicture).
THEOREM PicturesStayOnDisk == Spec => []PictureOnDisk
<1>1. Init => IndInv
  BY InitTyped
<1>2. IndInv /\ [Next]_vars => IndInv'
  BY StepTyped
<1>3. IndInv => PictureOnDisk
  BY DEF IndInv, PictureKept, PictureOnDisk, Complete, FilesOf, Kinds
<1> QED
  BY <1>1, <1>2, <1>3, PTL DEF Spec

-----------------------------------------------------------------------------
(***************************************************************************)
(* What is left behind.                                                    *)
(***************************************************************************)

\* The files that are there while an upload is served that nothing disturbed.
Holds(n, kind, r) ==
  \/ n = r.name /\ r.at \notin {"validate", "original"} /\ (kind = "thumb" => r.at # "thumb")
  \/ n = r.old /\ r.at # "update" /\ (kind = "original" => r.at # "removeThumb")

TidyUser(u) ==
  /\ u \in members
  /\ \A p, q \in Busy(u) : p = q
  /\ Busy(u) = {} =>
       \A n \in Names, kind \in Kinds : n.user = u => (File(n, kind) \in files <=> n = rows[u])
  /\ \A p \in Busy(u) :
       /\ req[p].old = rows[u]
       /\ \A n \in Names, kind \in Kinds :
            n.user = u => (File(n, kind) \in files <=> Holds(n, kind, req[p]))

Tidy == \A u \in Users \ disturbed : TidyUser(u)

\* A step that does not concern a user.
LEMMA TidyElsewhere ==
  ASSUME NEW u \in Users, TidyUser(u), Busy(u)' = Busy(u), \A q \in Busy(u) : req'[q] = req[q],
         u \in members', rows'[u] = rows[u],
         \A n \in Names, kind \in Kinds :
           n.user = u => (File(n, kind) \in files' <=> File(n, kind) \in files)
  PROVE  TidyUser(u)'
BY DEF TidyUser, Holds

\* A step of an upload.
LEMMA TidyMoves ==
  ASSUME Tidy, NEW p \in Procs, req[p] # NULL, req'[p] # NULL, req[p].user \in Users,
         req'[p].user = req[p].user, req'[p].old = req[p].old,
         \A q \in Procs : q # p => req'[q] = req[q],
         UNCHANGED <<members, rows>>, disturbed \subseteq disturbed',
         \A n \in Names, kind \in Kinds :
           n.user # req[p].user => (File(n, kind) \in files' <=> File(n, kind) \in files),
         req[p].user \notin disturbed' =>
           \A n \in Names, kind \in Kinds :
             n.user = req[p].user => (File(n, kind) \in files' <=> Holds(n, kind, req[p])')
  PROVE  Tidy'
<1>1. \A u \in Users : Busy(u)' = Busy(u)
  BY DEF Busy
<1>2. ASSUME NEW u \in Users \ disturbed', u # req[p].user PROVE TidyUser(u)'
  <2>1. \A q \in Busy(u) : req'[q] = req[q]
    BY <1>2 DEF Busy
  <2> QED
    BY <1>1, <1>2, <2>1, TidyElsewhere DEF Tidy, TidyUser
<1>3. ASSUME req[p].user \notin disturbed' PROVE TidyUser(req[p].user)'
  <2> DEFINE w == req[p].user
  <2>1. TidyUser(w) /\ p \in Busy(w)
    BY <1>3 DEF Tidy, Busy
  <2>2. w \in members' /\ \A q \in Busy(w) : q = p
    BY <2>1 DEF TidyUser
  <2>3. req'[p].old = rows'[w]
    BY <2>1 DEF TidyUser
  <2>4. req'[p].user = w
    OBVIOUS
  <2> HIDE DEF w
  <2>5. TidyUser(w)'
    BY <1>1, <1>3, <2>1, <2>2, <2>3, <2>4 DEF TidyUser, w
  <2> QED
    BY <2>5, <2>4 DEF w
<1> QED
  BY <1>2, <1>3 DEF Tidy

LEMMA MovesTidy ==
  ASSUME IndInv, Tidy, NEW p \in Procs,
         Accept(p) \/ WriteOriginal(p) \/ WriteThumb(p) \/ RemoveOriginal(p) \/ RemoveThumb(p)
           \/ KeepOriginal(p) \/ KeepThumb(p)
  PROVE  Tidy'
<1> USE DEF Kinds
<1> DEFINE r == req[p]
           w == req[p].user
<1>1. AvatarTypeOK /\ r # NULL /\ StageOf(r) /\ r \in Upload /\ w \in Users
  BY DEF Accept, WriteOriginal, WriteThumb, RemoveOriginal, RemoveThumb, KeepOriginal, KeepThumb,
     Serving, IndInv, Stages, AvatarTypeOK, Upload
<1>2. r.name # NULL => r.old # r.name
  BY <1>1 DEF IndInv, OwnName
<1>3. w \notin disturbed =>
        \A n \in Names, kind \in Kinds : n.user = w => (File(n, kind) \in files <=> Holds(n, kind, r))
  BY <1>1 DEF Tidy, TidyUser, Busy
<1>4. r.at # "validate" => r.name # NULL
  BY <1>1, AvatarAssumption DEF StageOf, AvatarTypeOK
<1>5. CASE Accept(p)
  <2>1. PICK n \in randomBasename(w) :
          req' = [req EXCEPT ![p] = [req[p] EXCEPT !.name = n, !.at = "original"]]
    BY <1>5 DEF Accept
  <2> DEFINE t == [req[p] EXCEPT !.name = n, !.at = "original"]
  <2>2. n \in Names
    BY <1>1, <2>1 DEF randomBasename, Names
  <2>3. t \in Upload /\ t.user = w /\ t.old = r.old /\ t.at = "original"
    BY <1>1, <2>2 DEF Upload
  <2>4. t # NULL
    BY <2>3, AvatarAssumption
  <2> HIDE DEF t
  <2>5. req'[p] = t /\ \A q \in Procs : q # p => req'[q] = req[q]
    BY <1>1, <2>1 DEF AvatarTypeOK, t
  <2>6. UNCHANGED <<members, rows, files, disturbed>> /\ r.at = "validate"
    BY <1>5 DEF Accept, Serving
  <2>7. \A m \in Names, kind \in Kinds : Holds(m, kind, r) <=> Holds(m, kind, req[p])'
    BY <2>3, <2>5, <2>6 DEF Holds
  <2>8. w \notin disturbed' =>
          \A m \in Names, kind \in Kinds :
            m.user = w => (File(m, kind) \in files' <=> Holds(m, kind, req[p])')
    BY <1>3, <2>6, <2>7
  <2> QED
    BY <1>1, <2>3, <2>4, <2>5, <2>6, <2>8, TidyMoves
<1>6. ASSUME NEW at \in {"thumb", "removeOriginal", "removeThumb", "update"}, Goto(p, at),
             UNCHANGED <<members, rows>>, disturbed \subseteq disturbed',
             \A n \in Names, kind \in Kinds :
               n.user # w => (File(n, kind) \in files' <=> File(n, kind) \in files),
             req'[p].at = at /\ req'[p].old = r.old /\ req'[p].name = r.name =>
               (w \notin disturbed' =>
                  \A n \in Names, kind \in Kinds :
                    n.user = w => (File(n, kind) \in files' <=> Holds(n, kind, req[p])'))
      PROVE  Tidy'
  <2>1. /\ req'[p] # NULL /\ req'[p].at = at /\ req'[p].user = w
        /\ req'[p].old = r.old /\ req'[p].name = r.name
        /\ \A q \in Procs : q # p => req'[q] = req[q]
    BY <1>1, <1>6, MovesOn
  <2> QED
    BY <1>1, <1>6, <2>1, TidyMoves
<1>7. CASE WriteOriginal(p)
  <2>1. /\ r.at = "original" /\ Goto(p, "thumb") /\ UNCHANGED <<members, rows, disturbed>>
        /\ \A n, kind : File(n, kind) \in files' <=>
             File(n, kind) \in files \/ (n = r.name /\ kind = "original")
    BY <1>7, FileFacts DEF WriteOriginal, Serving
  <2>2. r.name.user = w
    BY <1>1, <2>1 DEF StageOf
  <2>3. \A n \in Names, kind \in Kinds :
          n.user # w => (File(n, kind) \in files' <=> File(n, kind) \in files)
    BY <2>1, <2>2
  <2>4. ASSUME req'[p].at = "thumb", req'[p].old = r.old, req'[p].name = r.name,
               w \notin disturbed', NEW n \in Names, NEW kind \in Kinds, n.user = w
        PROVE  File(n, kind) \in files' <=> Holds(n, kind, req[p])'
    BY <1>2, <1>3, <1>4, <2>1, <2>4 DEF Holds
  <2> QED
    BY <1>6, <2>1, <2>3, <2>4
<1>8. CASE WriteThumb(p)
  <2> DEFINE at == IF r.old = NULL THEN "update" ELSE "removeOriginal"
  <2>1. /\ r.at = "thumb" /\ Goto(p, at) /\ UNCHANGED <<members, rows, disturbed>>
        /\ \A n, kind : File(n, kind) \in files' <=>
             File(n, kind) \in files \/ (n = r.name /\ kind = "thumb")
    BY <1>8, FileFacts DEF WriteThumb, Serving
  <2>2. r.name.user = w
    BY <1>1, <2>1 DEF StageOf
  <2>3. \A n \in Names, kind \in Kinds :
          n.user # w => (File(n, kind) \in files' <=> File(n, kind) \in files)
    BY <2>1, <2>2
  <2>4. ASSUME req'[p].at = at, req'[p].old = r.old, req'[p].name = r.name,
               w \notin disturbed', NEW n \in Names, NEW kind \in Kinds, n.user = w
        PROVE  File(n, kind) \in files' <=> Holds(n, kind, req[p])'
    BY <1>2, <1>3, <1>4, <2>1, <2>4, AvatarAssumption DEF Holds
  <2> QED
    BY <1>6, <2>1, <2>3, <2>4
<1>9. CASE RemoveOriginal(p)
  <2>1. /\ r.at = "removeOriginal" /\ Goto(p, "removeThumb")
        /\ UNCHANGED <<members, rows, disturbed>>
        /\ \A n, kind : File(n, kind) \in files' <=>
             File(n, kind) \in files /\ ~(n = r.old /\ kind = "original")
    BY <1>9, FileFacts DEF RemoveOriginal, Serving
  <2>2. r.old.user = w
    BY <1>1, <2>1 DEF StageOf
  <2>3. \A n \in Names, kind \in Kinds :
          n.user # w => (File(n, kind) \in files' <=> File(n, kind) \in files)
    BY <2>1, <2>2
  <2>4. ASSUME req'[p].at = "removeThumb", req'[p].old = r.old, req'[p].name = r.name,
               w \notin disturbed', NEW n \in Names, NEW kind \in Kinds, n.user = w
        PROVE  File(n, kind) \in files' <=> Holds(n, kind, req[p])'
    BY <1>2, <1>3, <1>4, <2>1, <2>4 DEF Holds
  <2> QED
    BY <1>6, <2>1, <2>3, <2>4
<1>10. CASE RemoveThumb(p)
  <2>1. /\ r.at = "removeThumb" /\ Goto(p, "update") /\ UNCHANGED <<members, rows, disturbed>>
        /\ \A n, kind : File(n, kind) \in files' <=>
             File(n, kind) \in files /\ ~(n = r.old /\ kind = "thumb")
    BY <1>10, FileFacts DEF RemoveThumb, oldThumb, Serving
  <2>2. r.old.user = w
    BY <1>1, <2>1 DEF StageOf
  <2>3. \A n \in Names, kind \in Kinds :
          n.user # w => (File(n, kind) \in files' <=> File(n, kind) \in files)
    BY <2>1, <2>2
  <2>4. ASSUME req'[p].at = "update", req'[p].old = r.old, req'[p].name = r.name,
               w \notin disturbed', NEW n \in Names, NEW kind \in Kinds, n.user = w
        PROVE  File(n, kind) \in files' <=> Holds(n, kind, req[p])'
    BY <1>2, <1>3, <1>4, <2>1, <2>4 DEF Holds
  <2> QED
    BY <1>6, <2>1, <2>3, <2>4
<1>11. CASE KeepOriginal(p) \/ KeepThumb(p)
  <2>1. PICK at \in {"removeThumb", "update"} : Goto(p, at)
    BY <1>11 DEF KeepOriginal, KeepThumb
  <2>2. UNCHANGED <<members, rows, files>> /\ disturbed' = disturbed \cup {w}
    BY <1>11 DEF KeepOriginal, KeepThumb
  <2> QED
    BY <1>6, <2>1, <2>2
<1> QED
  BY <1>5, <1>7, <1>8, <1>9, <1>10, <1>11

\* An upload ends.
LEMMA EndsTidy ==
  ASSUME IndInv, Tidy, NEW p \in Procs, Refuse(p) \/ Fail(p) \/ Update(p)
  PROVE  Tidy'
<1> USE DEF Kinds
<1>0. PICK w \in Users : w = req[p].user
  BY DEF Refuse, Fail, Update, Serving, IndInv, AvatarTypeOK, Upload
<1>1. AvatarTypeOK /\ req[p] # NULL /\ StageOf(req[p]) /\ req[p] \in Upload /\ w = req[p].user
  BY <1>0 DEF Refuse, Fail, Update, Serving, IndInv, Stages, AvatarTypeOK, Upload
<1>2. req'[p] = NULL /\ \A q \in Procs : q # p => req'[q] = req[q]
  BY <1>1, Replies DEF Refuse, Fail, Update
<1>3. UNCHANGED <<members, files>> /\ disturbed \subseteq disturbed'
      /\ \A u \in Users : u # w => rows'[u] = rows[u]
  BY <1>1 DEF Refuse, Fail, Update, UpdateAvatar, AvatarTypeOK
<1>4. ASSUME NEW u \in Users \ disturbed', u # w PROVE TidyUser(u)'
  <2>1. Busy(u)' = Busy(u) /\ \A q \in Busy(u) : req'[q] = req[q]
    BY <1>1, <1>2, <1>4 DEF Busy
  <2> QED
    BY <1>3, <1>4, <2>1, TidyElsewhere DEF Tidy, TidyUser
<1>5. ASSUME w \notin disturbed' PROVE TidyUser(w)'
  <2>1. TidyUser(w) /\ p \in Busy(w)
    BY <1>1, <1>3, <1>5 DEF Tidy, Busy
  <2>2. Busy(w)' = {}
    BY <1>1, <1>2, <2>1 DEF TidyUser, Busy
  <2>3. /\ req[p].old = rows[w]
        /\ \A n \in Names, kind \in Kinds :
             n.user = w => (File(n, kind) \in files <=> Holds(n, kind, req[p]))
    BY <2>1 DEF TidyUser
  <2>4. \A n \in Names, kind \in Kinds : n.user = w => (File(n, kind) \in files <=> n = rows'[w])
    <3>1. CASE req[p].at = "validate" /\ rows' = rows
      BY <1>1, <2>3, <3>1 DEF Holds, StageOf
    <3>2. CASE Update(p)
      <4>1. rows'[w] = req[p].name /\ req[p].at = "update"
        BY <1>1, <2>1, <3>2 DEF Update, Serving, UpdateAvatar, TidyUser, AvatarTypeOK
      <4> QED
        BY <2>3, <4>1 DEF Holds
    <3> QED
      BY <1>1, <1>5, <3>1, <3>2 DEF Refuse, Fail, Serving
  <2>5. w \in members'
    BY <1>3, <2>1 DEF TidyUser
  <2> QED
    BY <1>3, <2>2, <2>4, <2>5 DEF TidyUser
<1> QED
  BY <1>4, <1>5 DEF Tidy

LEMMA ArriveTidy ==
  ASSUME IndInv, Tidy, NEW p \in Procs, NEW w \in Users, Arrive(p, w)
  PROVE  Tidy'
<1> DEFINE r == [user |-> w, old |-> rows[w], name |-> NULL, at |-> "validate"]
<1>1. r \in Upload /\ r.user = w /\ r.old = rows[w] /\ r.name = NULL /\ r.at = "validate"
  BY DEF Upload, IndInv, AvatarTypeOK
<1>2. r # NULL
  BY <1>1, AvatarAssumption
<1>3. req[p] = NULL /\ req' = [req EXCEPT ![p] = r] /\ UNCHANGED <<members, rows, files>>
      /\ disturbed \subseteq disturbed' /\ w \in members
  BY DEF Arrive
<1> HIDE DEF r
<1>4. req'[p] = r /\ \A q \in Procs : q # p => req'[q] = req[q]
  BY <1>3 DEF IndInv, AvatarTypeOK
<1>5. ASSUME NEW u \in Users \ disturbed', u # w PROVE TidyUser(u)'
  <2>1. Busy(u)' = Busy(u) /\ \A q \in Busy(u) : req'[q] = req[q]
    BY <1>1, <1>2, <1>3, <1>4, <1>5 DEF Busy
  <2> QED
    BY <1>3, <1>5, <2>1, TidyElsewhere DEF Tidy, TidyUser
<1>6. ASSUME w \notin disturbed' PROVE TidyUser(w)'
  <2>1. TidyUser(w) /\ Busy(w) = {}
    BY <1>3, <1>6 DEF Tidy, Arrive
  <2>2. Busy(w)' = {p}
    BY <1>1, <1>2, <1>4, <2>1 DEF Busy
  <2>3. \A n \in Names, kind \in Kinds : n.user = w => (File(n, kind) \in files <=> n = rows[w])
    BY <2>1 DEF TidyUser
  <2>4. \A n \in Names, kind \in Kinds : n.user = w => (File(n, kind) \in files <=> Holds(n, kind, r))
    BY <1>1, <2>3 DEF Holds
  <2> QED
    BY <1>1, <1>3, <1>4, <2>2, <2>4 DEF TidyUser, Holds
<1> QED
  BY <1>5, <1>6 DEF Tidy

LEMMA DeleteUserTidy ==
  ASSUME IndInv, Tidy, NEW w \in members, DeleteUser(w)
  PROVE  Tidy'
<1>1. w \in Users /\ AvatarTypeOK
  BY DEF IndInv, AvatarTypeOK
<1>2. ASSUME NEW u \in Users \ disturbed' PROVE TidyUser(u)'
  <2>1. u # w /\ TidyUser(u) /\ rows'[u] = rows[u] /\ u \in members'
    BY <1>1, <1>2 DEF DeleteUser, Tidy, TidyUser, AvatarTypeOK
  <2>2. Busy(u)' = Busy(u)
    BY DEF DeleteUser, Busy
  <2> QED
    BY <2>1, <2>2, TidyElsewhere DEF DeleteUser, Busy
<1> QED
  BY <1>2 DEF Tidy

LEMMA StepTidy ==
  ASSUME IndInv, Tidy, [Next]_vars
  PROVE  Tidy'
<1>1. CASE UNCHANGED vars
  BY <1>1 DEF vars, Tidy, TidyUser, Busy, Holds
<1>2. ASSUME NEW p \in Procs, Serve(p) \/ Fail(p) PROVE Tidy'
  BY <1>2, MovesTidy, EndsTidy DEF Serve
<1> QED
  BY <1>1, <1>2, ArriveTidy, DeleteUserTidy DEF Next

\* A user whose uploads came one after another and all succeeded has the files
\* of the present picture in the directory, and no others (UploadPicture).
THEOREM UploadsLeaveNothingBehind == Spec => []NothingLeftBehind
<1>1. Init => IndInv /\ Tidy
  <2>1. Init => Tidy
    BY AvatarAssumption DEF Init, Tidy, TidyUser, Busy
  <2> QED
    BY <2>1, InitTyped
<1>2. IndInv /\ Tidy /\ [Next]_vars => IndInv' /\ Tidy'
  BY StepTyped, StepTidy
<1>3. IndInv /\ Tidy => NothingLeftBehind
  <2> SUFFICES ASSUME IndInv, Tidy, NEW u \in Users \ disturbed, Busy(u) = {}
               PROVE  {f \in files : f.name.user = u} = FilesOf(rows[u])
    BY DEF NothingLeftBehind
  <2>1. \A n \in Names, kind \in Kinds : n.user = u => (File(n, kind) \in files <=> n = rows[u])
    BY DEF Tidy, TidyUser
  <2>2. ASSUME NEW f \in files, f.name.user = u PROVE f \in FilesOf(rows[u])
    <3>1. f \in Files
      BY DEF IndInv, AvatarTypeOK
    <3>2. f.name \in Names /\ f.kind \in Kinds /\ f = File(f.name, f.kind)
      BY <3>1 DEF Files, File
    <3>3. f.name = rows[u] /\ rows[u] # NULL
      BY <2>1, <2>2, <3>2, AvatarAssumption
    <3> QED
      BY <3>2, <3>3 DEF FilesOf
  <2>3. ASSUME NEW f \in FilesOf(rows[u]) PROVE f \in files /\ f.name.user = u
    <3>1. rows[u] # NULL
      BY <2>3 DEF FilesOf
    <3>2. rows[u] \in Names /\ rows[u].user = u
      BY <3>1 DEF IndInv, AvatarTypeOK, OwnRow
    <3>3. PICK kind \in Kinds : f = File(rows[u], kind)
      BY <2>3, <3>1 DEF FilesOf
    <3>4. f.name = rows[u]
      BY <3>3 DEF File
    <3> QED
      BY <2>1, <3>2, <3>3, <3>4
  <2> QED
    BY <2>2, <2>3
<1> QED
  BY <1>1, <1>2, <1>3, PTL DEF Spec
=============================================================================
