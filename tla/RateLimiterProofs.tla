------------------------- MODULE RateLimiterProofs -------------------------
(***************************************************************************)
(* The rate limiter implements Meter, and keeps to the budget, for every   *)
(* number of clients and every limit, as long as a bucket fills up before  *)
(* it may be swept.                                                        *)
(***************************************************************************)
EXTENDS RateLimiter, TLAPS

\* In any stretch of time, what was spent and what is left was there at the
\* start or has come since.
Accounts ==
  window # NULL =>
    window.admitted * RefillPer + Refilled(window.key) <= Full + window.ticks

IndInv == LimiterTypeOK /\ Accounts

\* No client's credit changes.
Preserved == \A k \in Keys : Refilled(k)' = Refilled(k)

-----------------------------------------------------------------------------
(***************************************************************************)
(* Credits.                                                                *)
(***************************************************************************)
LEMMA Numbers ==
  /\ Full \in Nat /\ RefillPer \in Nat \ {0} /\ RefillPer <= Full
  /\ Idle \in Nat /\ Wait \in Nat /\ Span \in Nat /\ Every \in Nat \ {0}
  /\ Full <= Idle /\ Oldest = Idle + Wait + 1
  /\ NULL \notin Int
BY LimiterAssumption DEF Full, Oldest

LEMMA NoBucket == NULL \notin Bucket /\ NULL \notin [key : Keys, ticks : 0 .. Span, admitted : Nat]
BY LimiterAssumption, Numbers DEF Bucket

LEMMA RefilledTyped ==
  ASSUME LimiterTypeOK, NEW k \in Keys
  PROVE  /\ Refilled(k) \in 0 .. Full
         /\ buckets[k] # NULL =>
              /\ buckets[k] \in Bucket
              /\ Refilled(k) = minF(Full, buckets[k].tokens + buckets[k].age)
BY Numbers, NoBucket DEF LimiterTypeOK, Refilled, minF, Bucket

\* A client that is seen has the tokens that it is left with; others keep theirs.
LEMMA SeenCredit ==
  ASSUME LimiterTypeOK, NEW k \in Keys, NEW tokens \in 0 .. Full, NEW allowed \in BOOLEAN,
         Seen(k, tokens, allowed)
  PROVE  /\ buckets' \in [Keys -> Bucket \cup {NULL}]
         /\ Refilled(k)' = tokens
         /\ \A j \in Keys \ {k} : Refilled(j)' = Refilled(j)
<1> DEFINE b == [tokens |-> tokens, age |-> 0]
<1>1. b \in Bucket
  BY Numbers DEF Bucket
<1>2. b # NULL
  BY <1>1, NoBucket
<1>3. b.tokens = tokens /\ b.age = 0
  OBVIOUS
<1>4. buckets' = [buckets EXCEPT ![k] = b]
  BY DEF Seen
<1> HIDE DEF b
<1>5. buckets' \in [Keys -> Bucket \cup {NULL}]
  BY <1>1, <1>4 DEF LimiterTypeOK
<1>6. buckets'[k] = b /\ \A j \in Keys \ {k} : buckets'[j] = buckets[j]
  BY <1>4 DEF LimiterTypeOK
<1>7. Refilled(k)' = tokens
  BY <1>2, <1>3, <1>6, Numbers DEF Refilled, minF
<1>8. \A j \in Keys \ {k} : Refilled(j)' = Refilled(j)
  BY <1>6 DEF Refilled
<1> QED
  BY <1>5, <1>7, <1>8

LEMMA OlderBucket ==
  ASSUME NEW b \in Bucket
  PROVE  /\ Older(b) \in Bucket
         /\ minF(Full, Older(b).tokens + Older(b).age) =
              IF minF(Full, b.tokens + b.age) < Full
              THEN minF(Full, b.tokens + b.age) + 1 ELSE Full
<1>1. b.tokens \in 0 .. Full /\ b.age \in 0 .. Oldest
  BY DEF Bucket
<1>2. minF(b.age + 1, Oldest) \in 0 .. Oldest
  BY <1>1, Numbers DEF minF
<1>3. Older(b) = [tokens |-> b.tokens, age |-> minF(b.age + 1, Oldest)]
  BY DEF Older, Bucket
<1>4. Older(b) \in Bucket
  BY <1>1, <1>2, <1>3 DEF Bucket
<1> QED
  BY <1>1, <1>3, <1>4, Numbers DEF minF

\* With a tick, every credit that is not full rises by one.
LEMMA TickCredit ==
  ASSUME LimiterTypeOK, Tick
  PROVE  /\ buckets' \in [Keys -> Bucket \cup {NULL}]
         /\ \A k \in Keys :
              Refilled(k)' = IF Refilled(k) < Full THEN Refilled(k) + 1 ELSE Full
<1>1. \A k \in Keys : buckets'[k] = IF buckets[k] = NULL THEN NULL ELSE Older(buckets[k])
  BY DEF Tick
<1>2. \A k \in Keys : buckets[k] # NULL => Older(buckets[k]) \in Bucket
  BY RefilledTyped, OlderBucket
<1>3. buckets' \in [Keys -> Bucket \cup {NULL}]
  BY <1>2 DEF Tick
<1>4. ASSUME NEW k \in Keys
      PROVE  Refilled(k)' = IF Refilled(k) < Full THEN Refilled(k) + 1 ELSE Full
  <2>1. CASE buckets[k] = NULL
    BY <1>1, <2>1, Numbers DEF Refilled
  <2>2. CASE buckets[k] # NULL
    <3>1. buckets'[k] = Older(buckets[k]) /\ buckets'[k] # NULL /\ buckets[k] \in Bucket
      BY <1>1, <1>2, <2>2, NoBucket, RefilledTyped
    <3>2. Refilled(k) = minF(Full, buckets[k].tokens + buckets[k].age)
      BY <2>2 DEF Refilled
    <3>3. Refilled(k)' = minF(Full, Older(buckets[k]).tokens + Older(buckets[k]).age)
      BY <3>1 DEF Refilled
    <3> QED
      BY <3>1, <3>2, <3>3, OlderBucket
  <2> QED
    BY <2>1, <2>2
<1> QED
  BY <1>3, <1>4

\* Only buckets are swept that have filled up.
LEMMA SweepCredit ==
  ASSUME LimiterTypeOK, Sweep
  PROVE  buckets' \in [Keys -> Bucket \cup {NULL}] /\ Preserved
<1>1. cutoff \in Int /\ cutoff >= Full
  BY Numbers DEF Sweep, LimiterTypeOK
<1>2. buckets' \in [Keys -> Bucket \cup {NULL}]
  BY DEF Sweep, LimiterTypeOK
<1>3. ASSUME NEW k \in Keys
      PROVE  Refilled(k)' = Refilled(k)
  <2>1. CASE buckets[k] # NULL /\ buckets[k].age > cutoff
    <3>1. buckets'[k] = NULL
      BY <2>1 DEF Sweep
    <3>2. Refilled(k) = Full
      BY <1>1, <2>1, RefilledTyped, Numbers DEF minF, Bucket
    <3> QED
      BY <3>1, <3>2 DEF Refilled
  <2>2. CASE ~(buckets[k] # NULL /\ buckets[k].age > cutoff)
    <3>1. buckets'[k] = buckets[k]
      BY <2>2 DEF Sweep
    <3> QED
      BY <3>1 DEF Refilled
  <2> QED
    BY <2>1, <2>2
<1> QED
  BY <1>2, <1>3 DEF Preserved

-----------------------------------------------------------------------------
(***************************************************************************)
(* The steps keep the invariant.                                           *)
(***************************************************************************)

\* A step that changes neither credits nor what is counted.
LEMMA AccountsStay ==
  ASSUME IndInv, Preserved, UNCHANGED window
  PROVE  Accounts'
<1>1. window # NULL => window.key \in Keys
  BY NoBucket DEF IndInv, LimiterTypeOK
<1> QED
  BY <1>1 DEF IndInv, Accounts, Preserved

LEMMA AdmitTyped ==
  ASSUME IndInv, NEW k \in Keys, Admit(k)
  PROVE  IndInv'
<1>1. Refilled(k) \in 0 .. Full /\ Refilled(k) - RefillPer \in 0 .. Full
  BY RefilledTyped, Numbers DEF Admit, IndInv
<1>2. /\ buckets' \in [Keys -> Bucket \cup {NULL}]
      /\ Refilled(k)' = Refilled(k) - RefillPer
      /\ \A j \in Keys \ {k} : Refilled(j)' = Refilled(j)
  BY <1>1, SeenCredit DEF Admit, IndInv
<1>3. window \in [key : Keys, ticks : 0 .. Span, admitted : Nat] \cup {NULL}
  BY DEF IndInv, LimiterTypeOK
<1>4. CASE window # NULL /\ window.key = k
  <2>1. window' = [window EXCEPT !.admitted = @ + 1]
    BY <1>4 DEF Admit, Count
  <2>2. window' \in [key : Keys, ticks : 0 .. Span, admitted : Nat]
    BY <1>3, <1>4, <2>1
  <2>3. /\ window'.key = k /\ window'.ticks = window.ticks
        /\ window'.admitted = window.admitted + 1
    BY <1>3, <1>4, <2>1
  <2>4. window.admitted * RefillPer + Refilled(k) <= Full + window.ticks
    BY <1>4 DEF IndInv, Accounts
  <2>5. window.admitted \in Nat /\ window.ticks \in 0 .. Span
    BY <1>3, <1>4
  <2>6. (window.admitted + 1) * RefillPer = window.admitted * RefillPer + RefillPer
    BY <2>5, Numbers
  <2>7. window.admitted * RefillPer \in Nat
    BY <2>5, Numbers
  <2>8. (window.admitted + 1) * RefillPer + (Refilled(k) - RefillPer) <= Full + window.ticks
    BY <1>1, <2>4, <2>5, <2>6, <2>7, Numbers
  <2>9. Accounts'
    BY <1>2, <2>3, <2>8 DEF Accounts
  <2> QED
    BY <1>2, <2>2, <2>9 DEF Admit, Seen, IndInv, LimiterTypeOK
<1>5. CASE ~(window # NULL /\ window.key = k)
  <2>1. window' = window
    BY <1>5 DEF Admit, Count
  <2>2. Accounts'
    BY <1>2, <1>3, <1>5, <2>1, NoBucket DEF IndInv, Accounts
  <2> QED
    BY <1>2, <2>1, <2>2 DEF Admit, Seen, IndInv, LimiterTypeOK
<1> QED
  BY <1>4, <1>5

LEMMA RefuseTyped ==
  ASSUME IndInv, NEW k \in Keys, Refuse(k)
  PROVE  IndInv' /\ Preserved
<1>1. Refilled(k) \in 0 .. Full
  BY RefilledTyped DEF IndInv
<1>2. buckets' \in [Keys -> Bucket \cup {NULL}] /\ Preserved
  BY <1>1, SeenCredit DEF Refuse, IndInv, Preserved
<1>3. Accounts'
  BY <1>2, AccountsStay DEF Refuse
<1> QED
  BY <1>2, <1>3 DEF Refuse, Seen, IndInv, LimiterTypeOK

LEMMA TickTyped ==
  ASSUME IndInv, Tick
  PROVE  IndInv'
<1>1. /\ buckets' \in [Keys -> Bucket \cup {NULL}]
      /\ \A k \in Keys : Refilled(k)' = IF Refilled(k) < Full THEN Refilled(k) + 1 ELSE Full
  BY TickCredit DEF IndInv
<1>2. phase' \in 0 .. Every /\ fired' \in BOOLEAN
  BY Numbers DEF Tick, TickerPhase, IndInv, LimiterTypeOK
<1>3. cutoff' \in Idle .. Idle + Wait \cup {NULL}
  BY Numbers DEF Tick, IndInv, LimiterTypeOK
<1>4. CASE window' = NULL
  BY <1>1, <1>2, <1>3, <1>4 DEF Tick, IndInv, LimiterTypeOK, Accounts
<1>5. CASE window # NULL /\ window.ticks # Span
  <2>1. window \in [key : Keys, ticks : 0 .. Span, admitted : Nat]
    BY <1>5 DEF IndInv, LimiterTypeOK
  <2>2. window' = [window EXCEPT !.ticks = @ + 1]
    BY <1>5 DEF Tick
  <2>3. window' \in [key : Keys, ticks : 0 .. Span, admitted : Nat]
    BY <1>5, <2>1, <2>2, Numbers
  <2>4. /\ window'.key = window.key /\ window'.ticks = window.ticks + 1
        /\ window'.admitted = window.admitted
    BY <2>1, <2>2
  <2>5. window.admitted * RefillPer \in Nat
    BY <2>1, Numbers
  <2>6. /\ Refilled(window.key) \in 0 .. Full
        /\ Refilled(window.key)' \in Refilled(window.key) .. Refilled(window.key) + 1
    BY <1>1, <2>1, <2>4, RefilledTyped, Numbers DEF IndInv, Refilled
  <2>7. window.admitted * RefillPer + Refilled(window.key) <= Full + window.ticks
    BY <1>5 DEF IndInv, Accounts
  <2>8. Refilled(window.key)' <= Refilled(window.key) + 1
    BY <2>6
  <2>9. Accounts'
    BY <2>1, <2>4, <2>5, <2>6, <2>7, Numbers DEF Accounts
  <2> QED
    BY <1>1, <1>2, <1>3, <2>3, <2>9 DEF Tick, IndInv, LimiterTypeOK
<1> QED
  BY <1>4, <1>5 DEF Tick

LEMMA OthersTyped ==
  ASSUME IndInv, Wake \/ Sweep \/ UNCHANGED vars
  PROVE  IndInv' /\ Preserved
<1>1. CASE Wake
  <2>1. Preserved
    BY <1>1 DEF Wake, Preserved, Refilled
  <2>2. Accounts'
    BY <1>1, <2>1, AccountsStay DEF Wake
  <2>3. LimiterTypeOK'
    BY <1>1, Numbers DEF Wake, IndInv, LimiterTypeOK
  <2> QED
    BY <2>1, <2>2, <2>3 DEF IndInv
<1>2. CASE Sweep
  BY <1>2, SweepCredit, AccountsStay DEF Sweep, IndInv, LimiterTypeOK
<1>3. CASE UNCHANGED vars
  <2>1. Preserved
    BY <1>3 DEF vars, Preserved, Refilled
  <2> QED
    BY <1>3, <2>1, AccountsStay DEF vars, IndInv, LimiterTypeOK
<1> QED
  BY <1>1, <1>2, <1>3

LEMMA WatchTyped ==
  ASSUME IndInv, NEW k \in Keys, Watch(k)
  PROVE  IndInv' /\ Preserved
<1>1. Preserved
  BY DEF Watch, Preserved, Refilled
<1>2. /\ window' \in [key : Keys, ticks : 0 .. Span, admitted : Nat]
      /\ window'.key = k /\ window'.ticks = 0 /\ window'.admitted = 0
  BY Numbers DEF Watch
<1>3. Refilled(k)' \in 0 .. Full
  BY <1>1, RefilledTyped DEF Preserved, IndInv
<1>4. Accounts'
  BY <1>2, <1>3, Numbers DEF Accounts
<1> QED
  BY <1>1, <1>2, <1>4 DEF Watch, IndInv, LimiterTypeOK

LEMMA InitTyped ==
  ASSUME Init
  PROVE  IndInv
<1>1. buckets \in [Keys -> Bucket \cup {NULL}]
  BY DEF Init
<1>2. phase \in 0 .. Every
  BY Numbers DEF Init
<1>3. LimiterTypeOK
  BY <1>1, <1>2 DEF Init, LimiterTypeOK
<1>4. Accounts
  BY DEF Init, Accounts
<1> QED
  BY <1>3, <1>4 DEF IndInv

LEMMA StepTyped ==
  ASSUME IndInv, [Next]_vars
  PROVE  IndInv'
<1>1. CASE Tick
  BY <1>1, TickTyped
<1>2. CASE Wake \/ Sweep \/ UNCHANGED vars
  BY <1>2, OthersTyped
<1>3. CASE \E k \in Keys : allow(k) \/ Watch(k)
  BY <1>3, AdmitTyped, RefuseTyped, WatchTyped DEF allow
<1> QED
  BY <1>1, <1>2, <1>3 DEF Next

-----------------------------------------------------------------------------
(***************************************************************************)
(* The theorems.                                                           *)
(***************************************************************************)

\* Tokens stay between none and burst, however buckets come and go.
THEOREM LimiterTypeCorrect == Spec => []LimiterTypeOK
<1>1. Init => IndInv
  BY InitTyped
<1>2. IndInv /\ [Next]_vars => IndInv'
  BY StepTyped
<1>3. IndInv => LimiterTypeOK
  BY DEF IndInv
<1> QED
  BY <1>1, <1>2, <1>3, PTL DEF Spec

\* A client makes at most burst requests more than refillPer goes into any
\* stretch of time, for every burst, refillPer and sweep (the comment of
\* RateLimit).
THEOREM LimiterKeepsBudget == Spec => []BudgetKept
<1>1. Init => IndInv
  BY InitTyped
<1>2. IndInv /\ [Next]_vars => IndInv'
  BY StepTyped
<1>3. IndInv => BudgetKept
  <2> SUFFICES ASSUME IndInv, window # NULL
               PROVE  window.admitted * RefillPer <= Full + window.ticks
    BY DEF BudgetKept
  <2>1. window \in [key : Keys, ticks : 0 .. Span, admitted : Nat]
    BY DEF IndInv, LimiterTypeOK
  <2>2. Refilled(window.key) \in 0 .. Full
    BY <2>1, RefilledTyped DEF IndInv
  <2>3. window.admitted * RefillPer \in Nat
    BY <2>1, Numbers
  <2> QED
    BY <2>1, <2>2, <2>3, Numbers DEF IndInv, Accounts
<1> QED
  BY <1>1, <1>2, <1>3, PTL DEF Spec

-----------------------------------------------------------------------------
(***************************************************************************)
(* Every step maps to a step of Meter, or to none.                         *)
(***************************************************************************)
LEMMA AdmitMaps ==
  ASSUME IndInv, NEW k \in Keys, Admit(k)
  PROVE  Eager!Let(k)
<1>1. Refilled(k) \in 0 .. Full /\ Refilled(k) - RefillPer \in 0 .. Full
  BY RefilledTyped, Numbers DEF Admit, IndInv
<1>2. /\ Refilled(k)' = Refilled(k) - RefillPer
      /\ \A j \in Keys \ {k} : Refilled(j)' = Refilled(j)
  BY <1>1, SeenCredit DEF Admit, IndInv
<1> QED
  BY <1>2 DEF Admit, Seen, Eager!Let

LEMMA RefuseMaps ==
  ASSUME IndInv, NEW k \in Keys, Refuse(k)
  PROVE  Eager!Refuse(k)
<1>1. Preserved
  BY RefuseTyped
<1> QED
  BY <1>1 DEF Refuse, Seen, Preserved, Eager!Refuse

LEMMA TickMaps ==
  ASSUME IndInv, Tick
  PROVE  Eager!Tick
<1>1. \A k \in Keys : Refilled(k)' = IF Refilled(k) < Full THEN Refilled(k) + 1 ELSE Full
  BY TickCredit DEF IndInv
<1> QED
  BY <1>1 DEF Tick, Full, Eager!Tick, Eager!Full

\* The rate limiter refuses what a meter refuses that is read at every tick,
\* and lets through the rest: nobody can tell that it adds tokens only when a
\* client is seen, nor when it forgets one (allow, sweepLoop).
THEOREM LimiterImplementsMeter == Spec => ImplementsMeter
<1>1. Init => IndInv /\ Eager!Init
  BY InitTyped DEF Init, Refilled, Full, Eager!Init, Eager!Full
<1>2. ASSUME IndInv, Wake \/ Sweep \/ UNCHANGED vars \/ (\E k \in Keys : Watch(k))
      PROVE  UNCHANGED <<[k \in Keys |-> Refilled(k)], answer>>
  <2>1. Preserved
    BY <1>2, OthersTyped, WatchTyped
  <2>2. answer' = answer
    BY <1>2 DEF Wake, Sweep, vars, Watch
  <2> QED
    BY <2>1, <2>2 DEF Preserved
<1>3. ASSUME IndInv, [Next]_vars
      PROVE  [Eager!Next]_<<[k \in Keys |-> Refilled(k)], answer>>
  BY <1>2, <1>3, AdmitMaps, RefuseMaps, TickMaps DEF Next, allow, Eager!Next
<1>4. IndInv /\ [Next]_vars => IndInv'
  BY StepTyped
<1> QED
  BY <1>1, <1>3, <1>4, PTL DEF Spec, ImplementsMeter, Eager!Spec
=============================================================================
