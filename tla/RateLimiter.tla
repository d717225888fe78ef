---------------------------- MODULE RateLimiter ----------------------------
(***************************************************************************)
(* middleware/ratelimit.go: the limit on the number of POSTs to /login,    *)
(* /forgot-password and /reset-password, which share it.  A bucket holds   *)
(* the tokens a client had when it was last seen; those that have come     *)
(* since are added when the client is seen again.  A goroutine sweeps      *)
(* buckets that were not seen for a long time; it reads the clock before   *)
(* it waits for the lock.                                                  *)
(*                                                                         *)
(* Time passes in ticks, of which RefillPer bring one token.  Tokens are   *)
(* counted in ticks as well, hence exactly: the rounding of the floating   *)
(* point numbers of the code is left out.                                  *)
(***************************************************************************)
EXTENDS Integers

CONSTANTS
  NULL,
  Keys,        \* the clients: the hosts of their addresses
  Burst,       \* how many requests a client may make at once
  RefillPer,   \* the ticks after which it may make another
  Every,       \* the ticks between two sweeps
  Idle,        \* buckets are swept that were not seen for longer than this
  Wait,        \* bound: the ticks that the sweeper waits for the lock
  Span         \* bound: the ticks over which requests are counted

Full == Burst * RefillPer

\* 10 requests, one more every 6 seconds; a sweep every 10 minutes, of the
\* buckets not seen for 30: a bucket that is swept has filled up again.
ASSUME LimiterAssumption ==
  /\ Burst \in Nat \ {0} /\ RefillPer \in Nat \ {0} /\ Every \in Nat \ {0}
  /\ Idle \in Nat /\ Wait \in Nat /\ Span \in Nat
  /\ Full <= Idle
  /\ NULL \notin [tokens : Int, age : Int] /\ NULL \notin Int
  /\ NULL \notin [key : Keys, ticks : Int, admitted : Int]

VARIABLES
  buckets,   \* buckets[k]: the tokens and how long ago k was seen, or NULL
  phase,     \* the ticks since the ticker fired
  fired,     \* whether the ticker's channel, of capacity one, holds something
  cutoff,    \* how long ago the sweeper's cutoff is, until it has the lock, or NULL
  answer,    \* history: what the last request was told
  window     \* history: a client, some time, and how many requests it made then

vars == <<buckets, phase, fired, cutoff, answer, window>>

\* Bound: what has not been seen for this long is as old as can be.
Oldest == Idle + Wait + 1

minF(a, b) == IF a < b THEN a ELSE b

\* Mutation: an unused bucket overflows.
Overfull(k) ==
  IF buckets[k] = NULL THEN Full ELSE buckets[k].tokens + buckets[k].age

\* The tokens of a client that is seen now.
Refilled(k) ==
  IF buckets[k] = NULL THEN Full ELSE minF(Full, buckets[k].tokens + buckets[k].age)

Seen(k, tokens, allowed) ==
  /\ buckets' = [buckets EXCEPT ![k] = [tokens |-> tokens, age |-> 0]]
  /\ answer'  = [key |-> k, allowed |-> allowed]
  /\ UNCHANGED <<phase, fired, cutoff>>

Count(k) ==
  window' = IF window # NULL /\ window.key = k
            THEN [window EXCEPT !.admitted = @ + 1] ELSE window

Admit(k) ==
  /\ Refilled(k) >= RefillPer
  /\ Seen(k, Refilled(k) - RefillPer, TRUE)
  /\ Count(k)

\* Mutation: lastSeen is moved, but the tokens since are lost.
RefuseForgetting(k) ==
  /\ Refilled(k) < RefillPer
  /\ Seen(k, buckets[k].tokens, FALSE)
  /\ UNCHANGED window

Refuse(k) ==
  /\ Refilled(k) < RefillPer
  /\ Seen(k, Refilled(k), FALSE)
  /\ UNCHANGED window

\* The whole of allow is under the lock.
allow(k) == Admit(k) \/ Refuse(k)

\* Mutation: a timer, which fires once.
TimerPhase(n) == IF n > Every THEN n ELSE n + 1

TickerPhase(n) == IF n = Every THEN 1 ELSE n + 1

Older(b) == [b EXCEPT !.age = minF(@ + 1, Oldest)]

Tick ==
  /\ cutoff # NULL => cutoff < Idle + Wait
  /\ phase'   = TickerPhase(phase)
  /\ fired'   = (fired \/ phase' = Every)
  /\ cutoff'  = IF cutoff = NULL THEN NULL ELSE cutoff + 1
  /\ buckets' = [k \in Keys |-> IF buckets[k] = NULL THEN NULL ELSE Older(buckets[k])]
  /\ window'  = IF window = NULL \/ window.ticks = Span THEN NULL
                ELSE [window EXCEPT !.ticks = @ + 1]
  /\ UNCHANGED answer

\* Mutation: the cutoff is the present.
WakeWithoutIdle ==
  /\ fired /\ cutoff = NULL
  /\ fired'  = FALSE
  /\ cutoff' = 0
  /\ UNCHANGED <<buckets, phase, answer, window>>

\* The sweeper receives from the channel and reads the clock.
Wake ==
  /\ fired /\ cutoff = NULL
  /\ fired'  = FALSE
  /\ cutoff' = Idle
  /\ UNCHANGED <<buckets, phase, answer, window>>

\* It has the lock.
Sweep ==
  /\ cutoff # NULL
  /\ buckets' = [k \in Keys |-> IF buckets[k] # NULL /\ buckets[k].age > cutoff
                                THEN NULL ELSE buckets[k]]
  /\ cutoff'  = NULL
  /\ UNCHANGED <<phase, fired, answer, window>>

\* Counting starts, at any time.
Watch(k) ==
  /\ window = NULL
  /\ window' = [key |-> k, ticks |-> 0, admitted |-> 0]
  /\ UNCHANGED <<buckets, phase, fired, cutoff, answer>>

Init ==
  /\ buckets = [k \in Keys |-> NULL]
  /\ phase   = 0
  /\ fired   = FALSE
  /\ cutoff  = NULL
  /\ answer  = NULL
  /\ window  = NULL

Next ==
  \/ Tick \/ Wake \/ Sweep
  \/ \E k \in Keys : allow(k) \/ Watch(k)

\* Time passes, and the sweeper is scheduled and gets the lock, which nobody
\* holds for long.  Nobody need make requests.
Fairness == WF_vars(Tick) /\ WF_vars(Wake) /\ WF_vars(Sweep)

Spec == Init /\ [][Next]_vars

FairSpec == Spec /\ Fairness

-----------------------------------------------------------------------------
Bucket == [tokens : 0 .. Full, age : 0 .. Oldest]

LimiterTypeOK ==
  /\ buckets \in [Keys -> Bucket \cup {NULL}]
  /\ phase   \in 0 .. Every
  /\ fired   \in BOOLEAN
  /\ cutoff  \in Idle .. Idle + Wait \cup {NULL}
  /\ answer  \in [key : Keys, allowed : BOOLEAN] \cup {NULL}
  /\ window  \in [key : Keys, ticks : 0 .. Span, admitted : Nat] \cup {NULL}

\* Adding the tokens late, and forgetting buckets while requests arrive, is the
\* same as adding them as time passes: no client is refused, or let through,
\* that would not have been (ratelimit.go, allow and sweepLoop).
Eager == INSTANCE Meter WITH credit <- [k \in Keys |-> Refilled(k)]

ImplementsMeter == Eager!Spec

\* Over any stretch of time, sweeps or not, a client makes at most burst
\* requests more than refillPer goes into it (the comment of RateLimit).
BudgetKept ==
  window # NULL => window.admitted * RefillPer <= Full + window.ticks

\* The map does not keep a client for ever that has stopped making requests.
ClientsForgotten ==
  \A k \in Keys : []<><<allow(k)>>_vars \/ <>[](buckets[k] = NULL)
=============================================================================
