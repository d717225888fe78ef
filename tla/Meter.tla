------------------------------- MODULE Meter -------------------------------
(***************************************************************************)
(* What the rate limiter promises: each client has a credit, which a tick  *)
(* of time raises by one up to Full, and a request that is let through     *)
(* costs RefillPer of it.  A request is refused when the credit does not   *)
(* cover it, and only then.                                                *)
(***************************************************************************)
EXTENDS Integers

CONSTANTS
  NULL,
  Keys,        \* the clients: their IP addresses
  Burst,       \* how many requests a client may make at once
  RefillPer    \* the ticks after which it may make another

VARIABLES
  credit,      \* credit[k], in ticks
  answer       \* what the last request was told

Full == Burst * RefillPer

Let(k) ==
  /\ credit[k] >= RefillPer
  /\ credit' = [credit EXCEPT ![k] = @ - RefillPer]
  /\ answer' = [key |-> k, allowed |-> TRUE]

Refuse(k) ==
  /\ credit[k] < RefillPer
  /\ answer' = [key |-> k, allowed |-> FALSE]
  /\ UNCHANGED credit

Tick ==
  /\ credit' = [k \in Keys |-> IF credit[k] < Full THEN credit[k] + 1 ELSE Full]
  /\ UNCHANGED answer

Init ==
  /\ credit = [k \in Keys |-> Full]
  /\ answer = NULL

Next == Tick \/ \E k \in Keys : Let(k) \/ Refuse(k)

Spec == Init /\ [][Next]_<<credit, answer>>
=============================================================================
