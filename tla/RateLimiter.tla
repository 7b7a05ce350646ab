---------------------------- MODULE RateLimiter ----------------------------
(***************************************************************************)
(* What a rate limit promises: a leaky bucket of Burst bytes per flow that *)
(* drains at Rate and takes a packet only if it fits.  So the bytes that a *)
(* flow gets through with the packets it offers in an interval never       *)
(* exceed Burst plus Rate times the length of the interval, wherever it    *)
(* starts.  A second has Unit steps of time, and levels are counted in     *)
(* bytes times Unit.                                                       *)
(***************************************************************************)
EXTENDS Integers

CONSTANTS Flows, Lengths, Rate, Burst, Unit

VARIABLES
  now,
  offered,  \* when each flow last offered a packet
  level     \* its level then

limiter == <<now, offered, level>>

Init ==
  /\ now = 0
  /\ offered = [f \in Flows |-> 0]
  /\ level = [f \in Flows |-> 0]

(* What is left of a level after some time.                                *)
Drained(l, time) == IF l > Rate * time THEN l - Rate * time ELSE 0

Tick == now' = now + 1 /\ UNCHANGED <<offered, level>>

Offer(f) ==
  /\ offered' = [offered EXCEPT ![f] = now]
  /\ level' = [level EXCEPT ![f] = Drained(@, now - offered[f])]
  /\ UNCHANGED now

Accept(f, n) ==
  /\ level[f] + n * Unit <= Burst * Unit
  /\ level' = [level EXCEPT ![f] = @ + n * Unit]
  /\ UNCHANGED <<now, offered>>

Next == Tick \/ \E f \in Flows : Offer(f) \/ \E n \in Lengths : Accept(f, n)

Spec == Init /\ [][Next]_limiter
=============================================================================
