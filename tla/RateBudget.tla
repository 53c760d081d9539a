----------------------------- MODULE RateBudget -----------------------------
(***************************************************************************)
(* What a rate limiter promises: a budget of Capacity that grows by Refill *)
(* a tick and is spent before it is used.  "debt" is the largest amount    *)
(* that any stretch of time ending now has seen spent beyond its refills.  *)
(***************************************************************************)
EXTENDS Naturals

CONSTANTS
    Capacity,   \* the burst the API tolerates
    Refill      \* budget gained per tick

VARIABLES level, debt

Lesser(a, b) == IF a <= b THEN a ELSE b
Minus(a, b)  == IF a >= b THEN a - b ELSE 0

Init == level = Capacity /\ debt = 0

Tick ==
    /\ level' = Lesser(Capacity, level + Refill)
    /\ debt' = Minus(debt, Refill)

Spend(cost) ==
    /\ level' = level - cost
    /\ debt' = debt + cost

\* The API said 429: whatever was left is forfeited.
Forfeit == level' = 0 /\ debt' = debt

Next == Tick \/ Forfeit \/ \E cost \in 0 .. level : Spend(cost)

Spec == Init /\ [][Next]_<<level, debt>>

=============================================================================
