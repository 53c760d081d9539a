----------------------------- MODULE RateLimit -----------------------------
(***************************************************************************)
(* client/rate_limit.py and client/retry.py of the two market connectors:  *)
(* threads that send requests, each attempt paid for from one lazily       *)
(* refilled token bucket, retried with backoff.                            *)
(*                                                                         *)
(* Time passes in ticks.  Only differences of clock readings are kept:     *)
(* ticks since the last refill, ticks until a sleeper wakes.  Everything a *)
(* thread does while it holds the condition's lock is one step.  The       *)
(* Kalshi client hands its bucket to the retry helper, which drains it on  *)
(* a 429; the Polymarket client does not.                                  *)
(***************************************************************************)
EXTENDS Integers, FiniteSets

CONSTANTS
    Threads,
    Capacity,       \* capacity: the burst of a full bucket
    Refill,         \* refill_per_second, for a tick
    Costs,          \* endpoint_costs: what the endpoints cost
    Patience,       \* timeouts a caller of acquire() passes; Forever is None
    MaxRetries,     \* max_retries
    BaseTicks,      \* base_seconds
    MaxTicks,       \* max_seconds
    MaxRequests     \* bound: requests per thread

Forever == -1

ASSUME ThreadsAssumption  == IsFiniteSet(Threads)
ASSUME CapacityAssumption == Capacity \in Nat \ {0}
ASSUME RefillAssumption   == Refill \in Nat \ {0}
ASSUME CostsAssumption    == Costs \subseteq Nat \ {0}
ASSUME PatienceAssumption == Patience \subseteq Nat \cup {Forever}
ASSUME RetryAssumption    == MaxRetries \in Nat /\ BaseTicks \in Nat \ {0}
                               /\ MaxTicks \in Nat /\ BaseTicks <= MaxTicks
ASSUME RequestsAssumption == MaxRequests \in Nat

VARIABLES
    client,     \* whose client this is: "kalshi" or "polymarket"
    tokens,     \* _tokens, as of the last refill
    elapsed,    \* ticks since _last_refill_monotonic, once full no further
    req,        \* the threads' requests
    debt,       \* history: the most any stretch of time was granted
                \*   beyond its refills
    burst       \* history: the same of what was sent

vars == <<client, tokens, elapsed, req, debt, burst>>

Lesser(a, b) == IF a <= b THEN a ELSE b
Minus(a, b)  == IF a >= b THEN a - b ELSE 0

(***************************************************************************)
(* "check": in the loop of acquire; "wait": in condition.wait; "send":     *)
(* acquire has returned; "sent": awaiting the answer; "drain": a 429 was   *)
(* read; "backoff": asleep in the retry helper.  "wake" and "left" count   *)
(* down to the end of a sleep and to the deadline of acquire; "cooled" is  *)
(* history, the ticks since the thread last read a 429 it drains for.      *)
(***************************************************************************)
Requests == [pc: {"idle", "check", "wait", "send", "sent", "drain", "backoff"},
             cost: Nat, attempt: 0 .. MaxRetries, patience: Patience \cup {Forever},
             left: Nat \cup {Forever}, wake: Nat, cooled: 0 .. Capacity,
             served: 0 .. MaxRequests]
NoRequest == [pc |-> "idle", cost |-> 0, attempt |-> 0, patience |-> Forever,
              left |-> Forever, wake |-> 0, cooled |-> Capacity, served |-> 0]

Init ==
    /\ client \in {"kalshi", "polymarket"}
    /\ tokens = Capacity
    /\ elapsed = 0
    /\ req = [t \in Threads |-> NoRequest]
    /\ debt = 0
    /\ burst = 0

\* _refill_locked: what the bucket holds once it has been refilled.
Level == Lesser(Capacity, tokens + elapsed * Refill)

At(t, pc) == req[t].pc = pc

\* The request r is over; its locals are gone.
Over(r) == [NoRequest EXCEPT !.cooled = r.cooled, !.served = r.served + 1]

-----------------------------------------------------------------------------
(***************************************************************************)
(* acquire().  A cost beyond the capacity raises ValueError before the     *)
(* lock is taken.                                                          *)
(***************************************************************************)
Request(t, cost, patience) ==
    /\ At(t, "idle") /\ req[t].served < MaxRequests
    /\ req' = [req EXCEPT ![t] =
          IF cost > Capacity THEN Over(@)
          ELSE [@ EXCEPT !.pc = "check", !.cost = cost,
                         !.patience = patience, !.left = patience]]
    /\ UNCHANGED <<client, tokens, elapsed, debt, burst>>

Waiting == {t \in Threads : At(t, "wait")}

\* The condition's notify(): one waiter, or none if nobody waits.
NotifyOne == IF Waiting = {} THEN {{}} ELSE {{w} : w \in Waiting}

\* t leaves the lock as "after", and the "woken" go back to the loop.
Leave(t, after, woken) ==
    req' = [u \in Threads |-> IF u = t THEN after
                              ELSE IF u \in woken
                                   THEN [req[u] EXCEPT !.pc = "check", !.wake = 0]
                              ELSE req[u]]

Grant(t) ==
    /\ At(t, "check") /\ Level >= req[t].cost
    /\ tokens' = Level - req[t].cost
    /\ elapsed' = 0
    /\ debt' = debt + req[t].cost
    /\ \E woken \in NotifyOne : Leave(t, [req[t] EXCEPT !.pc = "send", !.left = Forever], woken)
    /\ UNCHANGED <<client, burst>>

UntilReady(cost) == (cost - Level + Refill - 1) \div Refill

WaitTicks(t) ==
    IF req[t].left = Forever THEN UntilReady(req[t].cost)
    ELSE Lesser(UntilReady(req[t].cost), req[t].left)

\* Faulty variant, for the mutants: a wait without a timeout, ended by notify alone.
WaitUntimed(t) ==
    /\ At(t, "check") /\ Level < req[t].cost /\ req[t].left # 0
    /\ tokens' = Level
    /\ elapsed' = 0
    /\ req' = [req EXCEPT ![t].pc = "wait", ![t].wake = -1]
    /\ UNCHANGED <<client, debt, burst>>

Wait(t) ==
    /\ At(t, "check") /\ Level < req[t].cost /\ req[t].left # 0
    /\ tokens' = Level
    /\ elapsed' = 0
    /\ req' = [req EXCEPT ![t].pc = "wait", ![t].wake = WaitTicks(t)]
    /\ UNCHANGED <<client, debt, burst>>

\* RateLimitTimeout is no transport error: it ends the request.
TimesOut(t) ==
    /\ At(t, "check") /\ Level < req[t].cost /\ req[t].left = 0
    /\ tokens' = Level
    /\ elapsed' = 0
    /\ \E woken \in NotifyOne : Leave(t, Over(req[t]), woken)
    /\ UNCHANGED <<client, debt, burst>>

Wake(t) ==
    /\ At(t, "wait") /\ req[t].wake = 0
    /\ req' = [req EXCEPT ![t].pc = "check"]
    /\ UNCHANGED <<client, tokens, elapsed, debt, burst>>

-----------------------------------------------------------------------------
(***************************************************************************)
(* retry_with_backoff around acquire-and-GET.                              *)
(***************************************************************************)
Send(t) ==
    /\ At(t, "send")
    /\ req' = [req EXCEPT ![t].pc = "sent"]
    /\ burst' = burst + req[t].cost
    /\ UNCHANGED <<client, tokens, elapsed, debt>>

\* A success, or a status or an error that is not retried.
Answered(t) ==
    /\ At(t, "sent")
    /\ req' = [req EXCEPT ![t] = Over(@)]
    /\ UNCHANGED <<client, tokens, elapsed, debt, burst>>

\* _backoff_seconds: between half the schedule's value and all of it.
Bounded(attempt) == Lesser(MaxTicks, BaseTicks * 2^attempt)
Backoffs(attempt) ==
    {n \in 1 .. Bounded(attempt) : 2 * n >= Bounded(attempt)}

\* A retryable failure of r, now that the bucket has been dealt with.
Retried(r) ==
    IF r.attempt >= MaxRetries THEN {Over(r)}
    ELSE {[r EXCEPT !.pc = "backoff", !.wake = n] : n \in Backoffs(r.attempt)}

\* A transport error, a 5xx, or a 429 that no bucket hears of.
Fails(t) ==
    /\ At(t, "sent")
    /\ \E r \in Retried(req[t]) : req' = [req EXCEPT ![t] = r]
    /\ UNCHANGED <<client, tokens, elapsed, debt, burst>>

\* Faulty variant, for the mutants: a 429 is retried like a 5xx.
ThrottledUndrained(t) ==
    /\ At(t, "sent") /\ client = "kalshi"
    /\ \E r \in Retried(req[t]) : req' = [req EXCEPT ![t] = [r EXCEPT !.cooled = 0]]
    /\ UNCHANGED <<client, tokens, elapsed, debt, burst>>

Throttled(t) ==
    /\ At(t, "sent") /\ client = "kalshi"
    /\ req' = [req EXCEPT ![t].pc = "drain", ![t].cooled = 0]
    /\ UNCHANGED <<client, tokens, elapsed, debt, burst>>

\* Faulty variant, for the mutants: a drain that forgets the time since the last refill.
DrainKeepsClock(t) ==
    /\ At(t, "drain")
    /\ tokens' = 0
    /\ \E r \in Retried(req[t]) : Leave(t, r, Waiting)
    /\ UNCHANGED <<client, elapsed, debt, burst>>

\* drain(): notify_all, so that every waiter works out its wait anew.
Drain(t) ==
    /\ At(t, "drain")
    /\ tokens' = 0
    /\ elapsed' = 0
    /\ \E r \in Retried(req[t]) : Leave(t, r, Waiting)
    /\ UNCHANGED <<client, debt, burst>>

\* Faulty variant, for the mutants: only the first attempt pays.
RetryUncharged(t) ==
    /\ At(t, "backoff") /\ req[t].wake = 0
    /\ req' = [req EXCEPT ![t].pc = "send", ![t].attempt = @ + 1]
    /\ UNCHANGED <<client, tokens, elapsed, debt, burst>>

Retry(t) ==
    /\ At(t, "backoff") /\ req[t].wake = 0
    /\ req' = [req EXCEPT ![t].pc = "check", ![t].attempt = @ + 1,
                          ![t].left = req[t].patience]
    /\ UNCHANGED <<client, tokens, elapsed, debt, burst>>

-----------------------------------------------------------------------------
\* The monotonic clock.  Counters that no longer tell anything apart stop.
CountDown(n) == IF n > 0 THEN n - 1 ELSE n

Tick ==
    /\ elapsed' = Lesser(Capacity, elapsed + 1)
    /\ req' = [t \in Threads |->
                  [req[t] EXCEPT !.wake = CountDown(@), !.left = CountDown(@),
                                 !.cooled = Lesser(Capacity, @ + 1)]]
    /\ debt' = Minus(debt, Refill)
    /\ burst' = Minus(burst, Refill)
    /\ UNCHANGED <<client, tokens>>

Step(t) ==
    \/ Grant(t) \/ Wait(t) \/ TimesOut(t) \/ Wake(t)
    \/ Send(t) \/ Answered(t) \/ Fails(t) \/ Throttled(t) \/ Drain(t) \/ Retry(t)

Next ==
    \/ Tick
    \/ \E t \in Threads : Step(t)
    \/ \E t \in Threads, c \in Costs, p \in Patience : Request(t, c, p)

Spec == Init /\ [][Next]_vars

(***************************************************************************)
(* The clock runs and threads are scheduled.  An answer always comes: the  *)
(* HTTP clients are built with a timeout.                                  *)
(***************************************************************************)
FairSpec == Spec /\ WF_vars(Tick) /\ \A t \in Threads : WF_vars(Step(t))

-----------------------------------------------------------------------------
\* Every variable has its type; the bucket never holds less than nothing or
\* more than its capacity.
TypeOK ==
    /\ client \in {"kalshi", "polymarket"}
    /\ tokens \in 0 .. Capacity
    /\ elapsed \in 0 .. Capacity
    /\ req \in [Threads -> Requests]
    /\ debt \in Nat
    /\ burst \in Nat

\* Whatever threads, timeouts, retries and drains do, the lazily refilled
\* bucket grants what a bucket refilled at every tick would grant.
Budget == INSTANCE RateBudget WITH level <- Level
ImplementsBudget == Budget!Spec

\* No stretch of time is granted more than a full bucket and its refills.
RateRespected == debt <= Capacity

\* The API sees at most one request per thread beyond that: a thread may sit
\* on tokens it was granted long ago and send after the bucket has refilled.
Sendable          == {0} \cup {c \in Costs : c <= Capacity}
CostliestSendable == CHOOSE c \in Sendable : \A d \in Sendable : d <= c
SendsBounded == burst <= Capacity + Cardinality(Threads) * CostliestSendable

\* After a 429 a thread's next request waits until an emptied bucket has
\* earned its cost, whoever else spends or drains in between
\* (kalshi_connector/client/retry.py:19-20).
PaidAfterDrain ==
    \A t \in Threads :
        At(t, "send") => req[t].cooled * Refill >= req[t].cost

\* Every request ends: no waiter is left asleep on a bucket that nobody
\* refills but the waiters themselves.
RequestEnds == \A t \in Threads : ~At(t, "idle") ~> At(t, "idle")

=============================================================================
