---------------------------- MODULE MarketProofs ----------------------------
(***************************************************************************)
(* Proofs about what the market connectors share, the request budget       *)
(* (RateLimit), and about the pull of a market's trades (KalshiTrades).    *)
(*                                                                         *)
(* The lazily refilled bucket keeps its budget: for any number of threads, *)
(* any capacity, refill, costs and timeouts, RateLimit implements          *)
(* RateBudget, and so no stretch of time is granted more than a full       *)
(* bucket and its refills.  What is sent in it exceeds that by at most one *)
(* request per thread, as a grant may be used later than it was given.     *)
(*                                                                         *)
(* A pull of trades whose pages all answered leaves no gap: for any number *)
(* of trades, page size and failures, and either order of the listings.    *)
(***************************************************************************)
EXTENDS RateLimit, KalshiTrades, FiniteSetTheorems, WellFoundedInduction, TLAPS

\* A nonempty set of naturals has a least element.
LEMMA LeastExists ==
    ASSUME NEW S \in SUBSET Nat, S # {}
    PROVE  \E m \in S : \A n \in S : m <= n
<1>1. PICK m \in S : \A n \in S : ~(<<n, m>> \in OpToRel(<, Nat))
    BY NatLessThanWellFounded, WFMin
<1>2. \A n \in S : ~(n < m)
    BY <1>1 DEF OpToRel
<1> QED BY <1>2

\* One that is bounded has a greatest element.
LEMMA GreatestExists ==
    ASSUME NEW b \in Nat, NEW S \in SUBSET (0 .. b), S # {}
    PROVE  \E m \in S : \A n \in S : n <= m
<1> DEFINE T == {b - n : n \in S}
<1>0. \A n \in S : b - n \in Nat
    OBVIOUS
<1>1. T \in SUBSET Nat /\ T # {}
    BY <1>0
<1>2. PICK t \in T : \A u \in T : t <= u
    BY <1>1, LeastExists
<1>3. PICK m \in S : t = b - m
    OBVIOUS
<1>4. \A n \in S : b - m <= b - n
    BY <1>2, <1>3
<1> QED BY <1>4

-----------------------------------------------------------------------------
(* RateLimit.                                                              *)

\* Products that the steps below need.
LEMMA Products ==
    ASSUME NEW a \in Nat
    PROVE  /\ a * Refill \in Nat
           /\ a <= a * Refill
           /\ (a + 1) * Refill = a * Refill + Refill
  BY RefillAssumption, SMT

LEMMA ZeroTicks == 0 * Refill = 0
  BY RefillAssumption, SMT

\* The bucket's level is within its capacity, whenever it is looked at.
LEMMA LevelInRange ==
    ASSUME TypeOK
    PROVE  Level \in 0 .. Capacity
<1>1. elapsed * Refill \in Nat
  BY Products DEF TypeOK
<1> QED BY <1>1, CapacityAssumption DEF TypeOK, Level, Lesser

LEMMA LevelInRangeNext ==
    ASSUME TypeOK'
    PROVE  Level' \in 0 .. Capacity
<1>1. elapsed' * Refill \in Nat
  BY Products DEF TypeOK
<1> QED BY <1>1, CapacityAssumption DEF TypeOK, Level, Lesser

\* A step that writes the bucket back leaves what it wrote.
LEMMA LevelWritten ==
    ASSUME tokens' \in 0 .. Capacity, elapsed' = 0
    PROVE  Level' = tokens'
<1>1. elapsed' * Refill = 0
  BY ZeroTicks
<1> QED BY <1>1, CapacityAssumption DEF Level, Lesser

\* One tick of the lazy bucket is one tick of an eager one.
LEMMA LevelTicks ==
    ASSUME TypeOK, Tick
    PROVE  Level' = Lesser(Capacity, Level + Refill)
<1>1. elapsed \in Nat /\ tokens \in Nat /\ Capacity \in Nat \ {0} /\ Refill \in Nat \ {0}
  BY CapacityAssumption, RefillAssumption DEF TypeOK
<1>2. tokens' = tokens /\ elapsed' = Lesser(Capacity, elapsed + 1)
  BY DEF Tick
<1>3. CASE elapsed + 1 <= Capacity
  <2>1. elapsed' = elapsed + 1
    BY <1>1, <1>2, <1>3 DEF Lesser
  <2>2. elapsed' * Refill = elapsed * Refill + Refill /\ elapsed * Refill \in Nat
    BY <2>1, <1>1, Products
  <2> QED BY <2>2, <1>1, <1>2 DEF Level, Lesser
<1>4. CASE ~(elapsed + 1 <= Capacity)
  <2>1. elapsed = Capacity /\ elapsed' = Capacity
    BY <1>1, <1>2, <1>4 DEF Lesser, TypeOK
  <2>2. Capacity * Refill \in Nat /\ Capacity <= Capacity * Refill
    BY <1>1, Products
  <2>3. Level = Capacity /\ Level' = Capacity
    BY <2>1, <2>2, <1>1, <1>2 DEF Level, Lesser
  <2> QED BY <2>3, <1>1 DEF Lesser
<1> QED BY <1>3, <1>4

-----------------------------------------------------------------------------
(***************************************************************************)
(* Types.                                                                  *)
(***************************************************************************)
\* a is the request r, moved to pc.
Moved(r, a, pc) ==
    /\ a \in Requests /\ a.pc = pc /\ a.cost = r.cost
    /\ a.cooled = r.cooled /\ a.served = r.served /\ a.attempt = r.attempt

LEMMA RecordUpdates ==
    ASSUME NEW r \in Requests
    PROVE  /\ \A pc \in {"check", "send", "sent"} : Moved(r, [r EXCEPT !.pc = pc], pc)
           /\ Moved(r, [r EXCEPT !.pc = "check", !.wake = 0], "check")
           /\ Moved(r, [r EXCEPT !.pc = "send", !.left = Forever], "send")
           /\ \A n \in Nat : /\ Moved(r, [r EXCEPT !.pc = "wait", !.wake = n], "wait")
                             /\ Moved(r, [r EXCEPT !.pc = "backoff", !.wake = n], "backoff")
<1>1. \A pc \in {"check", "send", "sent"} : Moved(r, [r EXCEPT !.pc = pc], pc)
  BY DEF Requests, Moved
<1>2. Moved(r, [r EXCEPT !.pc = "check", !.wake = 0], "check")
  BY DEF Requests, Moved
<1>3. Moved(r, [r EXCEPT !.pc = "send", !.left = Forever], "send")
  BY DEF Requests, Moved
<1>4. \A n \in Nat : Moved(r, [r EXCEPT !.pc = "wait", !.wake = n], "wait")
  BY DEF Requests, Moved
<1>5. \A n \in Nat : Moved(r, [r EXCEPT !.pc = "backoff", !.wake = n], "backoff")
  BY DEF Requests, Moved
<1> QED BY <1>1, <1>2, <1>3, <1>4, <1>5

\* The request r that has asked for c tokens, and one that asks again.
Asked(r, c, p) == [r EXCEPT !.pc = "check", !.cost = c, !.patience = p, !.left = p]
Again(r, n, l) == [r EXCEPT !.pc = "check", !.attempt = n, !.left = l]

LEMMA AskedType ==
    ASSUME NEW r \in Requests, NEW c \in Nat, NEW p \in Patience
    PROVE  /\ Asked(r, c, p) \in Requests /\ Asked(r, c, p).pc = "check"
           /\ Asked(r, c, p).cooled = r.cooled /\ Asked(r, c, p).served = r.served
<1>1. p \in Patience \cup {Forever} /\ p \in Nat \cup {Forever}
  BY PatienceAssumption
<1> QED BY <1>1 DEF Requests, Asked

LEMMA AgainType ==
    ASSUME NEW r \in Requests, NEW n \in 0 .. MaxRetries, NEW l \in Nat \cup {Forever}
    PROVE  /\ Again(r, n, l) \in Requests /\ Again(r, n, l).pc = "check"
           /\ Again(r, n, l).cooled = r.cooled /\ Again(r, n, l).served = r.served
  BY DEF Requests, Again

LEMMA ThrottledUpdate ==
    ASSUME NEW r \in Requests
    PROVE  LET a == [r EXCEPT !.pc = "drain", !.cooled = 0]
           IN  a \in Requests /\ a.pc = "drain" /\ a.served = r.served
<1>1. 0 \in 0 .. Capacity
  BY CapacityAssumption
<1> QED BY <1>1 DEF Requests

LEMMA NoRequestType == NoRequest \in Requests
  BY CapacityAssumption, RetryAssumption, RequestsAssumption DEF NoRequest, Requests

LEMMA OverType ==
    ASSUME NEW r \in Requests, r.served < MaxRequests
    PROVE  Over(r) \in Requests
<1>1. r.served + 1 \in 0 .. MaxRequests /\ r.cooled \in 0 .. Capacity
  BY RequestsAssumption DEF Requests
<1> QED BY <1>1, NoRequestType DEF Over, Requests

-----------------------------------------------------------------------------
(***************************************************************************)
(* The inductive invariant.  A thread that has read a 429 and drained the  *)
(* bucket for it finds no more than the bucket has earned since.           *)
(***************************************************************************)
BusyIsCounted == \A t \in Threads : ~At(t, "idle") => req[t].served < MaxRequests
BackoffHasRetry ==
    \A t \in Threads : At(t, "backoff") => req[t].attempt < MaxRetries
Earned == \A t \in Threads : ~At(t, "drain") => Level <= req[t].cooled * Refill
WithinBudget == debt + Level <= Capacity

Inv == TypeOK /\ BusyIsCounted /\ BackoffHasRetry /\ Earned /\ WithinBudget /\ PaidAfterDrain

LEMMA CooledType ==
    ASSUME TypeOK, NEW t \in Threads
    PROVE  /\ req[t] \in Requests
           /\ req[t].cooled \in 0 .. Capacity
           /\ req[t].cooled * Refill \in Nat
           /\ req[t].cost \in Nat
<1>1. req[t] \in Requests
  BY DEF TypeOK
<1>2. req[t].cooled \in 0 .. Capacity /\ req[t].cost \in Nat
  BY <1>1 DEF Requests
<1>3. req[t].cooled \in Nat
  BY <1>2
<1> QED BY <1>1, <1>2, <1>3, Products

LEMMA InitInv == Init => Inv
<1> SUFFICES ASSUME Init PROVE Inv
  OBVIOUS
<1>1. \A t \in Threads : req[t] = NoRequest
  BY DEF Init
<1>2. NoRequest.pc = "idle" /\ NoRequest.cooled = Capacity
  BY DEF NoRequest
<1>3. TypeOK
  BY NoRequestType, CapacityAssumption DEF Init, TypeOK
<1>4. Level = Capacity
  BY ZeroTicks, CapacityAssumption DEF Init, Level, Lesser
<1>5. Capacity <= Capacity * Refill
  BY Products, CapacityAssumption
<1>6. BusyIsCounted /\ BackoffHasRetry /\ PaidAfterDrain
  BY <1>1, <1>2 DEF BusyIsCounted, BackoffHasRetry, PaidAfterDrain, At
<1>7. Earned /\ WithinBudget
  BY <1>1, <1>2, <1>4, <1>5, CapacityAssumption DEF Earned, WithinBudget, Init
<1> QED BY <1>3, <1>6, <1>7 DEF Inv

(***************************************************************************)
(* A step of one thread: it gives its request the value "after", may send  *)
(* waiters back to the loop, and leaves the bucket no fuller.              *)
(***************************************************************************)
LEMMA ThreadStepInv ==
    ASSUME Inv, NEW t \in Threads, NEW after \in Requests, NEW woken \in SUBSET Waiting,
           Leave(t, after, woken),
           client' = client, tokens' \in 0 .. Capacity, elapsed' \in 0 .. Capacity,
           debt' \in Nat, burst' \in Nat,
           Level' <= Level, debt' + Level' <= Capacity,
           after.pc # "idle" => after.served < MaxRequests,
           after.pc = "backoff" => after.attempt < MaxRetries,
           after.pc # "drain" => Level' <= after.cooled * Refill,
           after.pc = "send" => after.cooled * Refill >= after.cost
    PROVE  Inv'
<1>1. /\ req'[t] = after
      /\ \A u \in Threads : u # t =>
            /\ req'[u] \in Requests
            /\ req'[u].cooled = req[u].cooled
            /\ req'[u].served = req[u].served
            /\ req'[u].cost = req[u].cost
            /\ req'[u].attempt = req[u].attempt
            /\ \/ req'[u].pc = req[u].pc
               \/ req'[u].pc = "check" /\ req[u].pc = "wait"
  <2>1. \A u \in Threads : req[u] \in Requests
    BY DEF Inv, TypeOK
  <2>2. \A u \in Threads :
          Moved(req[u], [req[u] EXCEPT !.pc = "check", !.wake = 0], "check")
    BY <2>1, RecordUpdates
  <2>3. req'[t] = after
    BY DEF Leave
  <2>4. ASSUME NEW u \in Threads, u # t
        PROVE  /\ req'[u] \in Requests
               /\ req'[u].cooled = req[u].cooled
               /\ req'[u].served = req[u].served
               /\ req'[u].cost = req[u].cost
               /\ req'[u].attempt = req[u].attempt
               /\ \/ req'[u].pc = req[u].pc
                  \/ req'[u].pc = "check" /\ req[u].pc = "wait"
    <3>1. CASE u \in woken
      <4> DEFINE a == [req[u] EXCEPT !.pc = "check", !.wake = 0]
      <4>1. req'[u] = a /\ req[u].pc = "wait"
        BY <2>4, <3>1 DEF Leave, Waiting, At
      <4>2. Moved(req[u], a, "check")
        BY <2>2
      <4> HIDE DEF a
      <4> QED BY <4>1, <4>2 DEF Moved
    <3>2. CASE u \notin woken
      BY <2>1, <2>4, <3>2 DEF Leave
    <3> QED BY <3>1, <3>2
  <2> QED BY <2>3, <2>4
<1>2. TypeOK'
  <2>1. req' \in [Threads -> Requests]
    <3>1. \A u \in Threads : req'[u] \in Requests
      BY <1>1
    <3>2. req' = [u \in Threads |-> req'[u]]
      BY DEF Leave
    <3> QED BY <3>1, <3>2
  <2> QED BY <2>1 DEF Inv, TypeOK
<1>3. BusyIsCounted' /\ BackoffHasRetry'
  BY <1>1 DEF Inv, BusyIsCounted, BackoffHasRetry, At
<1>4. Earned'
  <2> SUFFICES ASSUME NEW u \in Threads, req'[u].pc # "drain"
               PROVE  Level' <= req'[u].cooled * Refill
    BY DEF Earned, At
  <2>1. CASE u = t
    BY <1>1, <2>1
  <2>2. CASE u # t
    <3>1. Level <= req[u].cooled * Refill /\ req'[u].cooled = req[u].cooled
      BY <1>1, <2>2 DEF Inv, Earned, At
    <3>2. Level \in Nat /\ Level' \in Nat /\ req[u].cooled * Refill \in Nat
      BY LevelInRange, CooledType, <1>2, LevelInRangeNext DEF Inv
    <3> QED BY <3>1, <3>2
  <2> QED BY <2>1, <2>2
<1>5. WithinBudget'
  BY DEF WithinBudget
<1>6. PaidAfterDrain'
  <2> SUFFICES ASSUME NEW u \in Threads, req'[u].pc = "send"
               PROVE  req'[u].cooled * Refill >= req'[u].cost
    BY DEF PaidAfterDrain, At
  <2>1. CASE u = t
    BY <1>1, <2>1
  <2>2. CASE u # t
    BY <1>1, <2>2 DEF Inv, PaidAfterDrain, At
  <2> QED BY <2>1, <2>2
<1> QED BY <1>2, <1>3, <1>4, <1>5, <1>6 DEF Inv

LEMMA UpdateIsLeave ==
    ASSUME TypeOK, NEW t \in Threads, NEW after, req' = [req EXCEPT ![t] = after]
    PROVE  Leave(t, after, {}) /\ {} \in SUBSET Waiting
  BY DEF TypeOK, Leave

LEMMA NotifiedWait == \A woken \in NotifyOne : woken \in SUBSET Waiting
  BY DEF NotifyOne

\* A step that only changes t's request.
LEMMA RequestOnlyInv ==
    ASSUME Inv, NEW t \in Threads, NEW after \in Requests,
           req' = [req EXCEPT ![t] = after],
           UNCHANGED <<client, tokens, elapsed, debt>>, burst' \in Nat,
           after.pc # "idle" => after.served < MaxRequests,
           after.pc = "backoff" => after.attempt < MaxRetries,
           after.pc # "drain" => Level <= after.cooled * Refill,
           after.pc = "send" => after.cooled * Refill >= after.cost
    PROVE  Inv'
<1>1. Leave(t, after, {}) /\ {} \in SUBSET Waiting
  BY UpdateIsLeave DEF Inv
<1>2. Level' = Level /\ Level \in Nat
  BY LevelInRange DEF Inv, Level
<1>3. /\ tokens' \in 0 .. Capacity /\ elapsed' \in 0 .. Capacity
      /\ debt' \in Nat /\ debt' + Level' <= Capacity
  BY <1>2 DEF Inv, TypeOK, WithinBudget
<1> QED BY <1>1, <1>2, <1>3, ThreadStepInv

\* A step that refills the bucket, takes n from it and leaves the lock.
LEMMA BucketStepInv ==
    ASSUME Inv, NEW t \in Threads, NEW after \in Requests, NEW woken \in SUBSET Waiting,
           Leave(t, after, woken), UNCHANGED <<client, burst>>,
           NEW n \in 0 .. Level, tokens' = Level - n, elapsed' = 0, debt' = debt + n,
           after.pc # "idle" => after.served < MaxRequests,
           after.pc = "backoff" => after.attempt < MaxRetries,
           after.pc # "drain" => Level <= after.cooled * Refill,
           after.pc = "send" => after.cooled * Refill >= after.cost
    PROVE  Inv'
<1>1. Level \in 0 .. Capacity /\ Capacity \in Nat
  BY LevelInRange, CapacityAssumption DEF Inv
<1>2. tokens' \in 0 .. Capacity /\ elapsed' \in 0 .. Capacity
  BY <1>1
<1>3. Level' = Level - n
  BY <1>2, LevelWritten
<1>4. debt' \in Nat /\ debt' + Level' <= Capacity /\ burst' \in Nat
  BY <1>1, <1>3 DEF Inv, TypeOK, WithinBudget
<1>5. after.cooled * Refill \in Nat
  <2>1. after.cooled \in Nat
    BY DEF Requests
  <2> QED BY <2>1, Products
<1>6. after.pc # "drain" => Level' <= after.cooled * Refill
  BY <1>1, <1>3, <1>5
<1>7. Level' <= Level
  BY <1>1, <1>3
<1> QED BY <1>2, <1>4, <1>6, <1>7, ThreadStepInv

\* What a busy thread's request satisfies.
LEMMA BusyFacts ==
    ASSUME Inv, NEW t \in Threads, ~At(t, "idle")
    PROVE  /\ req[t] \in Requests
           /\ req[t].served < MaxRequests
           /\ ~At(t, "drain") => Level <= req[t].cooled * Refill
           /\ Over(req[t]) \in Requests
           /\ Over(req[t]).pc = "idle" /\ Over(req[t]).cooled = req[t].cooled
<1>1. req[t] \in Requests /\ req[t].served < MaxRequests
  BY DEF Inv, TypeOK, BusyIsCounted
<1>2. ~At(t, "drain") => Level <= req[t].cooled * Refill
  BY DEF Inv, Earned
<1>3. Over(req[t]).pc = "idle" /\ Over(req[t]).cooled = req[t].cooled
  BY DEF Over, NoRequest
<1> QED BY <1>1, <1>2, <1>3, OverType

LEMMA RequestInv ==
    ASSUME Inv, NEW t \in Threads, NEW c \in Costs, NEW p \in Patience, Request(t, c, p)
    PROVE  Inv'
<1> DEFINE after == IF c > Capacity THEN Over(req[t])
                    ELSE [req[t] EXCEPT !.pc = "check", !.cost = c,
                                        !.patience = p, !.left = p]
<1>1. req[t] \in Requests /\ req[t].served < MaxRequests /\ req[t].pc = "idle"
  BY DEF Inv, TypeOK, Request, At
<1>2. Level <= req[t].cooled * Refill
  BY <1>1 DEF Inv, Earned, At
<1>3. CASE c > Capacity
  <2>1. after = Over(req[t])
    BY <1>3
  <2>2. after.pc = "idle" /\ after.cooled = req[t].cooled /\ after \in Requests
    BY <1>1, <2>1, OverType DEF Over, NoRequest
  <2>3. req' = [req EXCEPT ![t] = after]
    BY <1>3 DEF Request
  <2>4. UNCHANGED <<client, tokens, elapsed, debt>> /\ burst' \in Nat
    BY DEF Request, Inv, TypeOK
  <2> HIDE DEF after
  <2> QED BY <1>2, <2>2, <2>3, <2>4, RequestOnlyInv
<1>4. CASE ~(c > Capacity)
  <2>1. after = [req[t] EXCEPT !.pc = "check", !.cost = c, !.patience = p, !.left = p]
    BY <1>4
  <2>2. /\ after.pc = "check" /\ after.cooled = req[t].cooled
        /\ after.served = req[t].served /\ after \in Requests
    <3>1. c \in Nat
      BY CostsAssumption
    <3> HIDE DEF after
    <3>2. after = Asked(req[t], c, p)
      BY <2>1 DEF Asked
    <3> QED BY <1>1, <3>1, <3>2, AskedType
  <2>3. req' = [req EXCEPT ![t] = after]
    BY <1>4 DEF Request
  <2>4. UNCHANGED <<client, tokens, elapsed, debt>> /\ burst' \in Nat
    BY DEF Request, Inv, TypeOK
  <2> HIDE DEF after
  <2> QED BY <1>1, <1>2, <2>2, <2>3, <2>4, RequestOnlyInv
<1> QED BY <1>3, <1>4

LEMMA AcquireInv ==
    ASSUME Inv, NEW t \in Threads, Grant(t) \/ Wait(t) \/ TimesOut(t) \/ Wake(t)
    PROVE  Inv'
<1>0. /\ ~At(t, "idle") /\ ~At(t, "drain")
      /\ Level \in 0 .. Capacity /\ debt \in Nat /\ burst \in Nat
  BY LevelInRange DEF Grant, Wait, TimesOut, Wake, At, Inv, TypeOK
<1>1. CASE Grant(t)
  <2> DEFINE after == [req[t] EXCEPT !.pc = "send", !.left = Forever]
  <2>1. Moved(req[t], after, "send")
    BY <1>0, BusyFacts, RecordUpdates, Zenon
  <2>2. req[t].cost \in 0 .. Level
    BY <1>0, <1>1, CooledType DEF Grant, Inv
  <2>3. PICK woken \in NotifyOne : Leave(t, after, woken)
    BY <1>1 DEF Grant
  <2>4. Level <= req[t].cooled * Refill /\ req[t].served < MaxRequests
    BY <1>0, BusyFacts
  <2>5. req[t].cooled * Refill >= req[t].cost
    BY <1>0, <2>2, <2>4, CooledType DEF Inv
  <2>6. /\ tokens' = Level - req[t].cost /\ elapsed' = 0
        /\ debt' = debt + req[t].cost /\ UNCHANGED <<client, burst>>
    BY <1>1 DEF Grant
  <2> HIDE DEF after
  <2> QED BY <2>1, <2>2, <2>3, <2>4, <2>5, <2>6, NotifiedWait, BucketStepInv DEF Moved
<1>2. CASE Wait(t)
  <2>1. WaitTicks(t) \in Nat
    <3>1. Level < req[t].cost /\ req[t].left # 0 /\ req[t] \in Requests
      BY <1>0, <1>2, BusyFacts DEF Wait
    <3>2. req[t].cost \in Nat /\ req[t].left \in Nat \cup {Forever}
      BY <3>1 DEF Requests
    <3>3. UntilReady(req[t].cost) \in Nat
      BY <1>0, <3>1, <3>2, RefillAssumption DEF UntilReady
    <3> QED BY <3>2, <3>3 DEF WaitTicks, Lesser
  <2> DEFINE after == [req[t] EXCEPT !.pc = "wait", !.wake = WaitTicks(t)]
  <2>2. Moved(req[t], after, "wait")
    BY <1>0, <2>1, BusyFacts, RecordUpdates, Zenon
  <2>3. req' = [req EXCEPT ![t] = after]
    BY <1>2 DEF Wait
  <2>4. Leave(t, after, {}) /\ {} \in SUBSET Waiting
    BY <2>3, UpdateIsLeave DEF Inv
  <2>5. Level <= req[t].cooled * Refill /\ req[t].served < MaxRequests
    BY <1>0, BusyFacts
  <2>6. /\ tokens' = Level - 0 /\ elapsed' = 0 /\ debt' = debt + 0 /\ 0 \in 0 .. Level
        /\ UNCHANGED <<client, burst>>
    BY <1>0, <1>2 DEF Wait
  <2> HIDE DEF after
  <2> QED BY <2>2, <2>4, <2>5, <2>6, BucketStepInv DEF Moved
<1>3. CASE TimesOut(t)
  <2>1. PICK woken \in NotifyOne : Leave(t, Over(req[t]), woken)
    BY <1>3 DEF TimesOut
  <2>2. /\ Over(req[t]) \in Requests /\ Over(req[t]).pc = "idle"
        /\ Level <= Over(req[t]).cooled * Refill
    BY <1>0, BusyFacts
  <2>3. /\ tokens' = Level - 0 /\ elapsed' = 0 /\ debt' = debt + 0 /\ 0 \in 0 .. Level
        /\ UNCHANGED <<client, burst>>
    BY <1>0, <1>3 DEF TimesOut
  <2> QED BY <2>1, <2>2, <2>3, NotifiedWait, BucketStepInv
<1>4. CASE Wake(t)
  <2> DEFINE after == [req[t] EXCEPT !.pc = "check"]
  <2>1. Moved(req[t], after, "check")
    BY <1>0, BusyFacts, RecordUpdates, Zenon
  <2>2. req' = [req EXCEPT ![t] = after]
    BY <1>4 DEF Wake
  <2>3. UNCHANGED <<client, tokens, elapsed, debt>> /\ burst' \in Nat
    BY <1>0, <1>4 DEF Wake
  <2>4. Level <= req[t].cooled * Refill /\ req[t].served < MaxRequests
    BY <1>0, BusyFacts
  <2> HIDE DEF after
  <2> QED BY <2>1, <2>2, <2>3, <2>4, RequestOnlyInv DEF Moved
<1> QED BY <1>1, <1>2, <1>3, <1>4

\* Every outcome of a retryable failure: the request is over or backs off.
LEMMA RetriedFacts ==
    ASSUME Inv, NEW t \in Threads, ~At(t, "idle"), NEW r \in Retried(req[t])
    PROVE  /\ r \in Requests /\ r.pc \in {"idle", "backoff"}
           /\ r.cooled = req[t].cooled /\ r.served \in Nat
           /\ r.pc = "backoff" => r.served < MaxRequests /\ r.attempt < MaxRetries
<1>1. /\ req[t] \in Requests /\ req[t].served < MaxRequests /\ Over(req[t]) \in Requests
      /\ Over(req[t]).pc = "idle" /\ Over(req[t]).cooled = req[t].cooled
  BY BusyFacts
<1>2. CASE req[t].attempt >= MaxRetries
  <2>1. r = Over(req[t])
    BY <1>2 DEF Retried
  <2>2. r.served \in Nat
    BY <1>1, <2>1 DEF Requests
  <2> QED BY <1>1, <2>1, <2>2
<1>3. CASE ~(req[t].attempt >= MaxRetries)
  <2>1. PICK n \in Backoffs(req[t].attempt) :
            r = [req[t] EXCEPT !.pc = "backoff", !.wake = n]
    BY <1>3 DEF Retried
  <2>2. n \in Nat
    BY <2>1 DEF Backoffs
  <2>3. Moved(req[t], r, "backoff")
    BY <1>1, <2>1, <2>2, RecordUpdates, Zenon
  <2>4. r.served \in Nat
    BY <2>3 DEF Moved, Requests
  <2>5. req[t].attempt < MaxRetries
    BY <1>1, <1>3, RetryAssumption DEF Requests
  <2> QED BY <1>1, <2>3, <2>4, <2>5 DEF Moved
<1> QED BY <1>2, <1>3

LEMMA RetryInv ==
    ASSUME Inv, NEW t \in Threads,
           Send(t) \/ Answered(t) \/ Fails(t) \/ Throttled(t) \/ Drain(t) \/ Retry(t)
    PROVE  Inv'
<1>0. /\ ~At(t, "idle") /\ req[t] \in Requests /\ req[t].served < MaxRequests
      /\ Level \in 0 .. Capacity /\ debt \in Nat /\ burst \in Nat
  <2>1. ~At(t, "idle")
    BY DEF Send, Answered, Fails, Throttled, Drain, Retry, At
  <2> QED BY <2>1, LevelInRange, BusyFacts DEF Inv, TypeOK
<1>1. CASE Send(t)
  <2> DEFINE after == [req[t] EXCEPT !.pc = "sent"]
  <2>1. Moved(req[t], after, "sent")
    BY <1>0, RecordUpdates, Zenon
  <2>2. Level <= req[t].cooled * Refill
    BY <1>0, <1>1, BusyFacts DEF Send, At
  <2>3. req' = [req EXCEPT ![t] = after]
    BY <1>1 DEF Send
  <2>4. UNCHANGED <<client, tokens, elapsed, debt>> /\ burst' \in Nat
    BY <1>0, <1>1, CooledType DEF Send, Inv
  <2> HIDE DEF after
  <2> QED BY <1>0, <2>1, <2>2, <2>3, <2>4, RequestOnlyInv DEF Moved
<1>2. CASE Answered(t)
  <2>1. /\ Over(req[t]) \in Requests /\ Over(req[t]).pc = "idle"
        /\ Level <= Over(req[t]).cooled * Refill
    BY <1>0, <1>2, BusyFacts DEF Answered, At
  <2>2. req' = [req EXCEPT ![t] = Over(req[t])]
    BY <1>2 DEF Answered
  <2>3. UNCHANGED <<client, tokens, elapsed, debt>> /\ burst' \in Nat
    BY <1>0, <1>2 DEF Answered
  <2> QED BY <2>1, <2>2, <2>3, RequestOnlyInv
<1>3. CASE Fails(t)
  <2>1. PICK r \in Retried(req[t]) : req' = [req EXCEPT ![t] = r]
    BY <1>3 DEF Fails
  <2>2. /\ r \in Requests /\ r.pc \in {"idle", "backoff"} /\ r.cooled = req[t].cooled
        /\ r.pc = "backoff" => r.served < MaxRequests /\ r.attempt < MaxRetries
    BY <1>0, RetriedFacts
  <2>3. Level <= r.cooled * Refill
    BY <1>0, <1>3, <2>2, BusyFacts DEF Fails, At
  <2>4. UNCHANGED <<client, tokens, elapsed, debt>> /\ burst' \in Nat
    BY <1>0, <1>3 DEF Fails
  <2> QED BY <2>1, <2>2, <2>3, <2>4, RequestOnlyInv
<1>4. CASE Throttled(t)
  <2> DEFINE after == [req[t] EXCEPT !.pc = "drain", !.cooled = 0]
  <2>1. after \in Requests /\ after.pc = "drain" /\ after.served = req[t].served
    BY <1>0, ThrottledUpdate, Zenon
  <2>2. req' = [req EXCEPT ![t] = after]
    BY <1>4 DEF Throttled
  <2>3. UNCHANGED <<client, tokens, elapsed, debt>> /\ burst' \in Nat
    BY <1>0, <1>4 DEF Throttled
  <2> HIDE DEF after
  <2> QED BY <1>0, <2>1, <2>2, <2>3, RequestOnlyInv
<1>5. CASE Drain(t)
  <2>1. PICK r \in Retried(req[t]) : Leave(t, r, Waiting)
    BY <1>5 DEF Drain
  <2>2. /\ r \in Requests /\ r.pc \in {"idle", "backoff"}
        /\ r.pc = "backoff" => r.served < MaxRequests /\ r.attempt < MaxRetries
    BY <1>0, RetriedFacts
  <2>3. tokens' = 0 /\ elapsed' = 0 /\ UNCHANGED <<client, debt, burst>>
    BY <1>5 DEF Drain
  <2>4. Level' = 0 /\ tokens' \in 0 .. Capacity /\ elapsed' \in 0 .. Capacity
    BY <2>3, LevelWritten, CapacityAssumption
  <2>5. debt' + Level' <= Capacity /\ Level' <= Level
    BY <1>0, <2>3, <2>4, CapacityAssumption DEF Inv, WithinBudget
  <2>6. Level' <= r.cooled * Refill
    <3>1. r.cooled \in Nat
      BY <2>2 DEF Requests
    <3> QED BY <2>4, <3>1, Products
  <2>7. Waiting \in SUBSET Waiting
    OBVIOUS
  <2> QED BY <1>0, <2>1, <2>2, <2>3, <2>4, <2>5, <2>6, <2>7, ThreadStepInv
<1>6. CASE Retry(t)
  <2> DEFINE n == req[t].attempt + 1
             l == req[t].patience
             after == [req[t] EXCEPT !.pc = "check", !.attempt = n, !.left = l]
  <2>0. n \in 0 .. MaxRetries
    BY <1>0, <1>6, RetryAssumption DEF Inv, BackoffHasRetry, Retry, At, Requests
  <2>1. l \in Nat \cup {Forever}
    BY <1>0, PatienceAssumption DEF Requests
  <2>2. req' = [req EXCEPT ![t] = after]
    BY <1>6 DEF Retry
  <2>3. /\ after \in Requests /\ after.pc = "check"
        /\ after.cooled = req[t].cooled /\ after.served = req[t].served
    <3>1. after = Again(req[t], n, l)
      BY DEF Again
    <3> HIDE DEF n, l, after
    <3> QED BY <1>0, <2>0, <2>1, <3>1, AgainType
  <2>4. UNCHANGED <<client, tokens, elapsed, debt>> /\ burst' \in Nat
    BY <1>0, <1>6 DEF Retry
  <2>5. Level <= req[t].cooled * Refill
    BY <1>0, <1>6, BusyFacts DEF Retry, At
  <2> HIDE DEF after
  <2> QED BY <1>0, <2>2, <2>3, <2>4, <2>5, RequestOnlyInv
<1> QED BY <1>1, <1>2, <1>3, <1>4, <1>5, <1>6

LEMMA TickInv == ASSUME Inv, Tick PROVE Inv'
<1> DEFINE Older(r) == [r EXCEPT !.wake = CountDown(@), !.left = CountDown(@),
                                 !.cooled = Lesser(Capacity, @ + 1)]
<1>1. \A t \in Threads : req'[t] = Older(req[t])
  BY DEF Tick
<1>2. ASSUME NEW r \in Requests
      PROVE  /\ Older(r) \in Requests /\ Older(r).pc = r.pc /\ Older(r).cost = r.cost
             /\ Older(r).served = r.served /\ Older(r).attempt = r.attempt
             /\ Older(r).cooled = Lesser(Capacity, r.cooled + 1)
  <2>1. r.wake \in Nat /\ r.left \in Nat \cup {Forever} /\ r.cooled \in 0 .. Capacity
    BY DEF Requests
  <2>2. CountDown(r.wake) \in Nat /\ CountDown(r.left) \in Nat \cup {Forever}
    BY <2>1 DEF CountDown, Forever
  <2>3. Lesser(Capacity, r.cooled + 1) \in 0 .. Capacity
    BY <2>1, CapacityAssumption DEF Lesser
  <2> QED BY <2>2, <2>3 DEF Requests
<1> HIDE DEF Older
<1>3. ASSUME NEW t \in Threads
      PROVE  /\ req'[t] \in Requests /\ req'[t].pc = req[t].pc /\ req'[t].cost = req[t].cost
             /\ req'[t].served = req[t].served /\ req'[t].attempt = req[t].attempt
             /\ req'[t].cooled = Lesser(Capacity, req[t].cooled + 1)
  <2>1. req[t] \in Requests
    BY DEF Inv, TypeOK
  <2> QED BY <1>1, <1>2, <2>1
<1>4. Level' = Lesser(Capacity, Level + Refill) /\ Level \in 0 .. Capacity
  BY LevelTicks, LevelInRange DEF Inv
<1>5. TypeOK'
  <2>1. req' \in [Threads -> Requests]
    <3>1. req' = [t \in Threads |-> req'[t]]
      BY DEF Tick
    <3> QED BY <1>3, <3>1
  <2>2. elapsed' = Lesser(Capacity, elapsed + 1) /\ client' = client /\ tokens' = tokens
    BY DEF Tick
  <2>3. elapsed' \in 0 .. Capacity
    BY <2>2, CapacityAssumption DEF Lesser, Inv, TypeOK
  <2>4. debt' \in Nat /\ burst' \in Nat
    <3>1. debt' = Minus(debt, Refill) /\ burst' = Minus(burst, Refill)
      BY DEF Tick
    <3>2. debt \in Nat /\ burst \in Nat
      BY DEF Inv, TypeOK
    <3> QED BY <3>1, <3>2, RefillAssumption DEF Minus
  <2> QED BY <2>1, <2>2, <2>3, <2>4 DEF Inv, TypeOK
<1>6. BusyIsCounted' /\ BackoffHasRetry'
  BY <1>3 DEF Inv, BusyIsCounted, BackoffHasRetry, At
<1>7. \A t \in Threads : \/ req'[t].cooled * Refill = req[t].cooled * Refill + Refill
                         \/ req'[t].cooled * Refill >= Capacity /\ req'[t].cooled = req[t].cooled
  <2> SUFFICES ASSUME NEW t \in Threads
               PROVE  \/ req'[t].cooled * Refill = req[t].cooled * Refill + Refill
                      \/ req'[t].cooled * Refill >= Capacity /\ req'[t].cooled = req[t].cooled
    OBVIOUS
  <2>1. req[t].cooled \in 0 .. Capacity /\ req[t].cooled \in Nat /\ Capacity \in Nat
    BY CooledType, CapacityAssumption DEF Inv
  <2>2. CASE req[t].cooled < Capacity
    <3>1. req'[t].cooled = req[t].cooled + 1
      BY <1>3, <2>1, <2>2 DEF Lesser
    <3> QED BY <2>1, <3>1, Products
  <2>3. CASE ~(req[t].cooled < Capacity)
    <3>1. req[t].cooled = Capacity /\ req'[t].cooled = Capacity
      BY <1>3, <2>1, <2>3 DEF Lesser
    <3>2. Capacity * Refill \in Nat /\ Capacity <= Capacity * Refill
      BY <2>1, Products
    <3> QED BY <2>1, <3>1, <3>2
  <2> QED BY <2>2, <2>3
<1>8. Earned'
  <2> SUFFICES ASSUME NEW t \in Threads, req'[t].pc # "drain"
               PROVE  Level' <= req'[t].cooled * Refill
    BY DEF Earned, At
  <2>1. Level <= req[t].cooled * Refill /\ req[t].cooled * Refill \in Nat
    BY <1>3, CooledType DEF Inv, Earned, At
  <2>2. Level' <= Capacity /\ Level' <= Level + Refill
    BY <1>4, CapacityAssumption, RefillAssumption DEF Lesser
  <2>3. CASE req'[t].cooled * Refill = req[t].cooled * Refill + Refill
    BY <2>1, <2>2, <2>3, <1>4, CapacityAssumption, RefillAssumption DEF Lesser
  <2>4. CASE req'[t].cooled * Refill >= Capacity /\ req'[t].cooled = req[t].cooled
    BY <2>1, <2>2, <2>4, <1>4, CapacityAssumption, RefillAssumption DEF Lesser
  <2> QED BY <1>7, <2>3, <2>4
<1>9. WithinBudget'
  <2>1. debt' = Minus(debt, Refill)
    BY DEF Tick
  <2>2. debt \in Nat /\ debt + Level <= Capacity
    BY DEF Inv, TypeOK, WithinBudget
  <2> QED BY <1>4, <2>1, <2>2, CapacityAssumption, RefillAssumption
          DEF WithinBudget, Minus, Lesser
<1>10. PaidAfterDrain'
  <2> SUFFICES ASSUME NEW t \in Threads, req'[t].pc = "send"
               PROVE  req'[t].cooled * Refill >= req'[t].cost
    BY DEF PaidAfterDrain, At
  <2>1. /\ req[t].cooled * Refill >= req[t].cost /\ req'[t].cost = req[t].cost
        /\ req[t].cooled * Refill \in Nat /\ req[t].cost \in Nat
    BY <1>3, CooledType DEF Inv, PaidAfterDrain, At
  <2> QED BY <2>1, <1>7, RefillAssumption
<1> QED BY <1>5, <1>6, <1>8, <1>9, <1>10 DEF Inv

LEMMA StepInv == ASSUME Inv, [Next]_vars PROVE Inv'
<1>1. CASE Tick
  BY <1>1, TickInv
<1>2. ASSUME NEW t \in Threads, Step(t) PROVE Inv'
  BY <1>2, AcquireInv, RetryInv DEF Step
<1>3. ASSUME NEW t \in Threads, NEW c \in Costs, NEW p \in Patience, Request(t, c, p)
      PROVE  Inv'
  BY <1>3, RequestInv
<1>4. CASE UNCHANGED vars
  BY <1>4 DEF vars, Inv, TypeOK, BusyIsCounted, BackoffHasRetry, Earned, WithinBudget,
              PaidAfterDrain, At, Level
<1> QED BY <1>1, <1>2, <1>3, <1>4 DEF Next

LEMMA Invariant == Spec => []Inv
<1> QED BY InitInv, StepInv, PTL DEF Spec

-----------------------------------------------------------------------------
(* Every variable of the rate limiter keeps its type, and the bucket stays *)
(* between nothing and its capacity (rate_limit.py).                       *)
THEOREM BudgetTypes == Spec => []TypeOK
<1>1. Inv => TypeOK
  BY DEF Inv
<1> QED BY <1>1, Invariant, PTL

(* acquire() never grants more, over any stretch of time, than a full      *)
(* bucket and its refills.                                                 *)
THEOREM BudgetIsKept == Spec => []RateRespected
<1>1. Inv => RateRespected
  BY LevelInRange, CapacityAssumption DEF Inv, WithinBudget, RateRespected, TypeOK
<1> QED BY <1>1, Invariant, PTL

(* After a 429 that drains the bucket, the thread's next request waits for *)
(* the tokens an empty bucket earns (kalshi_connector/client/retry.py).    *)
THEOREM DrainIsPaid == Spec => []PaidAfterDrain
<1>1. Inv => PaidAfterDrain
  BY DEF Inv
<1> QED BY <1>1, Invariant, PTL

-----------------------------------------------------------------------------
(***************************************************************************)
(* Refinement: every step of the threads is a step of RateBudget or leaves *)
(* the budget alone.                                                       *)
(***************************************************************************)
BudgetVars == <<Level, debt>>

LEMMA BudgetStep == ASSUME Inv, [Next]_vars PROVE Budget!Next \/ UNCHANGED BudgetVars
<1>0. TypeOK /\ Level \in 0 .. Capacity /\ debt \in Nat
  BY LevelInRange DEF Inv, TypeOK
<1>1. CASE Tick
  <2>1. Level' = Lesser(Capacity, Level + Refill) /\ debt' = Minus(debt, Refill)
    BY <1>0, <1>1, LevelTicks DEF Tick
  <2> QED BY <2>1 DEF Budget!Next, Budget!Tick, Budget!Lesser, Budget!Minus, Lesser, Minus
<1>2. ASSUME NEW t \in Threads, Grant(t) PROVE Budget!Next
  <2>1. req[t].cost \in Nat
    BY <1>0, CooledType
  <2>2. Level >= req[t].cost /\ tokens' = Level - req[t].cost /\ elapsed' = 0
        /\ debt' = debt + req[t].cost
    BY <1>2 DEF Grant
  <2>3. Level' = Level - req[t].cost
    BY <1>0, <2>1, <2>2, LevelWritten, CapacityAssumption
  <2> QED BY <1>0, <2>1, <2>2, <2>3 DEF Budget!Next, Budget!Spend
<1>3. ASSUME NEW t \in Threads, Wait(t) \/ TimesOut(t) PROVE UNCHANGED BudgetVars
  <2>1. tokens' = Level /\ elapsed' = 0 /\ debt' = debt
    BY <1>3 DEF Wait, TimesOut
  <2>2. Level' = Level
    BY <1>0, <2>1, LevelWritten
  <2> QED BY <2>1, <2>2 DEF BudgetVars
<1>4. ASSUME NEW t \in Threads, Drain(t) PROVE Budget!Next
  <2>1. tokens' = 0 /\ elapsed' = 0 /\ debt' = debt
    BY <1>4 DEF Drain
  <2>2. Level' = 0
    BY <2>1, LevelWritten, CapacityAssumption
  <2> QED BY <2>1, <2>2 DEF Budget!Next, Budget!Forfeit
<1>5. ASSUME UNCHANGED <<tokens, elapsed, debt>> PROVE UNCHANGED BudgetVars
  BY <1>5 DEF BudgetVars, Level
<1>6. ASSUME NEW t \in Threads, Step(t) PROVE Budget!Next \/ UNCHANGED BudgetVars
  <2>1. CASE Wake(t) \/ Send(t) \/ Answered(t) \/ Fails(t) \/ Throttled(t) \/ Retry(t)
    BY <1>5, <2>1 DEF Wake, Send, Answered, Fails, Throttled, Retry
  <2> QED BY <1>2, <1>3, <1>4, <1>6, <2>1 DEF Step
<1>7. ASSUME NEW t \in Threads, NEW c \in Costs, NEW p \in Patience, Request(t, c, p)
      PROVE  UNCHANGED BudgetVars
  BY <1>5, <1>7 DEF Request
<1>8. CASE UNCHANGED vars
  BY <1>5, <1>8 DEF vars
<1> QED BY <1>1, <1>6, <1>7, <1>8 DEF Next

(* What a user of the limiter may rely on, RateBudget, is what the lazily  *)
(* refilled, locked and notified bucket of rate_limit.py provides.         *)
THEOREM LimiterKeepsBudget == Spec => ImplementsBudget
<1>1. Init => Budget!Init
  BY ZeroTicks, CapacityAssumption DEF Init, Budget!Init, Level, Lesser
<1>2. Inv /\ [Next]_vars => [Budget!Next]_<<Level, debt>>
  BY BudgetStep DEF BudgetVars
<1> QED BY <1>1, <1>2, Invariant, PTL DEF Spec, ImplementsBudget, Budget!Spec

-----------------------------------------------------------------------------
(***************************************************************************)
(* What was granted and is not yet sent: with the level of the bucket and  *)
(* what was sent beyond the refills it never exceeds a full bucket and one *)
(* costliest request per thread.  It is counted token by token, as a set   *)
(* of pairs of a thread and a number up to its cost.                       *)
(***************************************************************************)
Most == CostliestSendable

Unsent == [t \in Threads |-> IF At(t, "send") THEN req[t].cost ELSE 0]

TokensOf(T, f) == {x \in T \X (1 .. Most) : x[2] <= f[x[1]]}

BusyCanSend == \A t \in Threads : ~At(t, "idle") => req[t].cost \in Sendable

WithinSends ==
    burst + Cardinality(TokensOf(Threads, Unsent)) + Level <= Capacity + Cardinality(Threads) * Most

SendInv == BusyCanSend /\ WithinSends

\* There is a costliest cost that can be sent.
LEMMA MostIsGreatest ==
    /\ Most \in Sendable /\ Most \in Nat
    /\ \A c \in Sendable : c \in 0 .. Most
<1>1. Sendable \in SUBSET (0 .. Capacity) /\ Sendable # {}
  <2>1. ASSUME NEW c \in Sendable PROVE c \in 0 .. Capacity
    BY CapacityAssumption, CostsAssumption DEF Sendable
  <2>2. 0 \in Sendable
    BY DEF Sendable
  <2> QED BY <2>1, <2>2
<1>2. \E c \in Sendable : \A d \in Sendable : d <= c
  BY <1>1, GreatestExists, CapacityAssumption
<1>3. Most \in Sendable /\ \A d \in Sendable : d <= Most
  BY <1>2 DEF Most, CostliestSendable
<1> QED BY <1>1, <1>3

\* The tokens of all threads are those of one and those of the others.
LEMMA TokensSplit ==
    ASSUME NEW f \in [Threads -> 0 .. Most], NEW t \in Threads
    PROVE  /\ Cardinality(TokensOf(Threads \ {t}, f)) \in Nat
           /\ Cardinality(TokensOf(Threads, f)) = Cardinality(TokensOf(Threads \ {t}, f)) + f[t]
<1> DEFINE others == TokensOf(Threads \ {t}, f)
           own    == {t} \X (1 .. f[t])
<1>1. Most \in Nat /\ f[t] \in Nat /\ f[t] <= Most
  BY MostIsGreatest
<1>2. IsFiniteSet(Threads \X (1 .. Most))
  <2>1. IsFiniteSet(1 .. Most)
    BY <1>1, FS_Interval
  <2> QED BY <2>1, ThreadsAssumption, FS_Product
<1>3. others \in SUBSET (Threads \X (1 .. Most))
  BY DEF TokensOf
<1>4. IsFiniteSet(others) /\ Cardinality(others) \in Nat
  BY <1>2, <1>3, FS_Subset, FS_CardinalityType
<1>5. IsFiniteSet(own) /\ Cardinality(own) = f[t]
  <2>1. IsFiniteSet({t}) /\ Cardinality({t}) = 1
    BY FS_Singleton
  <2>2. IsFiniteSet(1 .. f[t]) /\ Cardinality(1 .. f[t]) = f[t]
    BY <1>1, FS_Interval
  <2> QED BY <1>1, <2>1, <2>2, FS_Product
<1>6. others \cap own = {}
  BY DEF TokensOf
<1>7. TokensOf(Threads, f) = others \cup own
  BY <1>1 DEF TokensOf
<1>8. Cardinality(others \cup own) = Cardinality(others) + Cardinality(own) - Cardinality({})
  <2> HIDE DEF others, own
  <2> QED BY <1>4, <1>5, <1>6, FS_Union
<1>9. Cardinality({}) = 0
  BY FS_EmptySet
<1> HIDE DEF others, own
<1> QED BY <1>1, <1>4, <1>5, <1>7, <1>8, <1>9 DEF others

\* There are never more of them than one costliest request per thread.
LEMMA TokensBounded ==
    ASSUME NEW f \in [Threads -> 0 .. Most]
    PROVE  /\ Cardinality(TokensOf(Threads, f)) \in Nat
           /\ Cardinality(Threads) * Most \in Nat
           /\ Cardinality(TokensOf(Threads, f)) <= Cardinality(Threads) * Most
<1>1. Most \in Nat
  BY MostIsGreatest
<1>2. IsFiniteSet(1 .. Most) /\ Cardinality(1 .. Most) = Most
  BY <1>1, FS_Interval
<1>3. /\ IsFiniteSet(Threads \X (1 .. Most))
      /\ Cardinality(Threads \X (1 .. Most)) = Cardinality(Threads) * Most
  BY <1>2, ThreadsAssumption, FS_Product
<1>4. TokensOf(Threads, f) \in SUBSET (Threads \X (1 .. Most))
  BY DEF TokensOf
<1>5. /\ IsFiniteSet(TokensOf(Threads, f))
      /\ Cardinality(TokensOf(Threads, f)) <= Cardinality(Threads) * Most
  BY <1>3, <1>4, FS_Subset
<1>6. Cardinality(Threads) * Most \in Nat
  BY <1>3, FS_CardinalityType
<1> QED BY <1>5, <1>6, FS_CardinalityType

LEMMA UnsentType == ASSUME TypeOK, BusyCanSend PROVE Unsent \in [Threads -> 0 .. Most]
<1>1. ASSUME NEW t \in Threads PROVE Unsent[t] \in 0 .. Most
  <2>1. CASE At(t, "send")
    BY <2>1, MostIsGreatest DEF Unsent, BusyCanSend, At
  <2>2. CASE ~At(t, "send")
    BY <2>2, MostIsGreatest DEF Unsent
  <2> QED BY <2>1, <2>2
<1> QED BY <1>1 DEF Unsent

LEMMA InitSendInv == Init => SendInv
<1> SUFFICES ASSUME Init PROVE SendInv
  OBVIOUS
<1>1. \A t \in Threads : At(t, "idle")
  BY DEF Init, At, NoRequest
<1>2. BusyCanSend /\ TypeOK
  BY <1>1, InitInv DEF BusyCanSend, Inv
<1>3. \A t \in Threads : Unsent[t] = 0
  BY <1>1 DEF Unsent, At
<1>4. TokensOf(Threads, Unsent) = {}
  BY <1>3 DEF TokensOf
<1>5. Cardinality(TokensOf(Threads, Unsent)) = 0
  BY <1>4, FS_EmptySet
<1>6. Level \in 0 .. Capacity /\ burst = 0
  BY <1>2, LevelInRange DEF Init
<1>7. Cardinality(Threads) * Most \in Nat
  BY <1>2, UnsentType, TokensBounded
<1> QED BY <1>2, <1>5, <1>6, <1>7, CapacityAssumption DEF SendInv, WithinSends

(***************************************************************************)
(* A step of one thread: what it puts into the bucket, its own hands and   *)
(* what was sent, it takes from the bucket or its own hands.               *)
(***************************************************************************)
LEMMA ThreadStepSends ==
    ASSUME Inv, Inv', SendInv, NEW t \in Threads, NEW after, NEW woken \in SUBSET Waiting,
           Leave(t, after, woken),
           after.pc # "idle" => after.cost \in Sendable,
           burst' + Level' + (IF after.pc = "send" THEN after.cost ELSE 0)
              <= burst + Level + Unsent[t]
    PROVE  SendInv'
<1>1. /\ req'[t] = after
      /\ \A u \in Threads \ {t} :
            /\ req'[u].cost = req[u].cost
            /\ \/ req'[u].pc = req[u].pc
               \/ req'[u].pc = "check" /\ req[u].pc = "wait"
  <2>1. \A u \in Threads : req[u] \in Requests
    BY DEF Inv, TypeOK
  <2>2. ASSUME NEW u \in Threads \ {t}
        PROVE  /\ req'[u].cost = req[u].cost
               /\ \/ req'[u].pc = req[u].pc
                  \/ req'[u].pc = "check" /\ req[u].pc = "wait"
    <3>1. CASE u \in woken
      <4> DEFINE a == [req[u] EXCEPT !.pc = "check", !.wake = 0]
      <4>1. req'[u] = a /\ req[u].pc = "wait"
        BY <3>1 DEF Leave, Waiting, At
      <4>2. Moved(req[u], a, "check")
        BY <2>1, RecordUpdates
      <4> HIDE DEF a
      <4> QED BY <4>1, <4>2 DEF Moved
    <3>2. CASE u \notin woken
      BY <3>2 DEF Leave
    <3> QED BY <3>1, <3>2
  <2> QED BY <2>2 DEF Leave
<1>2. BusyCanSend'
  BY <1>1 DEF SendInv, BusyCanSend, At
<1>3. /\ Unsent \in [Threads -> 0 .. Most]
      /\ Unsent' \in [Threads -> 0 .. Most]
  <2>1. Unsent \in [Threads -> 0 .. Most]
    BY UnsentType DEF Inv, SendInv
  <2>2. ASSUME NEW u \in Threads PROVE Unsent'[u] \in 0 .. Most
    <3>1. CASE req'[u].pc = "send"
      BY <1>2, <3>1, MostIsGreatest DEF Unsent, BusyCanSend, At
    <3>2. CASE req'[u].pc # "send"
      BY <3>2, MostIsGreatest DEF Unsent, At
    <3> QED BY <3>1, <3>2
  <2> QED BY <2>1, <2>2 DEF Unsent
<1>4. Unsent'[t] = IF after.pc = "send" THEN after.cost ELSE 0
  BY <1>1 DEF Unsent, At
<1>5. \A u \in Threads \ {t} : Unsent'[u] = Unsent[u]
  BY <1>1 DEF Unsent, At
<1>6. TokensOf(Threads \ {t}, Unsent') = TokensOf(Threads \ {t}, Unsent)
  BY <1>5 DEF TokensOf
<1> DEFINE n == Cardinality(TokensOf(Threads \ {t}, Unsent))
           total == Cardinality(TokensOf(Threads, Unsent))
           later == Cardinality(TokensOf(Threads, Unsent'))
<1>7. n \in Nat /\ total = n + Unsent[t] /\ later = n + Unsent'[t]
  BY <1>3, <1>6, TokensSplit
<1>8. burst \in Nat /\ burst' \in Nat /\ Level \in Nat /\ Level' \in Nat
  BY LevelInRange, LevelInRangeNext DEF Inv, TypeOK
<1>9. Cardinality(Threads) * Most \in Nat /\ Most \in Nat
  BY <1>3, TokensBounded, MostIsGreatest
<1>10. burst + total + Level <= Capacity + Cardinality(Threads) * Most
  BY DEF SendInv, WithinSends
<1>11. Unsent[t] \in Nat /\ Unsent'[t] \in Nat /\ burst' + Level' + Unsent'[t] <= burst + Level + Unsent[t]
  BY <1>3, <1>4, <1>9
<1> HIDE DEF n, total, later
<1>12. burst' + later + Level' <= Capacity + Cardinality(Threads) * Most
  BY <1>7, <1>8, <1>9, <1>10, <1>11, CapacityAssumption
<1>13. WithinSends'
  BY <1>12 DEF WithinSends, later, Most, CostliestSendable, Sendable
<1> QED BY <1>2, <1>13 DEF SendInv

\* A step that only changes t's request, and does not send.
LEMMA QuietStepSends ==
    ASSUME Inv, Inv', SendInv, NEW t \in Threads, NEW after, req' = [req EXCEPT ![t] = after],
           burst' = burst, Level' = Level,
           after.pc # "send", after.pc # "idle" => after.cost \in Sendable
    PROVE  SendInv'
<1>1. Leave(t, after, {}) /\ {} \in SUBSET Waiting
  BY UpdateIsLeave DEF Inv
<1>2. Unsent[t] \in Nat
  BY UnsentType, MostIsGreatest DEF Inv, SendInv
<1>3. burst \in Nat /\ Level \in Nat /\ Level' \in Nat
  BY LevelInRange, LevelInRangeNext DEF Inv, TypeOK
<1>4. burst' + Level' + (IF after.pc = "send" THEN after.cost ELSE 0) <= burst + Level + Unsent[t]
  BY <1>2, <1>3
<1> QED BY <1>1, <1>4, ThreadStepSends

LEMMA SendStep == ASSUME Inv, Inv', SendInv, NEW t \in Threads, Step(t) PROVE SendInv'
<1>1. /\ req[t] \in Requests /\ ~At(t, "idle") /\ req[t].cost \in Sendable /\ req[t].cost \in Nat
      /\ Level \in 0 .. Capacity /\ Level' \in 0 .. Capacity /\ burst \in Nat
      /\ Unsent[t] \in Nat /\ (At(t, "send") => Unsent[t] = req[t].cost)
  <2>1. ~At(t, "idle")
    BY DEF Step, Grant, Wait, TimesOut, Wake, Send, Answered, Fails, Throttled, Drain, Retry, At
  <2>2. req[t].cost \in Sendable
    BY <2>1 DEF SendInv, BusyCanSend
  <2>3. Unsent[t] \in Nat
    BY UnsentType, MostIsGreatest DEF Inv, SendInv
  <2>4. req[t] \in Requests /\ req[t].cost \in Nat
    BY CooledType DEF Inv
  <2>5. Level \in 0 .. Capacity /\ Level' \in 0 .. Capacity /\ burst \in Nat
    BY LevelInRange, LevelInRangeNext DEF Inv, TypeOK
  <2>6. At(t, "send") => Unsent[t] = req[t].cost
    BY DEF Unsent
  <2> QED BY <2>1, <2>2, <2>3, <2>4, <2>5, <2>6
<1>2. Over(req[t]).pc = "idle"
  BY DEF Over, NoRequest
<1>3. ASSUME NEW r \in Retried(req[t])
      PROVE  /\ r.pc \in {"idle", "backoff"}
             /\ r.pc = "backoff" => r.cost = req[t].cost
  <2>1. CASE r = Over(req[t])
    BY <1>2, <2>1
  <2>2. CASE r # Over(req[t])
    <3>1. PICK n \in Backoffs(req[t].attempt) : r = [req[t] EXCEPT !.pc = "backoff", !.wake = n]
      BY <1>3, <2>2 DEF Retried
    <3>2. n \in Nat
      BY <3>1 DEF Backoffs
    <3>3. Moved(req[t], r, "backoff")
      BY <1>1, <3>1, <3>2, RecordUpdates, Zenon
    <3> QED BY <3>3 DEF Moved
  <2> QED BY <2>1, <2>2
<1>4. CASE Grant(t)
  <2> DEFINE after == [req[t] EXCEPT !.pc = "send", !.left = Forever]
  <2>1. PICK woken \in NotifyOne : Leave(t, after, woken)
    BY <1>4 DEF Grant
  <2>2. Moved(req[t], after, "send")
    BY <1>1, RecordUpdates, Zenon
  <2>3. /\ Level >= req[t].cost /\ tokens' = Level - req[t].cost /\ elapsed' = 0 /\ burst' = burst
    BY <1>4 DEF Grant
  <2>4. Level' = Level - req[t].cost
    BY <1>1, <2>3, LevelWritten, CapacityAssumption
  <2> HIDE DEF after
  <2>5. after.pc = "send" /\ after.cost = req[t].cost
    BY <2>2 DEF Moved
  <2>6. burst' + Level' + (IF after.pc = "send" THEN after.cost ELSE 0) <= burst + Level + Unsent[t]
    BY <1>1, <2>3, <2>4, <2>5
  <2> QED BY <1>1, <2>1, <2>5, <2>6, NotifiedWait, ThreadStepSends
<1>5. CASE Send(t)
  <2> DEFINE after == [req[t] EXCEPT !.pc = "sent"]
  <2>1. Leave(t, after, {}) /\ {} \in SUBSET Waiting
    BY <1>5, UpdateIsLeave DEF Send, Inv
  <2>2. Moved(req[t], after, "sent")
    BY <1>1, RecordUpdates, Zenon
  <2>3. burst' = burst + req[t].cost /\ Level' = Level /\ Unsent[t] = req[t].cost
    BY <1>1, <1>5 DEF Send, Level
  <2> HIDE DEF after
  <2>4. after.pc = "sent" /\ after.cost = req[t].cost
    BY <2>2 DEF Moved
  <2>5. burst' + Level' + (IF after.pc = "send" THEN after.cost ELSE 0) <= burst + Level + Unsent[t]
    BY <1>1, <2>3, <2>4
  <2> QED BY <1>1, <2>1, <2>4, <2>5, ThreadStepSends
<1>6. CASE TimesOut(t)
  <2>1. PICK woken \in NotifyOne : Leave(t, Over(req[t]), woken)
    BY <1>6 DEF TimesOut
  <2>2. tokens' = Level /\ elapsed' = 0 /\ burst' = burst
    BY <1>6 DEF TimesOut
  <2>3. Level' = Level
    BY <1>1, <2>2, LevelWritten
  <2>4. burst' + Level' + (IF Over(req[t]).pc = "send" THEN Over(req[t]).cost ELSE 0)
           <= burst + Level + Unsent[t]
    BY <1>1, <1>2, <2>2, <2>3
  <2> QED BY <1>2, <2>1, <2>4, NotifiedWait, ThreadStepSends
<1>7. CASE Drain(t)
  <2>1. PICK r \in Retried(req[t]) : Leave(t, r, Waiting)
    BY <1>7 DEF Drain
  <2>2. tokens' = 0 /\ elapsed' = 0 /\ burst' = burst
    BY <1>7 DEF Drain
  <2>3. Level' = 0
    BY <2>2, LevelWritten, CapacityAssumption
  <2>4. r.pc # "send" /\ (r.pc # "idle" => r.cost \in Sendable)
    BY <1>1, <1>3
  <2>5. burst' + Level' + (IF r.pc = "send" THEN r.cost ELSE 0) <= burst + Level + Unsent[t]
    BY <1>1, <2>2, <2>3, <2>4
  <2> QED BY <2>1, <2>4, <2>5, ThreadStepSends
<1>8. CASE Wait(t)
  <2> DEFINE after == [req[t] EXCEPT !.pc = "wait", !.wake = WaitTicks(t)]
  <2>1. req' = [req EXCEPT ![t] = after] /\ burst' = burst
    BY <1>8 DEF Wait
  <2>2. tokens' = Level /\ elapsed' = 0
    BY <1>8 DEF Wait
  <2>3. Level' = Level
    BY <1>1, <2>2, LevelWritten
  <2>4. after.pc = "wait" /\ after.cost = req[t].cost
    BY <1>1 DEF Requests
  <2> HIDE DEF after
  <2> QED BY <1>1, <2>1, <2>3, <2>4, QuietStepSends
<1>9. CASE Wake(t) \/ Throttled(t) \/ Retry(t) \/ Answered(t) \/ Fails(t)
  <2>1. PICK after : /\ req' = [req EXCEPT ![t] = after]
                     /\ after.pc # "send" /\ (after.pc # "idle" => after.cost = req[t].cost)
    <3>1. CASE Wake(t)
      <4> WITNESS [req[t] EXCEPT !.pc = "check"]
      <4> QED BY <1>1, <3>1 DEF Wake, Requests
    <3>2. CASE Throttled(t)
      <4> WITNESS [req[t] EXCEPT !.pc = "drain", !.cooled = 0]
      <4> QED BY <1>1, <3>2 DEF Throttled, Requests
    <3>3. CASE Retry(t)
      <4> WITNESS [req[t] EXCEPT !.pc = "check", !.attempt = @ + 1, !.left = req[t].patience]
      <4> QED BY <1>1, <3>3 DEF Retry, Requests
    <3>4. CASE Answered(t)
      BY <1>2, <3>4 DEF Answered
    <3>5. CASE Fails(t)
      BY <1>3, <3>5 DEF Fails
    <3> QED BY <1>9, <3>1, <3>2, <3>3, <3>4, <3>5
  <2>2. burst' = burst /\ Level' = Level
    BY <1>9 DEF Wake, Throttled, Retry, Answered, Fails, Level
  <2> QED BY <1>1, <2>1, <2>2, QuietStepSends
<1> QED BY <1>4, <1>5, <1>6, <1>7, <1>8, <1>9 DEF Step

LEMMA RequestSends ==
    ASSUME Inv, Inv', SendInv, NEW t \in Threads, NEW c \in Costs, NEW p \in Patience,
           Request(t, c, p)
    PROVE  SendInv'
<1>1. req[t] \in Requests /\ burst' = burst /\ Level' = Level /\ Level \in Nat
  BY LevelInRange DEF Inv, TypeOK, Request, Level
<1>2. CASE c > Capacity
  <2>1. req' = [req EXCEPT ![t] = Over(req[t])] /\ Over(req[t]).pc = "idle"
    BY <1>2 DEF Request, Over, NoRequest
  <2> QED BY <1>1, <2>1, QuietStepSends
<1>3. CASE ~(c > Capacity)
  <2> DEFINE after == [req[t] EXCEPT !.pc = "check", !.cost = c, !.patience = p, !.left = p]
  <2>1. req' = [req EXCEPT ![t] = after]
    BY <1>3 DEF Request
  <2>2. after.pc = "check" /\ after.cost = c
    BY <1>1 DEF Requests
  <2>3. c \in Sendable
    BY <1>3, CostsAssumption, CapacityAssumption DEF Sendable
  <2> HIDE DEF after
  <2> QED BY <1>1, <2>1, <2>2, <2>3, QuietStepSends
<1> QED BY <1>2, <1>3

\* A tick may fill the bucket again, but takes as much from what was sent.
LEMMA TickSends == ASSUME Inv, Inv', SendInv, Tick PROVE SendInv'
<1>1. ASSUME NEW t \in Threads PROVE req'[t].pc = req[t].pc /\ req'[t].cost = req[t].cost
  <2>1. req[t] \in Requests
    BY DEF Inv, TypeOK
  <2>2. req'[t] = [req[t] EXCEPT !.wake = CountDown(@), !.left = CountDown(@),
                                 !.cooled = Lesser(Capacity, @ + 1)]
    BY DEF Tick
  <2> QED BY <2>1, <2>2 DEF Requests
<1>2. BusyCanSend' /\ Unsent' = Unsent
  BY <1>1 DEF SendInv, BusyCanSend, Unsent, At
<1>3. /\ Level' = Lesser(Capacity, Level + Refill) /\ burst' = Minus(burst, Refill)
      /\ Level \in 0 .. Capacity /\ burst \in Nat
  BY LevelTicks, LevelInRange DEF Inv, TypeOK, Tick
<1> DEFINE total == Cardinality(TokensOf(Threads, Unsent))
           most  == Cardinality(Threads) * Most
<1>4. total \in Nat /\ most \in Nat /\ total <= most
  BY UnsentType, TokensBounded DEF Inv, SendInv
<1>5. burst + total + Level <= Capacity + most
  BY DEF SendInv, WithinSends
<1> HIDE DEF total, most
<1>6. burst' + total + Level' <= Capacity + most
  BY <1>3, <1>4, <1>5, CapacityAssumption, RefillAssumption DEF Lesser, Minus
<1>7. WithinSends'
  BY <1>2, <1>6 DEF WithinSends, total, most, Most, CostliestSendable, Sendable
<1> QED BY <1>2, <1>7 DEF SendInv

LEMMA SendInvStep == ASSUME Inv, Inv', SendInv, [Next]_vars PROVE SendInv'
<1>1. CASE UNCHANGED vars
  <2>1. UNCHANGED <<req, burst, tokens, elapsed>>
    BY <1>1 DEF vars
  <2> QED BY <2>1 DEF SendInv, BusyCanSend, WithinSends, Unsent, At, Level, TokensOf
<1> QED BY <1>1, SendStep, RequestSends, TickSends DEF Next

(* client/rest.py: what the API sees over any stretch of time exceeds a    *)
(* full bucket and its refills by at most one costliest request per        *)
(* thread, however long threads sit on the tokens they were granted.       *)
THEOREM SendsAreBounded == Spec => []SendsBounded
<1>1. Inv /\ Inv' /\ SendInv /\ [Next]_vars => SendInv'
  BY SendInvStep
<1>2. Inv /\ SendInv => SendsBounded
  <2> SUFFICES ASSUME Inv, SendInv PROVE SendsBounded
    OBVIOUS
  <2>1. Cardinality(TokensOf(Threads, Unsent)) \in Nat /\ Cardinality(Threads) * Most \in Nat
    BY UnsentType, TokensBounded DEF Inv, SendInv
  <2>2. Level \in Nat /\ burst \in Nat
    BY LevelInRange DEF Inv, TypeOK
  <2> QED BY <2>1, <2>2, CapacityAssumption DEF SendInv, WithinSends, SendsBounded, Most
<1> QED BY <1>1, <1>2, InitSendInv, Invariant, PTL DEF Spec

-----------------------------------------------------------------------------
(* KalshiTrades.                                                           *)

USE BoundsAssumption

\* The newest of some trades is one of them, or none.
LEMMA NewestOf ==
    ASSUME NEW trades \in SUBSET Trades
    PROVE  /\ Newest(trades) \in {0} \cup trades
           /\ \A i \in trades : i <= Newest(trades)
<1> DEFINE S == {0} \cup trades
<1>1. S \in SUBSET (0 .. MaxTrades) /\ S # {}
    BY DEF Trades
<1>2. \E m \in S : \A n \in S : n <= m
    BY <1>1, GreatestExists
<1>3. \E m \in S : \A n \in S : m >= n
    BY <1>1, <1>2
<1>4. Max(S) \in S /\ \A n \in S : Max(S) >= n
    BY <1>3 DEF Max
<1> QED BY <1>1, <1>4 DEF Newest

\* What the types say of the numbers.
LEMMA Numbers ==
    ASSUME TradesTypeOK
    PROVE  /\ made \in Nat /\ archived \in Nat /\ cutoff \in Nat /\ latest \in Nat
           /\ cursor \in Nat /\ cutoff <= archived /\ archived <= made /\ made <= MaxTrades
           /\ stored \in SUBSET Nat /\ got \in SUBSET Nat
BY DEF TradesTypeOK, Trades

-----------------------------------------------------------------------------
(* Pages.                                                                  *)

\* The trades a route holds are numbers up to the latest made.
LEMMA HeldRange ==
    ASSUME TradesTypeOK
    PROVE  Held \in SUBSET (1 .. made) /\ Ahead \subseteq Held /\ Page \subseteq Ahead
BY DEF TradesTypeOK, Held, Ahead, Page

\* A page begins where the listing is: what precedes one of its trades is on it.
LEMMA PageIsFirst ==
    ASSUME TradesTypeOK, NEW i \in Page, NEW j \in Ahead, Precedes(j, i)
    PROVE  j \in Page
<1> DEFINE Before(k) == {l \in Ahead : Precedes(l, k)}
<1>0. \A l \in Ahead : l \in Nat
    BY HeldRange DEF TradesTypeOK
<1>1. IsFiniteSet(1 .. made) /\ Ahead \in SUBSET (1 .. made)
    BY HeldRange, FS_Interval DEF TradesTypeOK
<1>2. IsFiniteSet(Ahead)
    BY <1>1, FS_Subset
<1>3. IsFiniteSet(Before(i)) /\ IsFiniteSet(Before(j))
    BY <1>2, FS_Subset
<1>4. Before(j) \in SUBSET Before(i)
    <2>1. \A l \in Ahead : Precedes(l, j) => Precedes(l, i)
        BY <1>0, HeldRange DEF Precedes
    <2> QED BY <2>1
<1>5. Cardinality(Before(j)) <= Cardinality(Before(i))
    BY <1>3, <1>4, FS_Subset
<1>6. Cardinality(Before(j)) \in Nat /\ Cardinality(Before(i)) \in Nat
    BY <1>3, FS_CardinalityType
<1>7. Cardinality(Before(i)) < PageSize
    BY DEF Page
<1>8. Cardinality(Before(j)) < PageSize
    BY <1>5, <1>6, <1>7
<1> QED BY <1>8 DEF Page

\* A page that is not empty has a last trade.
LEMMA EndOfPage ==
    ASSUME TradesTypeOK, Page # {}
    PROVE  End \in Page /\ \A j \in Page : End = j \/ Precedes(j, End)
<1>1. Page \in SUBSET (0 .. MaxTrades) /\ Page \in SUBSET Nat
    BY HeldRange DEF TradesTypeOK
<1>2. \E i \in Page : \A j \in Page : i = j \/ Precedes(j, i)
    <2>1. CASE order = "newest_first"
        <3>1. PICK i \in Page : \A j \in Page : i <= j
            BY <1>1, LeastExists
        <3> QED BY <1>1, <2>1, <3>1 DEF Precedes
    <2>2. CASE order = "oldest_first"
        <3>1. PICK i \in Page : \A j \in Page : j <= i
            BY <1>1, GreatestExists
        <3> QED BY <1>1, <2>2, <3>1 DEF Precedes
    <2> QED BY <2>1, <2>2 DEF TradesTypeOK, Orders
<1> QED BY <1>2 DEF End

-----------------------------------------------------------------------------
(* The invariant.                                                          *)

\* The trade i is no later than one that the pull has got.
Below(i) == \E g \in got : i <= g

\* In a walk that the cutoff did not overtake, the trades behind the cursor that
\* are later than the watermark are got, but for those made since it passed.
WalkInv ==
    stage = "walk" /\ cutoff = archived =>
        /\ got \subseteq Held
        /\ cursor = 0 => got = {}
        /\ \A g \in got : g = cursor \/ Precedes(g, cursor)
        /\ \A i \in Held :
              /\ i > latest
              /\ i = cursor \/ (cursor # 0 /\ Precedes(i, cursor))
              /\ order = "newest_first" => Below(i)
              => i \in got

\* After the last page nothing is left between the watermark and a trade it got.
StoreInv ==
    stage = "store" /\ clean /\ cutoff = archived =>
        got \subseteq Held /\ \A i \in Held : i > latest /\ Below(i) => i \in got

PullInv ==
    /\ stage \in {"walk", "store"} =>
          /\ latest = Newest(stored)
          /\ route = IF IsLive(latest) THEN "live" ELSE "historical"
    /\ stage \notin {"walk", "store"} => got = {} /\ cursor = 0
    /\ got \subseteq 1 .. made /\ \A g \in got : g > latest
    /\ cursor \in 0 .. made
    /\ stored \subseteq 1 .. made

TradesInv == TradesTypeOK /\ PullInv /\ WalkInv /\ StoreInv

LEMMA InitTradesInv == TradesInit => TradesInv
<1> SUFFICES ASSUME TradesInit PROVE TradesInv
    OBVIOUS
<1>1. row \in BOOLEAN /\ clean \in BOOLEAN /\ order \in Orders /\ route \in Routes
      /\ stage \in Stages /\ stored \subseteq Trades /\ got \subseteq Trades
    BY DEF TradesInit, Stages, Routes
<1>2. /\ made \in 0 .. MaxTrades /\ archived \in 0 .. made /\ cutoff \in 0 .. archived
      /\ latest \in 0 .. MaxTrades /\ cursor \in 0 .. MaxTrades /\ faults \in 0 .. MaxFaults
    BY DEF TradesInit
<1>3. TradesTypeOK
    BY <1>1, <1>2 DEF TradesTypeOK
<1> QED BY <1>3 DEF TradesInit, TradesInv, PullInv, WalkInv, StoreInv

LEMMA FetchPageInv == ASSUME TradesInv, FetchPage PROVE TradesInv'
<1> USE DEF TradesInv
<1>1. /\ stage = "walk" /\ got' = got \cup Later(Page)
      /\ UNCHANGED <<venue, row, cutoff, stored, latest, route, clean, faults>>
    BY DEF FetchPage
<1>2. UNCHANGED <<order, made, archived>> /\ Held' = Held
    BY <1>1 DEF venue, Held
<1>3. Later(Page) \subseteq Page /\ Page \subseteq Ahead /\ Ahead \subseteq Held
      /\ Held \in SUBSET (1 .. made)
    BY HeldRange DEF Later
<1>4. cursor' = IF Page = {} THEN cursor ELSE End
    BY DEF FetchPage
<1>5. Page # {} => End \in Page /\ \A j \in Page : End = j \/ Precedes(j, End)
    BY EndOfPage
<1>6. got' \subseteq 1 .. made /\ (\A g \in got' : g > latest) /\ cursor' \in 0 .. made
    <2>1. got' \subseteq 1 .. made /\ (\A g \in got' : g > latest)
        BY <1>1, <1>3 DEF PullInv, Later
    <2>2. cursor' \in 0 .. made
        BY <1>3, <1>4, <1>5 DEF PullInv, TradesTypeOK
    <2> QED BY <2>1, <2>2
<1>7. stage' \in {"walk", "store"}
    BY DEF FetchPage
<1>8. TradesTypeOK'
    BY <1>1, <1>2, <1>6, <1>7 DEF TradesTypeOK, Stages, Trades
<1>9. PullInv'
    BY <1>1, <1>2, <1>6, <1>7 DEF PullInv, IsLive
<1>10. ASSUME cutoff = archived
       PROVE  /\ got' \subseteq Held
              /\ cursor' = 0 => got' = {}
              /\ \A g \in got' : g = cursor' \/ Precedes(g, cursor')
    <2>1. cursor' = 0 => Page = {} /\ cursor = 0
        BY <1>3, <1>4, <1>5
    <2>2. Page # {} => cursor = 0 \/ Precedes(cursor, cursor')
        BY <1>3, <1>4, <1>5 DEF Ahead
    <2>3. ASSUME NEW g \in got' PROVE g = cursor' \/ Precedes(g, cursor')
        <3>1. CASE g \in Page
            BY <3>1, <1>4, <1>5
        <3>2. CASE g \in got
            BY <3>2, <1>1, <1>4, <1>6, <1>10, <2>2 DEF WalkInv, PullInv, Precedes
        <3> QED BY <3>1, <3>2, <2>3, <1>1, <1>3
    <2> QED BY <1>1, <1>3, <1>10, <2>1, <2>3 DEF WalkInv
<1>11. ASSUME cutoff = archived, NEW i \in Held, i > latest,
              i = cursor' \/ (cursor' # 0 /\ Precedes(i, cursor')) \/ Ahead = Page,
              order = "newest_first" => Below(i)'
       PROVE  i \in got'
    <2>1. CASE i \in Ahead
        <3>1. i \in Page
            <4>1. CASE Ahead = Page
                BY <4>1, <2>1
            <4>2. CASE Page = {}
                BY <4>2, <1>4, <1>11, <2>1, <1>3 DEF Ahead, Precedes
            <4>3. CASE Page # {} /\ Ahead # Page
                BY <4>3, <1>4, <1>5, <1>11, <2>1, PageIsFirst
            <4> QED BY <4>1, <4>2, <4>3
        <3> QED BY <3>1, <1>1, <1>11 DEF Later
    <2>2. CASE i \notin Ahead
        <3>1. cursor # 0 /\ (i = cursor \/ Precedes(i, cursor))
            BY <2>2, <1>3, <1>11 DEF Ahead, Precedes, TradesTypeOK
        <3>2. order = "newest_first" => Below(i)
            <4>1. SUFFICES ASSUME order = "newest_first" PROVE Below(i)
                OBVIOUS
            <4>2. PICK g \in got' : i <= g
                BY <4>1, <1>11 DEF Below
            <4>3. i >= cursor /\ i \in Nat /\ cursor \in Nat /\ g \in Nat
                BY <4>1, <3>1, <1>3, <1>6 DEF Precedes, TradesTypeOK, PullInv
            <4>4. g \in Ahead => g < cursor
                BY <4>1, <3>1 DEF Ahead, Precedes
            <4>5. g \notin Page
                BY <4>2, <4>3, <4>4, <1>3
            <4> QED BY <4>2, <4>5, <1>1, <1>3 DEF Below
        <3> QED BY <3>1, <3>2, <1>1, <1>11 DEF WalkInv
    <2> QED BY <2>1, <2>2
<1>12. WalkInv'
    BY <1>1, <1>2, <1>10, <1>11 DEF WalkInv, Below, Precedes, TradesTypeOK, Orders
<1>13. StoreInv'
    <2>1. SUFFICES ASSUME stage' = "store", clean', cutoff' = archived'
                   PROVE  got' \subseteq Held' /\ \A i \in Held' : i > latest' /\ Below(i)' => i \in got'
        BY DEF StoreInv
    <2>2. Ahead = Page /\ cutoff = archived
        BY <2>1, <1>1, <1>2 DEF FetchPage
    <2> QED BY <2>2, <1>1, <1>2, <1>10, <1>11 DEF Below
<1> QED BY <1>8, <1>9, <1>12, <1>13

LEMMA StartPullInv == ASSUME TradesInv, StartPull PROVE TradesInv'
<1> USE DEF TradesInv
<1>1. /\ stage = "catalogue" /\ stage' = "walk" /\ latest' = Newest(stored)
      /\ route' = IF IsLive(latest') THEN "live" ELSE "historical"
      /\ UNCHANGED <<venue, row, cutoff, stored, cursor, got, clean, faults>>
    BY DEF StartPull
<1>2. got = {} /\ cursor = 0
    BY <1>1 DEF PullInv
<1>3. latest' \in 0 .. MaxTrades
    <2>1. stored \in SUBSET Trades
        BY DEF TradesTypeOK
    <2>2. latest' \in {0} \cup stored
        BY <1>1, <2>1, NewestOf
    <2> QED BY <2>1, <2>2 DEF Trades
<1>4. TradesTypeOK'
    <2>1. stage' \in Stages /\ route' \in Routes /\ row' \in BOOLEAN /\ clean' \in BOOLEAN
        BY <1>1 DEF TradesTypeOK, Stages, Routes
    <2> QED BY <1>1, <1>3, <2>1 DEF TradesTypeOK, venue
<1>5. PullInv'
    <2>1. \A g \in got' : g > latest'
        BY <1>1, <1>2
    <2> QED BY <1>1, <1>2, <2>1 DEF PullInv, IsLive, venue
<1>6. WalkInv' /\ StoreInv'
    BY <1>1, <1>2, <1>4 DEF WalkInv, StoreInv, Below, TradesTypeOK, venue
<1> QED BY <1>4, <1>5, <1>6

(* A step that keeps the pull, and what it is to read. *)
LEMMA SamePull ==
    ASSUME TradesInv, TradesTypeOK', UNCHANGED <<order, cutoff, stored, stage, pull>>,
           made' \in {made, made + 1}, archived' = archived \/ archived' = archived + 1
    PROVE  TradesInv'
<1> USE DEF TradesInv
<1>1. UNCHANGED <<latest, route, cursor, got, clean>>
    BY DEF pull
<1>2. PullInv'
    BY <1>1 DEF PullInv, IsLive, TradesTypeOK
<1>3. CASE archived' # archived
    <2>1. cutoff' # archived'
        BY <1>3 DEF TradesTypeOK
    <2> QED BY <1>2, <2>1 DEF WalkInv, StoreInv
<1>4. CASE archived' = archived
    <2>1. Held \subseteq Held' /\ Held' \subseteq Held \cup {made + 1}
        BY <1>1, <1>4 DEF Held, TradesTypeOK
    <2>2. ~ Below(made + 1) /\ made + 1 > cursor
        BY DEF Below, PullInv, TradesTypeOK
    <2>3. WalkInv'
        BY <1>1, <1>4, <2>1, <2>2 DEF WalkInv, Below, Precedes, PullInv, TradesTypeOK, Orders
    <2>4. StoreInv'
        BY <1>1, <1>4, <2>1, <2>2 DEF StoreInv, Below
    <2> QED BY <1>2, <2>3, <2>4
<1> QED BY <1>3, <1>4

(* A step after which no pull is under way. *)
LEMMA NoPull ==
    ASSUME TradesInv, TradesTypeOK', made' = made, stored' \subseteq stored \cup got,
           stage' \notin {"walk", "store"}, cursor' = 0, got' = {}
    PROVE  TradesInv'
<1>1. PullInv'
    BY DEF TradesInv, TradesTypeOK, PullInv
<1> QED BY <1>1 DEF TradesInv, WalkInv, StoreInv

LEMMA TradesInvStep == ASSUME TradesInv, [TradesNext]_tradesVars PROVE TradesInv'
<1>t. TradesTypeOK
    BY DEF TradesInv
<1>1. ASSUME Trade \/ Archive PROVE TradesInv'
    <2>1. TradesTypeOK'
        BY <1>1, <1>t DEF Trade, Archive, pull, TradesTypeOK
    <2> QED BY <1>1, <2>1, SamePull DEF Trade, Archive
<1>2. ASSUME SnapshotCutoff \/ FailCutoff \/ RefusePull PROVE TradesInv'
    <2>1. cursor = 0 /\ got = {} /\ stage' \in {"catalogue", "idle"}
          /\ UNCHANGED <<venue, pull, stored>>
        BY <1>2 DEF SnapshotCutoff, FailCutoff, RefusePull, TradesInv, PullInv
    <2>2. cutoff' \in 0 .. archived' /\ faults' \in 0 .. MaxFaults
        <3>1. archived' = archived /\ cutoff' \in {cutoff, archived}
              /\ (faults' = faults \/ (faults < MaxFaults /\ faults' = faults + 1))
            BY <1>2 DEF SnapshotCutoff, FailCutoff, RefusePull, Fault, venue
        <3>2. cutoff \in 0 .. archived /\ archived \in Nat /\ faults \in 0 .. MaxFaults
            BY <1>t DEF TradesTypeOK
        <3> QED BY <3>1, <3>2
    <2>3. row' \in BOOLEAN
        BY <1>2, <1>t DEF SnapshotCutoff, FailCutoff, RefusePull, TradesTypeOK
    <2>4. TradesTypeOK'
        <3>1. stage' \in Stages /\ UNCHANGED <<order, made, archived, latest, route, cursor, got, clean>>
            BY <2>1 DEF venue, pull, Stages
        <3> QED BY <2>1, <2>2, <2>3, <3>1, <1>t DEF TradesTypeOK
    <2> QED BY <2>1, <2>4, NoPull DEF venue, pull
<1>3. ASSUME FailPage PROVE TradesInv'
    <2>1. stage = "walk" /\ stage' = "store" /\ clean' = FALSE /\ faults' \in 0 .. MaxFaults
          /\ UNCHANGED <<venue, row, cutoff, stored, latest, route, cursor, got>>
        BY <1>3, <1>t DEF FailPage, Fault, TradesTypeOK
    <2>2. TradesTypeOK'
        BY <2>1, <1>t DEF TradesTypeOK, venue, Stages
    <2>3. PullInv'
        BY <2>1 DEF TradesInv, PullInv, venue, IsLive
    <2> QED BY <2>1, <2>2, <2>3 DEF TradesInv, WalkInv, StoreInv
<1>4. ASSUME StoreTrades \/ FailSync PROVE TradesInv'
    <2>1. /\ stage' = "idle" /\ Forget /\ stored' \subseteq stored \cup got
          /\ UNCHANGED <<venue, row, cutoff>>
        BY <1>4 DEF StoreTrades, FailSync
    <2>2. faults' \in 0 .. MaxFaults
        BY <1>4, <1>t DEF StoreTrades, FailSync, Fault, TradesTypeOK
    <2>3. TradesTypeOK'
        BY <2>1, <2>2, <1>t DEF TradesTypeOK, venue, Forget, Stages, Routes
    <2> QED BY <2>1, <2>3, NoPull DEF venue, Forget
<1>5. ASSUME UNCHANGED tradesVars PROVE TradesInv'
    <2>1. TradesTypeOK'
        BY <1>5, <1>t DEF tradesVars, venue, pull, TradesTypeOK
    <2> QED BY <1>5, <2>1, SamePull DEF tradesVars, venue
<1> QED
    BY <1>1, <1>2, <1>3, <1>4, <1>5, StartPullInv, FetchPageInv DEF TradesNext, TradesStep

LEMMA TradesInvAlways == TradesSpec => []TradesInv
<1>1. TradesInv /\ [TradesNext]_tradesVars => TradesInv'
    BY TradesInvStep
<1> QED BY <1>1, InitTradesInv, PTL DEF TradesSpec

-----------------------------------------------------------------------------
(* KalshiTrades: the variables keep their types. *)
THEOREM TradesTypes == TradesSpec => []TradesTypeOK
<1>1. TradesInv => TradesTypeOK
    BY DEF TradesInv
<1> QED BY <1>1, TradesInvAlways, PTL

(* trades.py: a pull whose pages all answered, and which the cutoff did not
   overtake, leaves no gap above the old watermark (above the cutoff, if it is
   the market's first), in whichever order the venue lists and however many
   trades are made while its pages are read. *)
THEOREM CleanPullIsGapless == TradesSpec => CleanPullHasNoGap
<1>1. ASSUME TradesInv, [TradesNext]_tradesVars, stage = "store", clean, cutoff = archived, stored' # stored
      PROVE  (IF latest = 0 THEN cutoff ELSE latest) + 1 .. Newest(stored') \subseteq stored'
    <2> USE DEF TradesInv
    <2>1. stored' = stored \cup got
        BY <1>1 DEF TradesNext, TradesStep, Trade, Archive, SnapshotCutoff, FailCutoff, RefusePull, StartPull,
               FetchPage, FailPage, StoreTrades, FailSync, tradesVars
    <2>2. stored' \in SUBSET Trades /\ stored \in SUBSET Trades /\ latest = Newest(stored)
        BY <1>1, <2>1 DEF TradesTypeOK, PullInv
    <2>3. /\ Newest(stored') \in {0} \cup stored'
          /\ \A i \in stored : i <= latest
          /\ \A i \in stored' : i <= Newest(stored')
        BY <2>2, NewestOf
    <2>4. SUFFICES ASSUME NEW i \in (IF latest = 0 THEN cutoff ELSE latest) + 1 .. Newest(stored')
                   PROVE  i \in got
        BY <2>1
    <2>5. got # {} /\ \A g \in got : g > latest
        BY <1>1, <2>1 DEF PullInv
    <2>6. Newest(stored') \in got
        BY <1>1, <2>1, <2>2, <2>3, <2>5, Numbers
    <2>7. got \subseteq Held /\ \A j \in Held : j > latest /\ Below(j) => j \in got
        BY <1>1 DEF StoreInv
    <2>8. Below(i) /\ i > latest /\ i \in Nat
        <3>1. Newest(stored') \in Nat
            BY <1>1, <2>6, Numbers
        <3>2. i \in Nat /\ i > latest /\ i <= Newest(stored')
            BY <1>1, <2>4, <3>1, Numbers
        <3> QED BY <2>6, <3>2 DEF Below
    <2>9. i \in Held
        <3>1. i <= Newest(stored') /\ Newest(stored') \in Held
            BY <1>1, <2>4, <2>6, <2>7, Numbers
        <3>2. CASE route = "live"
            <4>1. i > cutoff
                BY <1>1, <2>4, <2>8, <3>2, Numbers DEF PullInv, IsLive
            <4> QED BY <1>1, <2>8, <3>1, <3>2, <4>1, Numbers DEF Held
        <3>3. CASE route # "live"
            BY <1>1, <2>8, <3>1, <3>3, Numbers DEF Held
        <3> QED BY <3>2, <3>3
    <2> QED BY <2>7, <2>8, <2>9
<1>2. TradesInv /\ [TradesNext]_tradesVars =>
        [stage = "store" /\ clean /\ cutoff = archived /\ stored' # stored
         => (IF latest = 0 THEN cutoff ELSE latest) + 1 .. Newest(stored') \subseteq stored']_tradesVars
    BY <1>1
<1> QED BY <1>2, TradesInvAlways, PTL DEF TradesSpec, CleanPullHasNoGap

=============================================================================
