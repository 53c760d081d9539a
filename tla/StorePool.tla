------------------------------ MODULE StorePool ------------------------------
(***************************************************************************)
(* data_ingest/persistence/duckdb_store.py: the thread-safe connection     *)
(* pool, at the grain of its queue and lock operations.                    *)
(*                                                                         *)
(* connection() reads _closed without the lock; _acquire tries the queue,  *)
(* then creates under the lock, then waits on the queue with a timeout;    *)
(* _release reads _closed and then puts; close() sets _closed and drains   *)
(* the queue under the lock, which the queue operations do not take.       *)
(***************************************************************************)
EXTENDS Integers, FiniteSets

CONSTANTS
    Threads,    \* threads that share the store
    Conns,      \* the connections it may create: max_connections of them
    MaxNest     \* bound: with-blocks a thread nests

ASSUME ConnsAssumption   == IsFiniteSet(Conns) /\ Conns # {}
ASSUME MaxNestAssumption == MaxNest \in Nat \ {0}

VARIABLES
    queue,      \* connections in the LifoQueue
    held,       \* held[t]: connections of the with-blocks t is in
    closed,     \* connections that conn.close() was called on
    at,         \* at[t]: where t is in connection(), "out" when in none of its steps
    putting,    \* putting[t]: connection t is about to put back
    shut        \* "open", "draining" (close() holds the lock), "shut"

poolVars == <<queue, held, closed, at, putting, shut>>

Places == {"out", "get", "create", "wait", "put"}

\* _created_count counts the connections ever created; none is created twice.
Created == queue \cup closed \cup UNION {held[t] \cup putting[t] : t \in Threads}

PoolTypeOK ==
    /\ queue \in SUBSET Conns
    /\ held \in [Threads -> SUBSET Conns]
    /\ closed \in SUBSET Conns
    /\ at \in [Threads -> Places]
    /\ putting \in [Threads -> SUBSET Conns]
    /\ shut \in {"open", "draining", "shut"}

PoolInit ==
    /\ queue = {}
    /\ held = [t \in Threads |-> {}]
    /\ closed = {}
    /\ at = [t \in Threads |-> "out"]
    /\ putting = [t \in Threads |-> {}]
    /\ shut = "open"

Goto(t, label) == at' = [at EXCEPT ![t] = label]

Obtain(t, c) == held' = [held EXCEPT ![t] = @ \cup {c}] /\ Goto(t, "out")

-----------------------------------------------------------------------------
(* connection() and _acquire.                                              *)

\* The unlocked check of _closed; a closed store raises instead.
Enter(t) ==
    /\ at[t] = "out"
    /\ Cardinality(held[t]) < MaxNest
    /\ shut = "open"
    /\ Goto(t, "get")
    /\ UNCHANGED <<queue, held, closed, putting, shut>>

\* get_nowait succeeds.
GetFast(t) ==
    /\ at[t] = "get"
    /\ \E c \in queue : queue' = queue \ {c} /\ Obtain(t, c)
    /\ UNCHANGED <<closed, putting, shut>>

\* get_nowait finds the queue empty.
GetMiss(t) ==
    /\ at[t] = "get"
    /\ queue = {}
    /\ Goto(t, "create")
    /\ UNCHANGED <<queue, held, closed, putting, shut>>

\* Under the lock: create while fewer than max_connections were created.
Create(t) ==
    /\ at[t] = "create"
    /\ shut # "draining"
    /\ \E c \in Conns \ Created : Obtain(t, c)
    /\ UNCHANGED <<queue, closed, putting, shut>>

\* duckdb.connect raises: the count stays and the caller sees the exception.
CreateFails(t) ==
    /\ at[t] = "create"
    /\ shut # "draining"
    /\ Conns \ Created # {}
    /\ Goto(t, "out")
    /\ UNCHANGED <<queue, held, closed, putting, shut>>

AtCap(t) ==
    /\ at[t] = "create"
    /\ shut # "draining"
    /\ Conns \subseteq Created
    /\ Goto(t, "wait")
    /\ UNCHANGED <<queue, held, closed, putting, shut>>

\* Faulty variant: the connection is looked at, not taken.
GetSlowPeeks(t) ==
    /\ at[t] = "wait"
    /\ \E c \in queue : Obtain(t, c)
    /\ UNCHANGED <<queue, closed, putting, shut>>

\* get(timeout=...) is served by a release.
GetSlow(t) ==
    /\ at[t] = "wait"
    /\ \E c \in queue : queue' = queue \ {c} /\ Obtain(t, c)
    /\ UNCHANGED <<closed, putting, shut>>

\* Faulty variant: get() without a timeout.
WaitsOn(t) ==
    /\ at[t] = "wait"
    /\ queue = {}
    /\ UNCHANGED poolVars

\* ConnectionAcquisitionTimeout
Timeout(t) ==
    /\ at[t] = "wait"
    /\ queue = {}
    /\ Goto(t, "out")
    /\ UNCHANGED <<queue, held, closed, putting, shut>>

-----------------------------------------------------------------------------
(* _release and close().                                                   *)

\* The block ends on an open store: the check is done, the put is still to come.
Leave(t) ==
    /\ at[t] = "out"
    /\ shut = "open"
    /\ \E c \in held[t] :
          /\ held' = [held EXCEPT ![t] = @ \ {c}]
          /\ putting' = [putting EXCEPT ![t] = {c}]
    /\ Goto(t, "put")
    /\ UNCHANGED <<queue, closed, shut>>

Put(t) ==
    /\ at[t] = "put"
    /\ queue' = queue \cup putting[t]
    /\ putting' = [putting EXCEPT ![t] = {}]
    /\ Goto(t, "out")
    /\ UNCHANGED <<held, closed, shut>>

\* The block ends on a closed store: the connection is closed instead.
LeaveClosed(t) ==
    /\ at[t] = "out"
    /\ shut # "open"
    /\ \E c \in held[t] :
          /\ held' = [held EXCEPT ![t] = @ \ {c}]
          /\ closed' = closed \cup {c}
    /\ UNCHANGED <<queue, at, putting, shut>>

CloseBegins ==
    /\ shut = "open"
    /\ shut' = "draining"
    /\ UNCHANGED <<queue, held, closed, at, putting>>

DrainOne ==
    /\ shut = "draining"
    /\ \E c \in queue : queue' = queue \ {c} /\ closed' = closed \cup {c}
    /\ UNCHANGED <<held, at, putting, shut>>

CloseEnds ==
    /\ shut = "draining"
    /\ queue = {}
    /\ shut' = "shut"
    /\ UNCHANGED <<queue, held, closed, at, putting>>

AcquireStep(t) == GetFast(t) \/ GetMiss(t) \/ Create(t) \/ CreateFails(t) \/ AtCap(t)
                  \/ GetSlow(t) \/ Timeout(t)

ReleaseStep(t) == Leave(t) \/ Put(t) \/ LeaveClosed(t)

PoolNext ==
    \/ \E t \in Threads :
          \/ Enter(t)
          \/ GetFast(t) \/ GetMiss(t) \/ Create(t) \/ CreateFails(t) \/ AtCap(t)
          \/ GetSlow(t) \/ Timeout(t)
          \/ Leave(t) \/ Put(t) \/ LeaveClosed(t)
    \/ CloseBegins \/ DrainOne \/ CloseEnds

PoolSpec == PoolInit /\ [][PoolNext]_poolVars

\* Threads inside the pool's code are scheduled, the 30 s timeout fires, and
\* close() finishes.  A thread need not ever leave its block.
PoolFairness ==
    /\ \A t \in Threads : WF_poolVars(AcquireStep(t)) /\ WF_poolVars(Put(t))
    /\ WF_poolVars(DrainOne \/ CloseEnds)

PoolFairSpec == PoolSpec /\ PoolFairness

-----------------------------------------------------------------------------
(* Properties.                                                             *)

\* A connection is in one place: queued, closed, in one thread's blocks or
\* about to be put back by one thread.  Two threads never share one.
InOnePlace ==
    /\ queue \cap closed = {}
    /\ \A t \in Threads : /\ held[t] \cap putting[t] = {}
                          /\ (held[t] \cup putting[t]) \cap (queue \cup closed) = {}
    /\ \A t, u \in Threads : t # u =>
          (held[t] \cup putting[t]) \cap (held[u] \cup putting[u]) = {}

\* A thread that asks for a connection gets an answer, a connection or an
\* exception, even when every holder waits for another connection itself.
AcquireEnds == \A t \in Threads : at[t] \in {"get", "create", "wait"} ~> at[t] = "out"

\* The pool is a permit pool: what its users need to know of it.  A connection
\* that is being put back still counts as used.
Permit == INSTANCE PermitPool
    WITH Users <- Threads, Permits <- Conns,
         uses <- [t \in Threads |-> held[t] \cup putting[t]]

ImplementsPermits == Permit!Spec

=============================================================================
