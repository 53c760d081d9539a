---------------------------- MODULE StoreProofs ----------------------------
(***************************************************************************)
(* Proofs about the DuckDB store: its connection pool (StorePool), for any *)
(* threads, connections and nesting, with or without close() at any        *)
(* moment, and the merge into its tables (StagingMerge), for any keys,     *)
(* payloads, workers and number of revisions and aborted merges, when no   *)
(* fetch yields a key twice.                                               *)
(*                                                                         *)
(* Each implements what the rest of the system takes it for: the pool a    *)
(* set of permits (PermitPool), the merge a mirror of the sources          *)
(* (SourceMirror).                                                         *)
(***************************************************************************)
EXTENDS StorePool, StagingMerge, FiniteSetTheorems, SequenceTheorems, TLAPS

(* StorePool.                                                              *)

\* Exactly the threads between the check and the put of _release carry one
\* connection to put back.
Carrying ==
    \A t \in Threads : IF at[t] = "put" THEN \E c \in Conns : putting[t] = {c}
                                        ELSE putting[t] = {}

\* The inductive invariant.
PoolInv == PoolTypeOK /\ InOnePlace /\ Carrying

\* The connections t uses, as its permit pool sees them.
Uses(t) == held[t] \cup putting[t]

LEMMA InitPoolInv == PoolInit => PoolInv
  BY DEF PoolInit, PoolInv, PoolTypeOK, InOnePlace, Carrying, Places

(* Taking a connection out of the queue, or creating one. *)
LEMMA ObtainInv ==
    ASSUME PoolInv, NEW t \in Threads, NEW c \in Conns, Obtain(t, c), at[t] # "put",
           c \notin closed', c \notin queue', \A u \in Threads : c \notin Uses(u),
           queue' \subseteq queue, UNCHANGED <<closed, putting, shut>>
    PROVE  PoolInv'
  <1>1. held' = [held EXCEPT ![t] = @ \cup {c}] /\ at' = [at EXCEPT ![t] = "out"]
    BY DEF Obtain, Goto
  <1>2. /\ held'[t] = held[t] \cup {c}
        /\ \A u \in Threads \ {t} : held'[u] = held[u]
    BY <1>1 DEF PoolInv, PoolTypeOK
  <1>3. PoolTypeOK'
    BY <1>1 DEF PoolInv, PoolTypeOK, Places
  <1>4. InOnePlace'
    BY <1>2 DEF PoolInv, InOnePlace, Uses
  <1>5. Carrying'
    BY <1>1 DEF PoolInv, PoolTypeOK, Carrying
  <1> QED
    BY <1>3, <1>4, <1>5 DEF PoolInv

LEMMA ObtainsInv == ASSUME PoolInv, NEW t \in Threads, AcquireStep(t) \/ Enter(t) PROVE PoolInv'
  <1>1. CASE GetFast(t) \/ GetSlow(t)
    <2>1. PICK c \in queue : queue' = queue \ {c} /\ Obtain(t, c)
      BY <1>1 DEF GetFast, GetSlow
    <2>2. at[t] # "put" /\ UNCHANGED <<closed, putting, shut>>
      BY <1>1 DEF GetFast, GetSlow
    <2>3. c \in Conns /\ c \notin closed /\ \A u \in Threads : c \notin Uses(u)
      BY DEF PoolInv, PoolTypeOK, InOnePlace, Uses
    <2> QED
      BY <2>1, <2>2, <2>3, ObtainInv
  <1>2. CASE Create(t)
    <2>1. PICK c \in Conns \ Created : Obtain(t, c)
      BY <1>2 DEF Create
    <2>2. at[t] # "put" /\ UNCHANGED <<queue, closed, putting, shut>>
      BY <1>2 DEF Create
    <2>3. c \notin closed /\ c \notin queue /\ \A u \in Threads : c \notin Uses(u)
      BY <2>1 DEF Created, Uses
    <2> QED
      BY <2>1, <2>2, <2>3, ObtainInv
  <1>3. CASE Enter(t) \/ GetMiss(t) \/ CreateFails(t) \/ AtCap(t) \/ Timeout(t)
    <2>1. PICK label \in {"out", "get", "create", "wait"} : at' = [at EXCEPT ![t] = label]
      BY <1>3 DEF Enter, GetMiss, CreateFails, AtCap, Timeout, Goto
    <2>2. at[t] # "put" /\ UNCHANGED <<queue, held, closed, putting, shut>>
      BY <1>3 DEF Enter, GetMiss, CreateFails, AtCap, Timeout
    <2> QED
      BY <2>1, <2>2 DEF PoolInv, PoolTypeOK, Places, InOnePlace, Carrying
  <1> QED
    BY <1>1, <1>2, <1>3 DEF AcquireStep

LEMMA ReleaseInv == ASSUME PoolInv, NEW t \in Threads, ReleaseStep(t) PROVE PoolInv'
  <1>1. CASE Leave(t)
    <2>1. PICK c \in held[t] : /\ held' = [held EXCEPT ![t] = @ \ {c}]
                               /\ putting' = [putting EXCEPT ![t] = {c}]
      BY <1>1 DEF Leave
    <2>2. at' = [at EXCEPT ![t] = "put"] /\ UNCHANGED <<queue, closed, shut>> /\ at[t] = "out"
      BY <1>1 DEF Leave, Goto
    <2>3. c \in Conns /\ putting[t] = {}
      BY <2>2 DEF PoolInv, PoolTypeOK, Carrying
    <2>4. /\ held'[t] = held[t] \ {c} /\ putting'[t] = {c}
          /\ \A u \in Threads \ {t} : held'[u] = held[u] /\ putting'[u] = putting[u]
      BY <2>1 DEF PoolInv, PoolTypeOK
    <2>5. PoolTypeOK'
      BY <2>1, <2>2, <2>3 DEF PoolInv, PoolTypeOK, Places
    <2>6. InOnePlace'
      BY <2>2, <2>4 DEF PoolInv, InOnePlace
    <2>7. Carrying'
      BY <2>2, <2>3, <2>4 DEF PoolInv, PoolTypeOK, Carrying
    <2> QED
      BY <2>5, <2>6, <2>7 DEF PoolInv
  <1>2. CASE Put(t)
    <2>1. /\ queue' = queue \cup putting[t] /\ putting' = [putting EXCEPT ![t] = {}]
          /\ at' = [at EXCEPT ![t] = "out"] /\ UNCHANGED <<held, closed, shut>>
      BY <1>2 DEF Put, Goto
    <2>2. putting'[t] = {} /\ \A u \in Threads \ {t} : putting'[u] = putting[u]
      BY <2>1 DEF PoolInv, PoolTypeOK
    <2>3. PoolTypeOK'
      BY <2>1 DEF PoolInv, PoolTypeOK, Places
    <2>4. InOnePlace'
      BY <2>1, <2>2 DEF PoolInv, InOnePlace
    <2>5. Carrying'
      BY <2>1, <2>2 DEF PoolInv, PoolTypeOK, Carrying
    <2> QED
      BY <2>3, <2>4, <2>5 DEF PoolInv
  <1>3. CASE LeaveClosed(t)
    <2>1. PICK c \in held[t] : held' = [held EXCEPT ![t] = @ \ {c}] /\ closed' = closed \cup {c}
      BY <1>3 DEF LeaveClosed
    <2>2. UNCHANGED <<queue, at, putting, shut>>
      BY <1>3 DEF LeaveClosed
    <2>3. held'[t] = held[t] \ {c} /\ \A u \in Threads \ {t} : held'[u] = held[u]
      BY <2>1 DEF PoolInv, PoolTypeOK
    <2>4. PoolTypeOK'
      BY <2>1, <2>2 DEF PoolInv, PoolTypeOK
    <2>5. InOnePlace'
      BY <2>1, <2>2, <2>3 DEF PoolInv, InOnePlace
    <2> QED
      BY <2>2, <2>4, <2>5 DEF PoolInv, Carrying
  <1> QED
    BY <1>1, <1>2, <1>3 DEF ReleaseStep

LEMMA CloseInv == ASSUME PoolInv, CloseBegins \/ DrainOne \/ CloseEnds PROVE PoolInv'
  <1>1. UNCHANGED <<held, at, putting>> /\ shut' \in {"open", "draining", "shut"}
    BY DEF CloseBegins, DrainOne, CloseEnds, PoolInv, PoolTypeOK
  <1>2. \/ UNCHANGED <<queue, closed>>
        \/ \E c \in queue : queue' = queue \ {c} /\ closed' = closed \cup {c}
    BY DEF CloseBegins, DrainOne, CloseEnds
  <1> QED
    BY <1>1, <1>2 DEF PoolInv, PoolTypeOK, InOnePlace, Carrying

LEMMA PoolInvStep == ASSUME PoolInv, [PoolNext]_poolVars PROVE PoolInv'
  <1>1. CASE UNCHANGED poolVars
    BY <1>1 DEF poolVars, PoolInv, PoolTypeOK, InOnePlace, Carrying
  <1> QED
    BY <1>1, ObtainsInv, ReleaseInv, CloseInv DEF PoolNext, AcquireStep, ReleaseStep

LEMMA PoolInvAlways == PoolSpec => []PoolInv
  BY InitPoolInv, PoolInvStep, PTL DEF PoolSpec

(* No connection is ever in two places: two threads never share one, and none
   that is handed out has been closed, even when close() runs meanwhile. *)
THEOREM NeverShared == PoolSpec => []InOnePlace
  <1>1. PoolInv => InOnePlace
    BY DEF PoolInv
  <1> QED
    BY <1>1, PoolInvAlways, PTL
-----------------------------------------------------------------------------
(* The refinement of PermitPool.                                           *)

LEMMA TakeMaps ==
    ASSUME PoolInv, NEW t \in Threads, NEW c \in Conns, Obtain(t, c),
           \A u \in Threads : c \notin Uses(u), UNCHANGED putting
    PROVE  Permit!Take(t)
  <1>1. \A u \in Threads :
           held'[u] \cup putting'[u] = IF u = t THEN Uses(t) \cup {c} ELSE Uses(u)
    BY DEF Obtain, PoolInv, PoolTypeOK, Uses
  <1>2. c \in Conns \ Permit!Taken
    BY DEF Permit!Taken, Uses
  <1> QED
    BY <1>1, <1>2 DEF Permit!Take, Uses

LEMMA GiveMaps ==
    ASSUME PoolInv, NEW t \in Threads, Put(t) \/ LeaveClosed(t)
    PROVE  Permit!Give(t)
  <1>1. PICK c \in Uses(t) :
           \A u \in Threads :
              held'[u] \cup putting'[u] = IF u = t THEN Uses(t) \ {c} ELSE Uses(u)
    <2>1. CASE Put(t)
      <3>1. PICK c \in Conns : putting[t] = {c}
        BY <2>1 DEF Put, PoolInv, Carrying
      <3> QED
        BY <2>1, <3>1 DEF Put, PoolInv, PoolTypeOK, InOnePlace, Uses
    <2>2. CASE LeaveClosed(t)
      <3>1. PICK c \in held[t] : held' = [held EXCEPT ![t] = @ \ {c}]
        BY <2>2 DEF LeaveClosed
      <3>2. UNCHANGED putting
        BY <2>2 DEF LeaveClosed
      <3> QED
        BY <3>1, <3>2 DEF PoolInv, PoolTypeOK, InOnePlace, Uses
    <2> QED
      BY <2>1, <2>2
  <1> QED
    BY <1>1 DEF Permit!Give, Uses

\* Everything else leaves the connections each thread uses as they are.
LEMMA StutterMaps ==
    ASSUME PoolInv, (UNCHANGED <<held, putting>>) \/ (\E t \in Threads : Leave(t))
    PROVE  UNCHANGED [t \in Threads |-> held[t] \cup putting[t]]
  <1>1. CASE UNCHANGED <<held, putting>>
    BY <1>1
  <1>2. ASSUME NEW t \in Threads, Leave(t)
        PROVE  \A u \in Threads : held'[u] \cup putting'[u] = held[u] \cup putting[u]
    <2>1. PICK c \in held[t] : /\ held' = [held EXCEPT ![t] = @ \ {c}]
                               /\ putting' = [putting EXCEPT ![t] = {c}]
      BY <1>2 DEF Leave
    <2>2. putting[t] = {}
      BY <1>2 DEF Leave, PoolInv, Carrying
    <2> QED
      BY <2>1, <2>2 DEF PoolInv, PoolTypeOK
  <1> QED
    BY <1>1, <1>2

LEMMA PoolStepMaps ==
    ASSUME PoolInv, [PoolNext]_poolVars
    PROVE  [Permit!Next]_([t \in Threads |-> held[t] \cup putting[t]])
  <1>1. ASSUME NEW t \in Threads, GetFast(t) \/ GetSlow(t) \/ Create(t)
        PROVE  Permit!Take(t)
    <2>1. UNCHANGED putting
      BY <1>1 DEF GetFast, GetSlow, Create
    <2>2. PICK c \in Conns : Obtain(t, c) /\ \A u \in Threads : c \notin Uses(u)
      BY <1>1 DEF GetFast, GetSlow, Create, Created, PoolInv, PoolTypeOK, InOnePlace, Uses
    <2> QED
      BY <2>1, <2>2, TakeMaps
  <1>2. CASE UNCHANGED <<held, putting>>
    BY <1>2, StutterMaps
  <1>3. ASSUME NEW t \in Threads,
               \/ Enter(t) \/ GetMiss(t) \/ CreateFails(t) \/ AtCap(t) \/ Timeout(t)
               \/ CloseBegins \/ DrainOne \/ CloseEnds
        PROVE  UNCHANGED <<held, putting>>
    BY <1>3 DEF Enter, GetMiss, CreateFails, AtCap, Timeout, CloseBegins, DrainOne, CloseEnds
  <1>4. CASE CloseBegins \/ DrainOne \/ CloseEnds \/ UNCHANGED poolVars
    BY <1>4, <1>2 DEF CloseBegins, DrainOne, CloseEnds, poolVars
  <1> QED
    BY <1>1, <1>2, <1>3, <1>4, GiveMaps, StutterMaps DEF PoolNext, Permit!Next

(* The store is a permit pool whatever close(), timeouts and failed connects do:
   the modules that use it may be checked against PermitPool alone. *)
THEOREM StoreImplementsPermits == PoolSpec => ImplementsPermits
  <1>1. PoolInit => Permit!Init
    BY DEF PoolInit, Permit!Init
  <1> QED
    BY <1>1, PoolInvAlways, PoolStepMaps, PTL DEF PoolSpec, ImplementsPermits, Permit!Spec

(* Every variable keeps its type. *)
THEOREM PoolTypes == PoolSpec => []PoolTypeOK
  <1>1. PoolInv => PoolTypeOK
    BY DEF PoolInv
  <1> QED
    BY <1>1, PoolInvAlways, PTL

-----------------------------------------------------------------------------
(* StagingMerge.                                                           *)

NoRepeats == Repeats = {}

\* Only the newest row of a key can be active.
OnlyNewest == \A k \in Keys : \A i \in Active(k) : i = Len(table[k])

\* What a worker fetched of a key that is not owed is what the source publishes.
SeenFresh(w) == pc[w] # "idle" => \A k \in keys[w] \ owed : seen[w][k] = src[k]

\* Keys the worker leaves alone already show what it fetched.
Settled(w, K) == \A k \in K : Current(k, seen[w][k])

\* Where a merge stands.
Progress(w) ==
    /\ pc[w] = "supersede" =>
         /\ revs[w] \subseteq todo[w] /\ todo[w] \subseteq keys[w]
         /\ Settled(w, keys[w] \ todo[w])
         /\ \A k \in todo[w] \ revs[w] : Active(k) = {}
         /\ \A k \in revs[w] : ~ Current(k, seen[w][k])
    /\ pc[w] = "insert" =>
         /\ todo[w] \subseteq keys[w]
         /\ Settled(w, keys[w] \ todo[w])
         /\ \A k \in todo[w] : Active(k) = {}
    /\ pc[w] = "done" => Settled(w, keys[w])

WorkerInv(w) == keys[w] \subseteq Own(w) /\ twice[w] = {} /\ SeenFresh(w) /\ Progress(w)

\* The inductive invariant.
Inv == TypeOK /\ OnlyNewest /\ UpToDate /\ \A w \in Workers : WorkerInv(w)

-----------------------------------------------------------------------------
(* Rows.                                                                   *)

LEMMA SupersededRows ==
    ASSUME NEW rows \in Seq(Rows)
    PROVE  /\ Superseded(rows) \in Seq(Rows)
           /\ DOMAIN Superseded(rows) = DOMAIN rows
           /\ \A i \in DOMAIN rows : Superseded(rows)[i].state = "superseded"
  <1>0. \A i \in DOMAIN rows : rows[i] \in Rows
    OBVIOUS
  <1>1. \A i \in DOMAIN rows : /\ [rows[i] EXCEPT !.state = "superseded"] \in Rows
                               /\ [rows[i] EXCEPT !.state = "superseded"].state = "superseded"
    BY <1>0 DEF Rows
  <1>2. Len(rows) \in Nat /\ DOMAIN rows = 1 .. Len(rows)
    OBVIOUS
  <1>3. Superseded(rows) \in [1 .. Len(rows) -> Rows]
    BY <1>1, <1>2 DEF Superseded
  <1>4. Superseded(rows) \in Seq(Rows)
    BY <1>2, <1>3, SeqDef
  <1> QED
    BY <1>1, <1>2, <1>4 DEF Superseded

LEMMA AppendRow ==
    ASSUME NEW rows \in Seq(Rows), NEW p \in Payloads
    PROVE  /\ Append(rows, Row(p)) \in Seq(Rows)
           /\ Append(rows, Row(p)) # <<>>
           /\ Len(Append(rows, Row(p))) = Len(rows) + 1
           /\ Append(rows, Row(p))[Len(rows) + 1] = Row(p)
           /\ \A i \in DOMAIN rows : Append(rows, Row(p))[i] = rows[i]
  <1>1. Row(p) \in Rows
    BY DEF Row, Rows
  <1> QED
    BY <1>1

(* A row with the source's payload that is active is the Row of that payload. *)
LEMMA ActiveRow ==
    ASSUME NEW row \in Rows, row.state = "active" PROVE row = Row(row.payload)
  BY DEF Rows, Row

-----------------------------------------------------------------------------
(* Each action preserves the invariant.                                    *)

USE OwnerAssumption, MaxRevisionsAssumption, MaxAbortsAssumption

LEMMA InitInv == Init /\ NoRepeats => Inv
  <1> SUFFICES ASSUME Init PROVE Inv
    OBVIOUS
  <1>1. TypeOK
    BY DEF Init, TypeOK
  <1>2. OnlyNewest /\ UpToDate
    BY DEF Init, OnlyNewest, UpToDate, Active
  <1>3. \A w \in Workers : WorkerInv(w)
    BY DEF Init, WorkerInv, SeenFresh, Progress, Own
  <1> QED
    BY <1>1, <1>2, <1>3 DEF Inv

LEMMA ReviseInv == ASSUME Inv, NEW k \in Keys, Revise(k) PROVE Inv'
  <1>1. PICK p \in Payloads : src' = [src EXCEPT ![k] = p]
    BY DEF Revise
  <1>2. UNCHANGED <<table, workerVars, aborts>> /\ owed' = owed \cup {k}
        /\ revised' = [revised EXCEPT ![k] = @ + 1]
    BY DEF Revise
  <1>3. TypeOK'
    BY <1>1, <1>2 DEF Inv, TypeOK, workerVars
  <1>4. OnlyNewest' /\ UpToDate'
    BY <1>1, <1>2 DEF Inv, TypeOK, OnlyNewest, UpToDate, Active, Current
  <1>5. ASSUME NEW w \in Workers PROVE WorkerInv(w)'
    <2>1. WorkerInv(w)
      BY DEF Inv
    <2>2. SeenFresh(w)'
      BY <1>1, <1>2, <2>1 DEF WorkerInv, SeenFresh, workerVars, Inv, TypeOK, Own
    <2> QED
      BY <1>2, <2>1, <2>2 DEF WorkerInv, Progress, Settled, Current, Active, workerVars, Own
  <1> QED
    BY <1>3, <1>4, <1>5 DEF Inv

LEMMA FetchInv == ASSUME NoRepeats, Inv, NEW w \in Workers, Fetch(w) PROVE Inv'
  <1>1. PICK K \in SUBSET Own(w) : /\ keys' = [keys EXCEPT ![w] = K]
                                   /\ twice' = [twice EXCEPT ![w] = {}]
    BY DEF Fetch, NoRepeats
  <1>2. /\ seen' = [seen EXCEPT ![w] = src] /\ pc' = [pc EXCEPT ![w] = "classify"]
        /\ UNCHANGED <<table, src, revised, owed, revs, todo, aborts>>
    BY DEF Fetch, sourceVars
  <1>3. TypeOK'
    BY <1>1, <1>2 DEF Inv, TypeOK, Own
  <1>4. OnlyNewest' /\ UpToDate'
    BY <1>2 DEF Inv, OnlyNewest, UpToDate, Active, Current
  <1>5. ASSUME NEW v \in Workers PROVE WorkerInv(v)'
    <2>1. WorkerInv(v)
      BY DEF Inv
    <2>2. CASE v = w
      BY <1>1, <1>2, <2>1, <2>2 DEF WorkerInv, SeenFresh, Progress, Inv, TypeOK, Own
    <2>3. CASE v # w
      <3>1. /\ keys'[v] = keys[v] /\ twice'[v] = twice[v] /\ seen'[v] = seen[v] /\ pc'[v] = pc[v]
            /\ revs'[v] = revs[v] /\ todo'[v] = todo[v]
        BY <1>1, <1>2, <2>3 DEF Inv, TypeOK
      <3> QED
        BY <1>2, <2>1, <3>1 DEF WorkerInv, SeenFresh, Progress, Settled, Current, Active, Own
    <2> QED
      BY <2>2, <2>3
  <1> QED
    BY <1>3, <1>4, <1>5 DEF Inv

LEMMA ClassifyInv == ASSUME Inv, NEW w \in Workers, Classify(w) PROVE Inv'
  <1> DEFINE inserts == {k \in keys[w] : Active(k) = {}}
             revisions(hash) == {k \in keys[w] \ inserts : hash[k] # seen[w][k]}
  <1>1. PICK hash \in [keys[w] -> Payloads] :
          /\ \A k \in keys[w] : Active(k) # {} => \E i \in Active(k) : table[k][i].payload = hash[k]
          /\ revs' = [revs EXCEPT ![w] = revisions(hash)]
          /\ todo' = [todo EXCEPT ![w] = inserts \cup revisions(hash)]
          /\ pc' = [pc EXCEPT ![w] = IF revisions(hash) # {} THEN "supersede"
                                     ELSE IF inserts # {} THEN "insert" ELSE "done"]
    BY DEF Classify
  <1>2. UNCHANGED <<table, src, revised, owed, keys, seen, twice, aborts>> /\ pc[w] = "classify"
    BY DEF Classify, sourceVars
  <1>3. TypeOK'
    BY <1>1, <1>2 DEF Inv, TypeOK
  <1>4. OnlyNewest' /\ UpToDate'
    BY <1>2 DEF Inv, OnlyNewest, UpToDate, Active, Current
  <1>5. \A k \in keys[w] \ inserts : Current(k, hash[k])
    <2> SUFFICES ASSUME NEW k \in keys[w], Active(k) # {} PROVE Current(k, hash[k])
      OBVIOUS
    <2>1. k \in Keys /\ table[k] \in Seq(Rows)
      BY DEF Inv, TypeOK
    <2>2. PICK i \in Active(k) : table[k][i].payload = hash[k]
      BY <1>1
    <2>3. i = Len(table[k]) /\ i \in 1 .. Len(table[k]) /\ table[k][i].state = "active"
      BY <2>1 DEF Inv, OnlyNewest, Active
    <2>4. table[k][i] \in Rows
      BY <2>1, <2>3
    <2> QED
      BY <2>1, <2>2, <2>3, <2>4, ActiveRow DEF Current
  <1>6. \A k \in Keys : \A p, q \in Payloads : Current(k, p) /\ Current(k, q) => p = q
    BY DEF Current, Row
  <1>7. \A k \in revisions(hash) : ~ Current(k, seen[w][k])
    BY <1>1, <1>5, <1>6 DEF Inv, TypeOK
  <1>8. \A k \in keys[w] \ (inserts \cup revisions(hash)) : Current(k, seen[w][k])
    BY <1>1, <1>5
  <1> HIDE DEF inserts, revisions
  <1>9. ASSUME NEW v \in Workers PROVE WorkerInv(v)'
    <2>1. WorkerInv(v) /\ WorkerInv(w)
      BY DEF Inv
    <2>2. CASE v = w
      <3>1. /\ revs'[w] = revisions(hash) /\ todo'[w] = inserts \cup revisions(hash)
            /\ pc'[w] = IF revisions(hash) # {} THEN "supersede"
                        ELSE IF inserts # {} THEN "insert" ELSE "done"
        BY <1>1 DEF Inv, TypeOK
      <3>2. inserts \cup revisions(hash) \subseteq keys[w]
        BY DEF inserts, revisions
      <3>3. \A k \in inserts : Active(k)' = {}
        BY <1>2 DEF inserts, Active
      <3>4. \A k \in revisions(hash) : ~ Current(k, seen[w][k])'
        BY <1>2, <1>7 DEF Current
      <3>5. \A k \in keys[w] \ (inserts \cup revisions(hash)) : Current(k, seen[w][k])'
        BY <1>2, <1>8 DEF Current
      <3>6. SeenFresh(w)'
        BY <1>2, <2>1 DEF WorkerInv, SeenFresh
      <3>7. Progress(w)'
        <4>1. keys' = keys /\ seen' = seen
          BY <1>2
        <4>2. CASE pc'[w] = "supersede"
          BY <4>1, <4>2, <3>1, <3>2, <3>3, <3>4, <3>5 DEF Progress, Settled
        <4>3. CASE pc'[w] = "insert"
          BY <4>1, <4>3, <3>1, <3>2, <3>3, <3>5 DEF Progress, Settled
        <4>4. CASE pc'[w] = "done"
          BY <4>1, <4>4, <3>1, <3>5 DEF Progress, Settled
        <4> QED
          BY <3>1, <4>2, <4>3, <4>4
      <3> QED
        BY <1>2, <2>1, <2>2, <3>6, <3>7 DEF WorkerInv, Own
    <2>3. CASE v # w
      <3>1. revs'[v] = revs[v] /\ todo'[v] = todo[v] /\ pc'[v] = pc[v]
        BY <1>1, <2>3 DEF Inv, TypeOK
      <3> QED
        BY <1>2, <2>1, <3>1 DEF WorkerInv, SeenFresh, Progress, Settled, Current, Active, Own
    <2> QED
      BY <2>2, <2>3
  <1> QED
    BY <1>3, <1>4, <1>9 DEF Inv

(* A step of w on its own keys does not disturb another worker. *)
LEMMA OtherWorker ==
    ASSUME Inv, NEW w \in Workers, NEW v \in Workers, v # w,
           UNCHANGED <<src, keys, seen, twice, todo>>,
           pc'[v] = pc[v], revs'[v] = revs[v],
           \A k \in Keys \ Own(w) : table'[k] = table[k],
           \A k \in Keys \ Own(w) : k \in owed' <=> k \in owed
    PROVE  WorkerInv(v)'
  <1>1. WorkerInv(v)
    BY DEF Inv
  <1>2. \A k \in keys[v] : k \in Keys \ Own(w)
    BY <1>1 DEF WorkerInv, Own
  <1>3. SeenFresh(v)'
    BY <1>1, <1>2 DEF WorkerInv, SeenFresh
  <1>5. Progress(v)'
    <2>1. \A k \in keys[v] : /\ Active(k)' = Active(k)
                             /\ Current(k, seen[v][k])' <=> Current(k, seen[v][k])
      BY <1>2 DEF Active, Current
    <2> QED
      BY <1>1, <2>1 DEF WorkerInv, Progress, Settled
  <1> QED
    BY <1>1, <1>3, <1>5 DEF WorkerInv, Own

LEMMA SupersedeInv == ASSUME Inv, NEW w \in Workers, Supersede(w) PROVE Inv'
  <1>1. PICK k \in revs[w] :
          /\ table' = [table EXCEPT ![k] = Superseded(@)]
          /\ revs' = [revs EXCEPT ![w] = @ \ {k}]
          /\ pc' = [pc EXCEPT ![w] = IF revs[w] = {k} THEN "insert" ELSE "supersede"]
    BY DEF Supersede
  <1>2. UNCHANGED <<src, revised, owed, keys, seen, twice, todo, aborts>> /\ pc[w] = "supersede"
    BY DEF Supersede, sourceVars
  <1>3. WorkerInv(w) /\ k \in Keys /\ k \in Own(w) /\ k \in todo[w] /\ k \in keys[w]
        /\ ~ Current(k, seen[w][k])
    BY <1>2 DEF Inv, TypeOK, WorkerInv, Progress, Own
  <1>4. /\ table'[k] = Superseded(table[k])
        /\ \A j \in Keys \ {k} : table'[j] = table[j]
        /\ table' \in [Keys -> Seq(Rows)]
    BY <1>1, <1>3, SupersededRows DEF Inv, TypeOK
  <1>5. Active(k)' = {}
    BY <1>3, <1>4, SupersededRows DEF Active, Inv, TypeOK
  <1>6. TypeOK'
    BY <1>1, <1>2, <1>4 DEF Inv, TypeOK
  <1>7. OnlyNewest'
    BY <1>4, <1>5 DEF Inv, OnlyNewest, Active
  <1>8. k \in owed
    BY <1>2, <1>3 DEF Inv, UpToDate, WorkerInv, SeenFresh
  <1>9. UpToDate'
    BY <1>2, <1>4, <1>8 DEF Inv, UpToDate, Current
  <1>10. WorkerInv(w)'
    <2>1. revs'[w] = revs[w] \ {k} /\ pc'[w] = IF revs[w] = {k} THEN "insert" ELSE "supersede"
      BY <1>1 DEF Inv, TypeOK
    <2>2. \A j \in Keys \ {k} : /\ Active(j)' = Active(j)
                                /\ Current(j, seen[w][j])' <=> Current(j, seen[w][j])
      BY <1>2, <1>4 DEF Active, Current
    <2>3. keys[w] \subseteq Keys
      BY DEF Inv, TypeOK
    <2>4. Progress(w)'
      <3>1. /\ revs[w] \subseteq todo[w] /\ todo[w] \subseteq keys[w]
            /\ \A j \in keys[w] \ todo[w] : Current(j, seen[w][j])'
            /\ \A j \in todo[w] \ revs'[w] : Active(j)' = {}
            /\ \A j \in revs'[w] : ~ Current(j, seen[w][j])'
        BY <1>2, <1>3, <1>5, <2>1, <2>2, <2>3 DEF WorkerInv, Progress, Settled
      <3>2. keys' = keys /\ todo' = todo /\ seen' = seen
        BY <1>2
      <3>3. CASE revs[w] = {k}
        BY <2>1, <3>1, <3>2, <3>3 DEF Progress, Settled
      <3>4. CASE revs[w] # {k}
        BY <2>1, <3>1, <3>2, <3>4 DEF Progress, Settled
      <3> QED
        BY <3>3, <3>4
    <2>5. SeenFresh(w)'
      BY <1>2, <1>3 DEF WorkerInv, SeenFresh
    <2> QED
      BY <1>2, <1>3, <2>4, <2>5 DEF WorkerInv, Own
  <1>11. ASSUME NEW v \in Workers, v # w PROVE WorkerInv(v)'
    <2>1. pc'[v] = pc[v] /\ revs'[v] = revs[v]
      BY <1>1, <1>11 DEF Inv, TypeOK
    <2>2. \A j \in Keys \ Own(w) : table'[j] = table[j]
      BY <1>3, <1>4
    <2> QED
      BY <1>2, <1>11, <2>1, <2>2, OtherWorker
  <1> QED
    BY <1>6, <1>7, <1>9, <1>10, <1>11 DEF Inv

LEMMA InsertInv == ASSUME Inv, NEW w \in Workers, Insert(w) PROVE Inv'
  <1>1. /\ pc[w] = "insert" /\ pc' = [pc EXCEPT ![w] = "done"]
        /\ UNCHANGED <<src, revised, owed, keys, seen, twice, revs, todo, aborts>>
    BY DEF Insert, sourceVars
  <1>2. WorkerInv(w) /\ todo[w] \subseteq keys[w] /\ keys[w] \subseteq Own(w)
        /\ seen[w] \in [Keys -> Payloads]
    BY <1>1 DEF Inv, TypeOK, WorkerInv, Progress
  <1>3. /\ \A k \in todo[w] : table'[k] = Append(table[k], Row(seen[w][k]))
        /\ \A k \in Keys \ todo[w] : table'[k] = table[k]
        /\ DOMAIN table' = Keys
    BY <1>2 DEF Insert, WorkerInv, Own
  <1>4. ASSUME NEW k \in todo[w]
        PROVE  table'[k] \in Seq(Rows) /\ Current(k, seen[w][k])' /\ \A i \in Active(k)' : i = Len(table[k])'
    <2>1. k \in Keys /\ table[k] \in Seq(Rows) /\ seen[w][k] \in Payloads /\ Active(k) = {}
      BY <1>1, <1>2 DEF Inv, TypeOK, WorkerInv, Progress, Own
    <2>2. table'[k] = Append(table[k], Row(seen[w][k]))
      BY <1>3
    <2>3. /\ table'[k] \in Seq(Rows) /\ table'[k] # <<>> /\ Len(table'[k]) = Len(table[k]) + 1
          /\ table'[k][Len(table'[k])] = Row(seen[w][k])
          /\ \A i \in DOMAIN table[k] : table'[k][i] = table[k][i]
      BY <2>1, <2>2, AppendRow
    <2>4. \A i \in Active(k)' : i = Len(table'[k])
      <3> SUFFICES ASSUME NEW i \in DOMAIN table'[k], table'[k][i].state = "active"
                   PROVE  i = Len(table'[k])
        BY DEF Active
      <3>1. i \notin DOMAIN table[k]
        BY <2>1, <2>3 DEF Active
      <3>2. i \in 1 .. Len(table[k]) + 1 /\ DOMAIN table[k] = 1 .. Len(table[k]) /\ Len(table[k]) \in Nat
        BY <2>1, <2>3
      <3> QED
        BY <2>3, <3>1, <3>2
    <2> QED
      BY <1>1, <2>3, <2>4 DEF Current
  <1>5. TypeOK'
    <2>1. \A k \in Keys : table'[k] \in Seq(Rows)
      BY <1>3, <1>4 DEF Inv, TypeOK
    <2>2. table' = [k \in Keys |-> table'[k]]
      BY <1>3 DEF Insert
    <2>3. table' \in [Keys -> Seq(Rows)]
      BY <2>1, <2>2
    <2> QED
      BY <1>1, <2>3 DEF Inv, TypeOK
  <1>6. OnlyNewest'
    BY <1>3, <1>4 DEF Inv, OnlyNewest, Active
  <1>7. UpToDate'
    BY <1>1, <1>2, <1>3, <1>4 DEF Inv, UpToDate, WorkerInv, SeenFresh, Current
  <1>8. WorkerInv(w)'
    <2>1. \A k \in keys[w] : Current(k, seen[w][k])'
      BY <1>1, <1>2, <1>3, <1>4 DEF WorkerInv, Progress, Settled, Current, Own
    <2>2. pc'[w] = "done" /\ keys' = keys /\ seen' = seen
      BY <1>1 DEF Inv, TypeOK
    <2>3. Progress(w)'
      BY <2>1, <2>2 DEF Progress, Settled
    <2>4. SeenFresh(w)'
      BY <1>1, <1>2 DEF WorkerInv, SeenFresh
    <2> QED
      BY <1>1, <1>2, <2>3, <2>4 DEF WorkerInv, Own
  <1>9. ASSUME NEW v \in Workers, v # w PROVE WorkerInv(v)'
    <2>1. pc'[v] = pc[v]
      BY <1>1, <1>9 DEF Inv, TypeOK
    <2>2. \A k \in Keys \ Own(w) : table'[k] = table[k]
      BY <1>2, <1>3
    <2> QED
      BY <1>1, <1>9, <2>1, <2>2, OtherWorker
  <1> QED
    BY <1>5, <1>6, <1>7, <1>8, <1>9 DEF Inv

LEMMA ReportInv == ASSUME Inv, NEW w \in Workers, Report(w) PROVE Inv'
  <1>1. /\ pc[w] = "done" /\ pc' = [pc EXCEPT ![w] = "idle"]
        /\ owed' = owed \ {k \in keys[w] : seen[w][k] = src[k]}
        /\ UNCHANGED <<table, src, revised, keys, seen, twice, revs, todo, aborts>>
    BY DEF Report, sourceVars
  <1>2. WorkerInv(w) /\ Settled(w, keys[w])
    BY <1>1 DEF Inv, WorkerInv, Progress
  <1>3. TypeOK'
    BY <1>1 DEF Inv, TypeOK
  <1>4. OnlyNewest'
    BY <1>1 DEF Inv, OnlyNewest, Active
  <1>5. UpToDate'
    BY <1>1, <1>2 DEF Inv, UpToDate, Settled, Current
  <1>6. WorkerInv(w)'
    <2>1. pc'[w] = "idle"
      BY <1>1 DEF Inv, TypeOK
    <2> QED
      BY <1>1, <1>2, <2>1 DEF WorkerInv, SeenFresh, Progress, Own
  <1>7. ASSUME NEW v \in Workers, v # w PROVE WorkerInv(v)'
    <2>1. pc'[v] = pc[v]
      BY <1>1, <1>7 DEF Inv, TypeOK
    <2>2. \A k \in Keys \ Own(w) : k \in owed' <=> k \in owed
      BY <1>1, <1>2 DEF WorkerInv
    <2> QED
      BY <1>1, <1>7, <2>1, <2>2, OtherWorker
  <1> QED
    BY <1>3, <1>4, <1>5, <1>6, <1>7 DEF Inv

LEMMA AbortInv == ASSUME Inv, NEW w \in Workers, Abort(w) PROVE Inv'
  <1>1. /\ pc' = [pc EXCEPT ![w] = "idle"] /\ aborts' \in 0 .. MaxAborts
        /\ UNCHANGED <<table, src, revised, owed, keys, seen, twice, revs, todo>>
    BY DEF Inv, TypeOK, Abort, sourceVars
  <1>2. TypeOK'
    BY <1>1 DEF Inv, TypeOK
  <1>3. OnlyNewest' /\ UpToDate'
    BY <1>1 DEF Inv, OnlyNewest, UpToDate, Active, Current
  <1>4. WorkerInv(w)'
    <2>1. pc'[w] = "idle" /\ WorkerInv(w)
      BY <1>1 DEF Inv, TypeOK
    <2> QED
      BY <1>1, <2>1 DEF WorkerInv, SeenFresh, Progress, Own
  <1>5. ASSUME NEW v \in Workers, v # w PROVE WorkerInv(v)'
    <2>1. pc'[v] = pc[v]
      BY <1>1, <1>5 DEF Inv, TypeOK
    <2> QED
      BY <1>1, <1>5, <2>1, OtherWorker
  <1> QED
    BY <1>2, <1>3, <1>4, <1>5 DEF Inv

LEMMA StepInv == ASSUME NoRepeats, Inv, [Next]_vars PROVE Inv'
  <1>1. CASE UNCHANGED vars
    BY <1>1 DEF vars, sourceVars, workerVars, Inv, TypeOK, OnlyNewest, UpToDate, Active, Current,
                WorkerInv, SeenFresh, Progress, Settled, Own
  <1> QED
    BY <1>1, ReviseInv, FetchInv, ClassifyInv, SupersedeInv, InsertInv, ReportInv, AbortInv DEF Next

-----------------------------------------------------------------------------
(* The theorems.                                                           *)

LEMMA InvAlways == NoRepeats => (Spec => []Inv)
  <1> SUFFICES ASSUME NoRepeats PROVE Spec => []Inv
    OBVIOUS
  <1>1. Init => Inv
    BY InitInv
  <1>2. Inv /\ [Next]_vars => Inv'
    BY StepInv
  <1> QED
    BY <1>1, <1>2, PTL DEF Spec

LEMMA OnlyNewestBounds == Inv => OneActivePerKey
  <1> SUFFICES ASSUME Inv, NEW k \in Keys PROVE Cardinality(Active(k)) =< 1
    BY DEF OneActivePerKey
  <1>1. Active(k) \subseteq {Len(table[k])}
    BY DEF Inv, OnlyNewest
  <1>2. IsFiniteSet({Len(table[k])}) /\ Cardinality({Len(table[k])}) = 1
    BY FS_Singleton
  <1> QED
    BY <1>1, <1>2, FS_Subset

(* Every variable of the merge keeps its type. *)
THEOREM MergeTypes == NoRepeats => (Spec => []TypeOK)
  <1>1. Inv => TypeOK
    BY DEF Inv
  <1> QED
    BY <1>1, InvAlways, PTL

(* No key ever has two active rows: readers that select superseded_at IS NULL
   see each record once, whatever merges run side by side or are cut off. *)
THEOREM OneActive == NoRepeats => (Spec => []OneActivePerKey)
  BY InvAlways, OnlyNewestBounds, PTL

(* A key whose newest row is current has an active row. *)
LEMMA CurrentIsActive ==
    ASSUME TypeOK, NEW k \in Keys, NEW p \in Payloads, Current(k, p)
    PROVE  Active(k) # {}
  <1>1. table[k] \in Seq(Rows) /\ table[k] # <<>>
    BY DEF TypeOK, Current
  <1>2. Len(table[k]) \in DOMAIN table[k]
    BY <1>1
  <1> QED
    BY <1>2 DEF Current, Active, Row

(* A fetch that finds its row as it was stored leaves it alone: a repeat of what
   was done, after a kill or in the next cycle, writes nothing. *)
THEOREM RepeatsAreFree == NoRepeats => (Spec => RepeatWritesNothing)
  <1> SUFFICES ASSUME NoRepeats PROVE Spec => RepeatWritesNothing
    OBVIOUS
  <1>1. ASSUME Inv, [Next]_vars, NEW k \in Keys, Current(k, seen[Owner[k]][k])
        PROVE  table'[k] = table[k]
    <2> DEFINE o == Owner[k]
    <2>1. o \in Workers /\ seen[o][k] \in Payloads /\ WorkerInv(o)
      BY <1>1, OwnerAssumption DEF Inv, TypeOK
    <2>2. Active(k) # {}
      BY <1>1, <2>1, CurrentIsActive DEF Inv
    <2>3. \A w \in Workers : k \in keys[w] => w = o
      BY <1>1 DEF Inv, WorkerInv, Own
    <2>4. table \in [Keys -> Seq(Rows)]
      BY <1>1 DEF Inv, TypeOK
    <2>5. ASSUME NEW w \in Workers, Supersede(w) PROVE table'[k] = table[k]
      <3>1. PICK j \in revs[w] : table' = [table EXCEPT ![j] = Superseded(@)]
        BY <2>5 DEF Supersede
      <3>2. j \in keys[w] /\ ~ Current(j, seen[w][j])
        BY <1>1, <2>5, <3>1 DEF Supersede, Inv, WorkerInv, Progress
      <3>3. j # k
        BY <1>1, <2>3, <3>2
      <3> QED
        BY <2>4, <3>1, <3>3
    <2>6. ASSUME NEW w \in Workers, Insert(w) PROVE table'[k] = table[k]
      <3>1. k \notin todo[w]
        BY <1>1, <2>2, <2>6 DEF Insert, Inv, WorkerInv, Progress
      <3> QED
        BY <2>6, <3>1 DEF Insert
    <2>7. CASE table' = table
      BY <2>7
    <2> QED
      BY <1>1, <2>5, <2>6, <2>7 DEF Next, vars, Revise, Fetch, Classify, Report, Abort
  <1>2. Inv /\ [Next]_vars =>
          [\A k \in Keys : Current(k, seen[Owner[k]][k]) => table'[k] = table[k]]_vars
    BY <1>1
  <1> QED
    BY <1>2, InvAlways, PTL DEF Spec, RepeatWritesNothing

(* A record whose ingestion was reported successful is active with the payload
   its source publishes, and a record without an active row is owed: the next
   fetch brings it back. *)
THEOREM NothingLost == NoRepeats => (Spec => [](UpToDate /\ GapIsOwed))
  <1>1. Inv => UpToDate /\ GapIsOwed
    <2> SUFFICES ASSUME Inv, NEW k \in Keys, table[k] # <<>>, Active(k) = {} PROVE k \in owed
      BY DEF Inv, GapIsOwed
    <2>1. table[k] \in Seq(Rows)
      BY DEF Inv, TypeOK
    <2>2. Len(table[k]) \in DOMAIN table[k]
      BY <2>1
    <2>3. ~ Current(k, src[k])
      BY <2>2 DEF Current, Active, Row
    <2> QED
      BY <2>3 DEF Inv, UpToDate
  <1> QED
    BY <1>1, InvAlways, PTL


-----------------------------------------------------------------------------
(* The refinement of SourceMirror.                                         *)

Shown(k) == {table[k][i].payload : i \in Active(k)}

(* Readers find one payload or none. *)
LEMMA ShownIsFound == Inv => \A k \in Keys : Shown(k) \in Mirror!Found
  <1> SUFFICES ASSUME Inv, NEW k \in Keys PROVE Shown(k) \in Mirror!Found
    OBVIOUS
  <1>1. table[k] \in Seq(Rows)
    BY DEF Inv, TypeOK
  <1>2. \A i \in Active(k) : i \in DOMAIN table[k] /\ table[k][i] \in Rows /\ i = Len(table[k])
    BY <1>1 DEF Active, Inv, OnlyNewest
  <1>3. \A i \in Active(k) : table[k][i].payload \in Payloads
    BY <1>2 DEF Rows
  <1> QED
    BY <1>2, <1>3 DEF Shown, Mirror!Found

(* ... the one of the newest row where it is current. *)
LEMMA CurrentIsShown ==
    ASSUME TypeOK, OnlyNewest, NEW k \in Keys, NEW p \in Payloads, Current(k, p)
    PROVE  Shown(k) = {p}
  <1>1. Active(k) # {} /\ \A i \in Active(k) : i = Len(table[k])
    BY CurrentIsActive DEF OnlyNewest
  <1>2. table[k][Len(table[k])].payload = p
    BY DEF Current, Row
  <1> QED
    BY <1>1, <1>2 DEF Shown

(* A statement that writes rows writes only keys that a fetch is owed of. *)
LEMMA WritesAreOwed ==
    ASSUME Inv, Inv', NEW w \in Workers, Supersede(w) \/ Insert(w)
    PROVE  \E K \in SUBSET Keys :
              /\ K \subseteq owed
              /\ \A k \in Keys \ K : table'[k] = table[k]
  <1>1. CASE Supersede(w)
    <2>1. PICK k \in revs[w] : table' = [table EXCEPT ![k] = Superseded(@)]
      BY <1>1 DEF Supersede
    <2>2. k \in keys[w] /\ k \in Keys /\ ~ Current(k, seen[w][k])
      BY <1>1, <2>1 DEF Supersede, Inv, TypeOK, WorkerInv, Progress
    <2>3. k \in owed
      BY <1>1, <2>2 DEF Supersede, Inv, UpToDate, WorkerInv, SeenFresh
    <2>4. {k} \subseteq owed /\ {k} \in SUBSET Keys
      BY <2>2, <2>3
    <2>5. \A j \in Keys \ {k} : table'[j] = table[j]
      BY <2>1 DEF Inv, TypeOK
    <2> QED
      BY <2>4, <2>5
  <1>2. CASE Insert(w)
    <2>1. todo[w] \in SUBSET Keys /\ \A k \in todo[w] : Active(k) = {}
      BY <1>2 DEF Insert, Inv, TypeOK, WorkerInv, Progress
    <2>2. ASSUME NEW k \in todo[w] PROVE k \in owed
      <3>1. k \in Keys /\ Active(k) = {} /\ src[k] \in Payloads
        BY <2>1 DEF Inv, TypeOK
      <3>2. ~ Current(k, src[k])
        BY <3>1, CurrentIsActive DEF Inv
      <3> QED
        BY <3>1, <3>2 DEF Inv, UpToDate
    <2>3. \A k \in Keys \ todo[w] : table'[k] = table[k]
      BY <1>2 DEF Insert
    <2> QED
      BY <2>1, <2>2, <2>3
  <1> QED
    BY <1>1, <1>2

(* The merge, statement by statement, keeps a mirror of the source: what the
   other subsystems take a canonical table for. *)
THEOREM MergeIsMirror == NoRepeats => (Spec => ImplementsMirror)
  <1> SUFFICES ASSUME NoRepeats PROVE Spec => Mirror!Spec
    BY DEF ImplementsMirror
  <1>1. Init => Mirror!Init
    <2> SUFFICES ASSUME Init PROVE Mirror!Init
      OBVIOUS
    <2>1. \A k \in Keys : Active(k) = {}
      BY DEF Init, Active
    <2> QED
      BY <2>1 DEF Init, Mirror!Init
  <1>2. Inv' => (\A k \in Keys : Shown(k) \in Mirror!Found)'
    BY ShownIsFound, PTL
  <1>3. Inv /\ Inv' /\ [Next]_vars => [Mirror!Next]_Mirror!vars
    <2> SUFFICES ASSUME Inv, Inv', [Next]_vars PROVE [Mirror!Next]_Mirror!vars
      OBVIOUS
    <2>1. CASE table' = table
      <3>1. \A k \in Keys : Active(k)' = Active(k)
        BY <2>1 DEF Active
      <3>2. UNCHANGED [k \in Keys |-> {table[k][i].payload : i \in Active(k)}]
        BY <2>1, <3>1
      <3>3. CASE src' = src /\ owed' = owed
        BY <3>2, <3>3 DEF Mirror!vars
      <3>4. ASSUME NEW k \in Keys, Revise(k) PROVE Mirror!Publish(k)
        BY <3>2, <3>4 DEF Revise, Mirror!Publish
      <3>5. ASSUME NEW w \in Workers, Report(w) PROVE \E K \in SUBSET Keys : Mirror!Settle(K)
        <4> DEFINE K == {k \in keys[w] : seen[w][k] = src[k]}
        <4>1. K \in SUBSET Keys /\ owed' = owed \ K /\ src' = src
          BY <3>5 DEF Report, sourceVars, Inv, TypeOK
        <4>2. ASSUME NEW k \in K PROVE Shown(k) = {src[k]}
          <5>1. k \in Keys /\ src[k] \in Payloads /\ Current(k, src[k])
            BY <3>5 DEF Report, Inv, TypeOK, WorkerInv, Progress, Settled
          <5> QED
            BY <5>1, CurrentIsShown DEF Inv
        <4> HIDE DEF K
        <4>3. Mirror!Settle(K)
          BY <3>2, <4>1, <4>2 DEF Mirror!Settle, Shown
        <4> QED
          BY <4>1, <4>3
      <3> QED
        BY <2>1, <3>3, <3>4, <3>5
        DEF Next, vars, sourceVars, Fetch, Classify, Supersede, Insert, Abort, Mirror!Next
    <2>2. ASSUME NEW w \in Workers, Supersede(w) \/ Insert(w)
          PROVE  \E K \in SUBSET Keys : Mirror!Write(K)
      <3>1. PICK K \in SUBSET Keys : K \subseteq owed /\ \A k \in Keys \ K : table'[k] = table[k]
        BY <2>2, WritesAreOwed
      <3>2. src' = src /\ owed' = owed
        BY <2>2 DEF Supersede, Insert, sourceVars
      <3>3. \A k \in Keys : Shown(k)' \in Mirror!Found
        BY <1>2
      <3>4. \A k \in Keys \ K : Shown(k)' = Shown(k)
        BY <3>1 DEF Shown, Active
      <3>5. Mirror!Write(K)
        BY <3>1, <3>2, <3>3, <3>4 DEF Mirror!Write, Shown
      <3> QED
        BY <3>5
    <2> QED
      BY <2>1, <2>2
      DEF Next, vars, Revise, Fetch, Classify, Report, Abort, Mirror!Next
  <1> QED
    BY <1>1, <1>3, InvAlways, PTL DEF Spec, Mirror!Spec

=============================================================================
