------------------------ MODULE ResolutionSyncProofs ------------------------
(***************************************************************************)
(* Proofs about ResolutionSync, for any page size, cap, number of markets  *)
(* and number of failures, when fewer than a page of markets resolve       *)
(* between two requests.                                                   *)
(***************************************************************************)
EXTENDS ResolutionSync, TLAPS

(***************************************************************************)
(* The shape of a running job: which statements each job has, where its    *)
(* page lies in the listing, and what of it is stored and marked already.  *)
(***************************************************************************)
Holding == {"persist", "insert", "mark", "save", "next"}

PageInv ==
    /\ job.kind = "none" <=> job.pc = "idle"
    /\ job.pc \in {"save", "complete"} => job.kind = "backfill"
    /\ job.pc \in Holding \/ (job.kind = "delta" /\ job.pages > 0) =>
          /\ 1 <= job.lo /\ job.lo <= job.hi /\ job.hi <= resolved
          /\ job.hi - job.lo + 1 <= PageSize
          /\ job.hi - job.lo + 1 < PageSize => job.lo = 1
    /\ job.pc \in {"mark", "save", "next"} =>
          job.lo .. job.hi \subseteq stored /\ torn \cap job.lo .. job.hi = {}
    /\ job.pc \in {"save", "next"} => job.lo .. job.hi \subseteq marked
    /\ job.pc \in {"mark", "save", "next"} => job.pages > 0
    /\ job.base <= resolved /\ row.base <= resolved
    /\ job.kind = "delta" /\ job.pages = 0 => job.offset = 0

(***************************************************************************)
(* What an offset claims, and what a running backfill knows besides.       *)
(***************************************************************************)
(***************************************************************************)
(* Stored and marked at some time.  Only a cut merge takes away from it.   *)
(***************************************************************************)
Reached == stored \cap marked

Covers(base, offset) ==
    \A k \in 1 .. resolved : k <= base /\ k > resolved - offset => k \in Reached

RowWalk ==
    /\ Covers(row.base, row.offset)
    /\ row.status = "completed" => 1 .. row.base \subseteq Reached

JobWalk ==
    job.kind = "backfill" =>
        /\ job.pc # "complete" => Covers(job.base, job.offset)
        /\ job.pc \in {"persist", "insert", "mark"} =>
              /\ job.hi + job.offset <= resolved
              /\ \A k \in 1 .. resolved :
                    k <= job.base /\ k > job.hi => k \in Reached
        /\ job.pc \in {"save", "next"} =>
              \A k \in 1 .. resolved :
                 k <= job.base /\ k >= job.lo => k \in Reached
        /\ job.pc = "complete" => 1 .. job.base \subseteq Reached

(***************************************************************************)
(* No holes above m: every stored market newer than m has all markets      *)
(* between m and itself stored and marked.                                 *)
(***************************************************************************)
Above(m) == \A k \in stored : \A j \in 1 .. k : j > m => j \in Reached

Unwalked == row.offset = 0 /\ row.status # "completed"

Floor == Larger(row.base, cutTop)

RowAbove == Unwalked \/ Above(Floor)

\* Holes may lie only below the page a delta holds, and then not at once below
\* a page that changed nothing.

Below(n) == \A k \in stored : k < n => \A j \in 1 .. k : j > Floor => j \in Reached

Since(n) == \A k \in stored : \A j \in n .. k : j \in Reached

DeltaHole ==
    /\ job.pages = 0 => Above(Floor)
    /\ job.pc \in {"persist", "insert"} => Since(job.hi + 1) /\ Below(job.lo)
    /\ job.pc \in {"persist", "insert"} /\ job.lo \in stored =>
          \A j \in 1 .. job.lo : j > Floor => j \in Reached
    /\ job.pc = "mark" => Since(job.hi + 1) /\ Below(job.lo)
    /\ job.pc = "next" \/ (job.pc = "fetch" /\ job.pages > 0) =>
          Since(job.lo) /\ Below(job.lo)
    /\ job.pc \in {"mark", "next"} /\ job.fresh = "no" =>
          \A j \in 1 .. job.lo : j > Floor => j \in Reached \/ j = job.lo
    /\ job.pc \in {"persist", "insert", "mark", "next"} =>
          /\ job.hi + job.offset <= resolved
          /\ resolved - job.offset <= job.hi + burst
    /\ job.pc = "fetch" /\ job.pages > 0 =>
          /\ job.lo - 1 <= resolved - job.offset
          /\ resolved - job.offset <= job.lo - 1 + burst

DeltaInv == job.kind = "delta" /\ ~Unwalked => DeltaHole

IdleHole == job.kind = "none" => RowAbove

WalkHole ==
    job.kind = "backfill" =>
        /\ job.pc \in {"fetch", "persist", "insert", "next", "complete"} => RowAbove
        /\ \/ job.pc = "fetch" /\ job.offset = 0
           \/ Above(Larger(job.base, cutTop))
        /\ job.pc \in {"persist", "insert", "mark"} => job.hi <= job.base

HoleInv == IdleHole /\ DeltaInv /\ WalkHole

WalkInv == TypeOK /\ PageInv /\ RowWalk /\ JobWalk /\ HoleInv

USE PageSizeAssumption, MaxPagesAssumption, BurstAssumption,
    MaxResolvedAssumption, MaxFaultsAssumption
USE DEF vars, table, Rows, Jobs, NoRow, NoJob, Page, Running, Larger, Holding

-----------------------------------------------------------------------------

Shape == TypeOK /\ PageInv

(* The updates that keep a job's record a job. *)
LEMMA BeginJob ==
    ASSUME NEW j \in Jobs,
           NEW kind \in {"backfill", "delta"}, NEW offset \in Nat, NEW base \in Nat
    PROVE  [j EXCEPT !.kind = kind, !.pc = "fetch",
                     !.offset = offset, !.base = base] \in Jobs
  OBVIOUS

LEMMA NoJobIsJob == NoJob \in Jobs
  OBVIOUS

LEMMA PersistJob ==
    ASSUME NEW j \in Jobs, NEW fresh \in {"yes", "no"}
    PROVE  [j EXCEPT !.pc = "mark", !.fresh = fresh, !.pages = j.pages + 1] \in Jobs
  <1>1. j.pages + 1 \in Nat
    OBVIOUS
  <1> DEFINE n == j.pages + 1
  <1> HIDE DEF n
  <1> QED
    BY <1>1 DEF n

LEMMA FetchJob ==
    ASSUME NEW j \in Jobs, NEW lo \in Int, NEW hi \in Int, NEW base \in Nat
    PROVE  [j EXCEPT !.pc = "persist", !.hi = hi, !.lo = lo, !.base = base] \in Jobs
  OBVIOUS

LEMMA InitShape == Init => Shape
  BY DEF Init, Shape, TypeOK, PageInv

(* Every step keeps the types and the shape of the running job. *)
LEMMA StepShape == Shape /\ [Next]_vars => Shape'
  <1> SUFFICES ASSUME Shape, [Next]_vars
               PROVE  TypeOK' /\ PageInv'
    BY DEF Shape
  <1> USE DEF Shape, TypeOK
  <1>1. CASE Resolve
    <2>1. TypeOK'
      BY <1>1 DEF PageInv, Resolve
    <2>2. PageInv'
      BY <1>1 DEF PageInv, Resolve
    <2> QED
      BY <2>1, <2>2
  <1>2. CASE BeginBackfill
    <2>1. TypeOK'
      <3>1. job' \in Jobs
        <4>1. row.offset \in Nat /\ row.base \in Nat
          OBVIOUS
        <4>2. job' = [NoJob EXCEPT !.kind = "backfill", !.pc = "fetch",
                                   !.offset = row.offset, !.base = row.base]
          BY <1>2 DEF BeginBackfill, Begin
        <4> HIDE DEF NoJob, Jobs, TypeOK
        <4> QED
          BY <4>1, <4>2, NoJobIsJob, BeginJob
      <3> QED
        BY <1>2, <3>1 DEF PageInv, BeginBackfill, Begin
    <2>2. PageInv'
      BY <1>2 DEF PageInv, BeginBackfill, Begin
    <2> QED
      BY <2>1, <2>2
  <1>3. CASE BeginRestart
    <2>1. TypeOK'
      <3>1. job' \in Jobs
        <4>1. row.offset \in Nat /\ row.base \in Nat
          OBVIOUS
        <4>2. job' = [NoJob EXCEPT !.kind = "backfill", !.pc = "fetch",
                                   !.offset = 0, !.base = 0]
          BY <1>3 DEF BeginRestart, Begin
        <4> HIDE DEF NoJob, Jobs, TypeOK
        <4> QED
          BY <4>1, <4>2, NoJobIsJob, BeginJob
      <3> QED
        BY <1>3, <3>1 DEF PageInv, BeginRestart, Begin
    <2>2. PageInv'
      BY <1>3 DEF PageInv, BeginRestart, Begin
    <2> QED
      BY <2>1, <2>2
  <1>4. CASE BeginDelta
    <2>1. TypeOK'
      <3>1. job' \in Jobs
        <4>1. row.offset \in Nat /\ row.base \in Nat
          OBVIOUS
        <4>2. job' = [NoJob EXCEPT !.kind = "delta", !.pc = "fetch",
                                   !.offset = 0, !.base = row.base]
          BY <1>4 DEF BeginDelta, Begin
        <4> HIDE DEF NoJob, Jobs, TypeOK
        <4> QED
          BY <4>1, <4>2, NoJobIsJob, BeginJob
      <3> QED
        BY <1>4, <3>1 DEF PageInv, BeginDelta, Begin
    <2>2. PageInv'
      BY <1>4 DEF PageInv, BeginDelta, Begin
    <2> QED
      BY <2>1, <2>2
  <1>5. CASE FetchPage
    <2>1. TypeOK'
      <3>1. job' \in Jobs
        <4> DEFINE newest == resolved - job.offset
        <4>1. /\ newest \in Int
              /\ Larger(1, newest - PageSize + 1) \in Int
              /\ Larger(job.base, newest) \in Nat
          OBVIOUS
        <4>2. job' = [job EXCEPT !.pc = "persist", !.hi = newest,
                                 !.lo = Larger(1, newest - PageSize + 1),
                                 !.base = Larger(job.base, newest)]
          BY <1>5 DEF FetchPage
        <4> HIDE DEF newest, Larger
        <4> QED
          BY <4>1, <4>2, FetchJob
      <3> QED
        BY <1>5, <3>1 DEF PageInv, FetchPage
    <2>2. PageInv'
      BY <1>5 DEF PageInv, FetchPage
    <2> QED
      BY <2>1, <2>2
  <1>6. CASE FetchEmpty
    <2>1. TypeOK'
      BY <1>6 DEF PageInv, FetchEmpty
    <2>2. PageInv'
      BY <1>6 DEF PageInv, FetchEmpty
    <2> QED
      BY <2>1, <2>2
  <1>7. CASE Insert
    <2>1. TypeOK'
      <3>1. job' \in Jobs
        <4>1. PICK fresh \in {"yes", "no"} :
                 job' = [job EXCEPT !.pc = "mark", !.fresh = fresh,
                                    !.pages = job.pages + 1]
          BY <1>7 DEF Insert, Merge
        <4> QED
          BY <4>1, PersistJob
      <3> QED
        BY <1>7, <3>1 DEF PageInv, Insert, Merge
    <2>2. PageInv'
      BY <1>7 DEF PageInv, Insert, Merge
    <2> QED
      BY <2>1, <2>2
  <1>19. CASE Supersede
    <2>1. TypeOK'
      <3>1. job' = [job EXCEPT !.pc = "insert"]
        BY <1>19 DEF Supersede
      <3>2. torn' \in SUBSET stored /\ lost' \in SUBSET torn'
        BY <1>19 DEF Supersede, Active
      <3> QED
        BY <1>19, <3>1, <3>2 DEF Supersede
    <2>2. PageInv'
      BY <1>19 DEF PageInv, Supersede
    <2> QED
      BY <2>1, <2>2
  <1>8. CASE Mark
    <2>1. TypeOK'
      <3>0. job.offset + (job.hi - job.lo + 1) \in Nat
        BY <1>8 DEF PageInv, Mark
      <3>1. job' \in Jobs
        BY <1>8, <3>0 DEF Mark
      <3> QED
        BY <1>8, <3>1 DEF PageInv, Mark
    <2>2. PageInv'
      BY <1>8 DEF PageInv, Mark
    <2> QED
      BY <2>1, <2>2
  <1>9. CASE SaveOffset
    <2>1. TypeOK'
      BY <1>9 DEF PageInv, SaveOffset, Upsert
    <2>2. PageInv'
      BY <1>9 DEF PageInv, SaveOffset, Upsert
    <2> QED
      BY <2>1, <2>2
  <1>10. CASE BackfillNext
    <2>1. TypeOK'
      BY <1>10 DEF PageInv, BackfillNext, PageIsShort
    <2>2. PageInv'
      BY <1>10 DEF PageInv, BackfillNext, PageIsShort
    <2> QED
      BY <2>1, <2>2
  <1>11. CASE Complete
    <2>1. TypeOK'
      BY <1>11 DEF PageInv, Complete, Upsert
    <2>2. PageInv'
      BY <1>11 DEF PageInv, Complete, Upsert
    <2> QED
      BY <2>1, <2>2
  <1>12. CASE DeltaEnds
    <2>1. TypeOK'
      BY <1>12 DEF PageInv, DeltaEnds, PageIsShort
    <2>2. PageInv'
      BY <1>12 DEF PageInv, DeltaEnds, PageIsShort
    <2> QED
      BY <2>1, <2>2
  <1>13. CASE DeltaGoesOn
    <2>1. TypeOK'
      <3>0. job.offset + (job.hi - job.lo + 1) \in Nat
        BY <1>13 DEF PageInv, DeltaGoesOn, PageIsShort
      <3>1. job' \in Jobs
        BY <1>13, <3>0 DEF DeltaGoesOn, PageIsShort
      <3> QED
        BY <1>13, <3>1 DEF PageInv, DeltaGoesOn, PageIsShort
    <2>2. PageInv'
      BY <1>13 DEF PageInv, DeltaGoesOn, PageIsShort
    <2> QED
      BY <2>1, <2>2
  <1>14. CASE DeltaCapped
    <2>1. TypeOK'
      BY <1>14 DEF PageInv, DeltaCapped, PageIsShort
    <2>2. PageInv'
      BY <1>14 DEF PageInv, DeltaCapped, PageIsShort
    <2> QED
      BY <2>1, <2>2
  <1>15. CASE BackfillFails
    <2>1. TypeOK'
      BY <1>15 DEF PageInv, BackfillFails, Upsert, InTry
    <2>2. PageInv'
      BY <1>15 DEF PageInv, BackfillFails, Upsert, InTry
    <2> QED
      BY <2>1, <2>2
  <1>16. CASE DeltaFails
    <2>1. TypeOK'
      BY <1>16 DEF PageInv, DeltaFails
    <2>2. PageInv'
      BY <1>16 DEF PageInv, DeltaFails
    <2> QED
      BY <2>1, <2>2
  <1>17. CASE BackfillKilled
    <2>1. TypeOK'
      BY <1>17 DEF PageInv, BackfillKilled
    <2>2. PageInv'
      BY <1>17 DEF PageInv, BackfillKilled
    <2> QED
      BY <2>1, <2>2
  <1>18. CASE UNCHANGED vars
    BY <1>18 DEF PageInv
  <1> QED
    BY <1>1, <1>2, <1>3, <1>4, <1>5, <1>6, <1>7, <1>8, <1>9, <1>10, <1>11, <1>12, <1>13, <1>14,
       <1>15, <1>16, <1>17, <1>18, <1>19
    DEF Next

-----------------------------------------------------------------------------

Grows == /\ resolved' >= resolved
         /\ stored \subseteq stored'
         /\ marked \subseteq marked'

LEMMA StepGrows == Shape /\ [Next]_vars => Grows
  <1> SUFFICES ASSUME Shape, [Next]_vars
               PROVE  Grows
    OBVIOUS
  <1>1. CASE Resolve
    BY <1>1 DEF Resolve, Grows, Shape, TypeOK
  <1>2. CASE Insert
    BY <1>2 DEF Insert, Merge, Grows, Shape, TypeOK
  <1>4. CASE Mark
    BY <1>4 DEF Mark, Grows, Shape, TypeOK
  <1>3. CASE UNCHANGED <<resolved, stored, marked>>
    BY <1>3 DEF Grows, Shape, TypeOK
  <1> QED
    BY <1>1, <1>2, <1>3, <1>4
    DEF Next, BeginBackfill, BeginRestart, BeginDelta, Begin, FetchPage, FetchEmpty,
        Supersede, SaveOffset, BackfillNext, Complete, DeltaEnds, DeltaGoesOn,
        DeltaCapped, BackfillFails, DeltaFails, BackfillKilled

(* A step that leaves the row alone keeps what the row claims. *)
LEMMA RowKept ==
    ASSUME Shape, Grows, resolved' \in Nat, RowWalk, row' = row
    PROVE  RowWalk'
  BY DEF Shape, TypeOK, PageInv, Grows, RowWalk, Covers, Reached

(* A row that takes over the job's offset claims what the job claimed. *)
LEMMA RowSaved ==
    ASSUME Shape, Grows, resolved' = resolved, NEW status \in {"in_progress", "failed"},
           Upsert(status), Covers(job.base, job.offset)
    PROVE  RowWalk'
  <1>1. row'.base = job.base /\ row'.offset = job.offset /\ row'.status = status
    BY DEF Upsert
  <1> QED
    BY <1>1 DEF Shape, TypeOK, Grows, RowWalk, Covers, Reached

LEMMA InitWalk == Init => RowWalk /\ JobWalk
  BY DEF Init, RowWalk, JobWalk, Covers

LEMMA StepRowWalk == Shape /\ RowWalk /\ JobWalk /\ [Next]_vars => RowWalk'
  <1> SUFFICES ASSUME Shape, RowWalk, JobWalk, [Next]_vars
               PROVE  RowWalk'
    OBVIOUS
  <1>0. Grows /\ resolved' \in Nat
    BY StepGrows, StepShape DEF Shape, TypeOK
  <1>1. CASE row' = row
    BY <1>0, <1>1, RowKept
  <1>2. CASE BeginRestart
    <2>1. row'.base = 0 /\ row'.status = "none"
      BY <1>2 DEF BeginRestart
    <2> QED
      BY <2>1 DEF RowWalk, Covers
  <1>3. CASE SaveOffset
    <2>1. job.kind = "backfill" /\ Covers(job.base, job.offset) /\ Upsert("in_progress")
      BY <1>3 DEF SaveOffset, Shape, PageInv, JobWalk
    <2>2. resolved' = resolved
      BY <1>3 DEF SaveOffset
    <2> QED
      BY <1>0, <2>1, <2>2, RowSaved
  <1>4. CASE BackfillFails
    <2>1. Covers(job.base, job.offset) /\ Upsert("failed")
      BY <1>4 DEF BackfillFails, InTry, JobWalk
    <2>2. resolved' = resolved
      BY <1>4 DEF BackfillFails
    <2> QED
      BY <1>0, <2>1, <2>2, RowSaved
  <1>5. CASE Complete
    <2>1. 1 .. job.base \subseteq Reached
      BY <1>5 DEF Complete, Shape, PageInv, JobWalk
    <2>2. row'.base = job.base /\ resolved' = resolved /\ Reached' = Reached
      BY <1>5 DEF Complete, Upsert, Reached
    <2> QED
      BY <2>1, <2>2 DEF RowWalk, Covers, Shape, TypeOK
  <1> QED
    BY <1>1, <1>2, <1>3, <1>4, <1>5
    DEF Next, Resolve, BeginBackfill, BeginDelta, FetchPage, FetchEmpty, Supersede, Insert, Merge,
        Mark, BackfillNext, DeltaEnds, DeltaGoesOn, DeltaCapped, DeltaFails,
        BackfillKilled

LEMMA StepJobWalk == Shape /\ RowWalk /\ JobWalk /\ [Next]_vars => JobWalk'
  <1> SUFFICES ASSUME Shape, RowWalk, JobWalk, [Next]_vars
               PROVE  JobWalk'
    OBVIOUS
  <1>0. Grows
    BY StepGrows
  <1>1. CASE UNCHANGED vars
    BY <1>1 DEF JobWalk, Covers, Reached
  <1>2. CASE job'.kind # "backfill"
    BY <1>2 DEF JobWalk
  <1>3. CASE Resolve
    <2>1. job' = job /\ resolved' = resolved + 1 /\ Reached' = Reached
      BY <1>3 DEF Resolve, Reached
    <2>2. job.base <= resolved
      BY DEF Shape, PageInv
    <2> QED
      BY <2>1, <2>2 DEF JobWalk, Covers, Shape, TypeOK
  <1>4. CASE BeginBackfill
    <2>1. /\ job'.pc = "fetch" /\ job'.base = row.base /\ job'.offset = row.offset
          /\ resolved' = resolved /\ Reached' = Reached
      BY <1>4 DEF BeginBackfill, Begin, Reached
    <2> QED
      BY <2>1 DEF JobWalk, RowWalk, Covers
  <1>5. CASE BeginRestart
    <2>1. job'.pc = "fetch" /\ job'.base = 0 /\ resolved' = resolved
      BY <1>5 DEF BeginRestart, Begin
    <2> QED
      BY <2>1 DEF JobWalk, Covers, Shape, TypeOK
  <1>6. CASE FetchPage
    <2>1. /\ job'.pc = "persist" /\ job'.offset = job.offset /\ job'.kind = job.kind
          /\ job'.hi = resolved - job.offset
          /\ job'.base = Larger(job.base, resolved - job.offset)
          /\ resolved' = resolved /\ Reached' = Reached
      BY <1>6 DEF FetchPage, Shape, TypeOK, Reached
    <2>2. job.pc = "fetch"
      BY <1>6 DEF FetchPage
    <2>3. CASE job.kind = "backfill"
      <3>1. \A k \in 1 .. resolved :
               k <= job'.base /\ k > resolved - job.offset => k \in Reached
        BY <2>1, <2>2, <2>3 DEF JobWalk, Covers, Shape, TypeOK
      <3> QED
        BY <2>1, <3>1 DEF JobWalk, Covers, Shape, TypeOK
    <2> QED
      BY <2>1, <2>3, <1>2
  <1>7. CASE FetchEmpty
    <2>1. CASE job'.kind = "backfill"
      <3>1. /\ job'.pc = "complete" /\ job'.base = job.base
            /\ resolved' = resolved /\ Reached' = Reached
        BY <1>7, <2>1 DEF FetchEmpty, Shape, TypeOK, Reached
      <3>2. /\ job.kind = "backfill" /\ job.pc = "fetch"
            /\ job.offset >= resolved /\ job.base <= resolved
        BY <1>7, <2>1 DEF FetchEmpty, Shape, PageInv
      <3> QED
        BY <3>1, <3>2 DEF JobWalk, Covers, Shape, TypeOK
    <2> QED
      BY <2>1, <1>2
  <1>8. CASE Insert
    <2>1. /\ job'.kind = job.kind /\ job'.pc = "mark" /\ job'.offset = job.offset
          /\ job'.base = job.base /\ job'.lo = job.lo /\ job'.hi = job.hi
          /\ resolved' = resolved /\ job.pc = "insert"
      BY <1>8 DEF Insert, Merge, Active, Shape, TypeOK
    <2>2. Reached \subseteq Reached'
      BY <1>0 DEF Grows, Reached
    <2> QED
      BY <2>1, <2>2 DEF JobWalk, Covers
  <1>13. CASE Supersede
    <2>1. /\ job'.kind = job.kind /\ job'.pc = "insert" /\ job'.offset = job.offset
          /\ job'.base = job.base /\ job'.lo = job.lo /\ job'.hi = job.hi
          /\ resolved' = resolved /\ job.pc = "persist" /\ Reached' = Reached
      BY <1>13 DEF Supersede, Shape, TypeOK, Reached
    <2> QED
      BY <2>1 DEF JobWalk, Covers
  <1>9. CASE Mark
    <2>1. CASE job'.kind = "backfill"
      <3>1. /\ job.kind = "backfill" /\ job'.pc = "save" /\ job.pc = "mark"
            /\ job'.offset = job.offset + (job.hi - job.lo + 1)
            /\ job'.base = job.base /\ job'.lo = job.lo
            /\ resolved' = resolved
        BY <1>9, <2>1 DEF Mark, Shape, TypeOK
      <3>2. Reached \subseteq Reached'
        BY <1>0 DEF Grows, Reached
      <3>3. job.lo .. job.hi \subseteq Reached'
        BY <1>9, <3>1 DEF Mark, Reached, Shape, PageInv
      <3>4. \A k \in 1 .. resolved : k <= job.base /\ k >= job.lo => k \in Reached'
        BY <3>1, <3>2, <3>3 DEF JobWalk, Shape, TypeOK
      <3>5. \A k \in 1 .. resolved :
               k > resolved - job'.offset => k >= job.lo
        BY <3>1 DEF JobWalk, Shape, TypeOK
      <3> QED
        BY <3>1, <3>4, <3>5 DEF JobWalk, Covers
    <2> QED
      BY <2>1, <1>2
  <1>10. CASE SaveOffset
    <2>1. /\ job'.kind = job.kind /\ job'.pc = "next" /\ job'.offset = job.offset
          /\ job'.base = job.base /\ job'.lo = job.lo
          /\ resolved' = resolved /\ Reached' = Reached /\ job.pc = "save"
      BY <1>10 DEF SaveOffset, Shape, TypeOK, Reached
    <2> QED
      BY <2>1 DEF JobWalk, Covers
  <1>11. CASE BackfillNext
    <2>1. CASE job'.kind = "backfill"
      <3>1. /\ job.kind = "backfill" /\ job.pc = "next" /\ job'.offset = job.offset
            /\ job'.base = job.base /\ resolved' = resolved /\ Reached' = Reached
            /\ job'.pc \in {"fetch", "complete"}
            /\ job'.pc = "complete" => PageIsShort
        BY <1>11, <2>1 DEF BackfillNext, Shape, TypeOK, Reached
      <3>2. job'.pc = "complete" => job.lo = 1 /\ job.base <= resolved
        BY <3>1 DEF PageIsShort, Shape, PageInv
      <3> QED
        BY <3>1, <3>2 DEF JobWalk, Covers, Shape, TypeOK
    <2> QED
      BY <2>1, <1>2
  <1>12. CASE \/ BeginDelta \/ Complete \/ DeltaEnds \/ DeltaGoesOn \/ DeltaCapped
              \/ BackfillFails \/ DeltaFails \/ BackfillKilled
    <2>1. CASE BeginDelta
      BY <2>1, <1>2 DEF BeginDelta, Begin
    <2>2. CASE DeltaGoesOn
      BY <2>2, <1>2 DEF DeltaGoesOn, Shape, TypeOK
    <2>3. CASE job' = NoJob
      BY <2>3, <1>2
    <2> QED
      BY <1>12, <2>1, <2>2, <2>3
      DEF Complete, DeltaEnds, DeltaCapped, BackfillFails, DeltaFails, BackfillKilled
  <1> QED
    BY <1>1, <1>3, <1>4, <1>5, <1>6, <1>7, <1>8, <1>9, <1>10, <1>11, <1>12, <1>13 DEF Next

-----------------------------------------------------------------------------

(* Marking more, or asking for less, keeps what is known to have no holes. *)
LEMMA AboveKept ==
    ASSUME Shape, Grows, stored' = stored, NEW m \in Nat, NEW n \in Nat, n >= m,
           Above(m)
    PROVE  \A k \in stored' : \A j \in 1 .. k : j > n => j \in Reached'
  BY DEF Shape, TypeOK, Grows, Above, Reached

(* Nothing is stored above the newest market. *)
LEMMA CutAbove ==
    ASSUME Shape, stored' = stored, resolved' = resolved, row' = row,
           cutTop' = resolved
    PROVE  RowAbove'
  <1>1. Floor' >= resolved /\ Floor' \in Nat
    BY DEF Floor, Shape, TypeOK
  <1>2. \A k \in stored' : k <= resolved
    BY DEF Shape, TypeOK
  <1> QED
    BY <1>1, <1>2 DEF RowAbove, Above, Shape, TypeOK

(* What is known of the row survives steps that leave it and the table alone. *)
LEMMA RowAboveKept ==
    ASSUME Shape, Grows, stored' = stored, row' = row, cutTop' = cutTop, RowAbove
    PROVE  RowAbove'
  <1>1. Floor' = Floor /\ Floor \in Nat
    BY DEF Floor, Shape, TypeOK
  <1>2. CASE Unwalked
    BY <1>2 DEF Unwalked, RowAbove
  <1>3. CASE Above(Floor)
    <2>1. \A k \in stored' : \A j \in 1 .. k : j > Floor => j \in Reached'
      BY <1>1, <1>3, AboveKept
    <2> QED
      BY <1>1, <2>1 DEF RowAbove, Above
  <1> QED
    BY <1>2, <1>3 DEF RowAbove

(* A row that takes over a walk's base. *)
LEMMA RowAboveSaved ==
    ASSUME Shape, Grows, stored' = stored, cutTop' = cutTop,
           row'.base = job.base, Above(Larger(job.base, cutTop))
    PROVE  RowAbove'
  <1>1. Floor' = Larger(job.base, cutTop) /\ Floor' \in Nat
    BY DEF Floor, Shape, TypeOK
  <1> DEFINE m == Larger(job.base, cutTop)
  <1>2. m \in Nat /\ Above(m)
    BY <1>1
  <1>3. Floor' = m
    BY <1>1
  <1> HIDE DEF m
  <1>4. \A k \in stored' : \A j \in 1 .. k : j > m => j \in Reached'
    BY <1>2, AboveKept
  <1> QED
    BY <1>3, <1>4 DEF RowAbove, Above

LEMMA InitHole == Init => HoleInv
  BY DEF Init, HoleInv, IdleHole, DeltaInv, WalkHole, RowAbove, Unwalked

(* A delta that ends by itself leaves no hole it did not find. *)
LEMMA EndOfDelta ==
    ASSUME Shape, Grows, stored' = stored, row' = row, cutTop' = cutTop,
           Since(job.lo), Below(job.lo), job.lo >= 1,
           \A j \in 1 .. job.lo : j > Floor => j \in Reached \/ j = job.lo
    PROVE  RowAbove'
  <1>1. Above(Floor)
    <2> SUFFICES ASSUME NEW k \in stored, NEW j \in 1 .. k, j > Floor
                 PROVE  j \in Reached
      BY DEF Above
    <2>1. k \in Nat /\ job.lo \in Nat
      BY DEF Shape, TypeOK
    <2>2. CASE k < job.lo
      BY <2>1, <2>2 DEF Below
    <2>3. CASE k >= job.lo /\ j >= job.lo
      BY <2>1, <2>3 DEF Since
    <2>4. CASE j < job.lo
      BY <2>1, <2>4
    <2> QED
      BY <2>1, <2>2, <2>3, <2>4
  <1> QED
    BY <1>1, RowAboveKept DEF RowAbove

LEMMA StepIdleHole == WalkInv /\ [Next]_vars => IdleHole'
  <1> SUFFICES ASSUME WalkInv, [Next]_vars, job'.kind = "none"
               PROVE  RowAbove'
    BY DEF IdleHole
  <1>0. Grows /\ Shape /\ HoleInv
    BY StepGrows DEF WalkInv, Shape
  <1>1. CASE UNCHANGED vars
    BY <1>0, <1>1, RowAboveKept DEF HoleInv, IdleHole
  <1>2. CASE Resolve
    BY <1>0, <1>2, RowAboveKept DEF HoleInv, IdleHole, Resolve
  <1>3. CASE FetchEmpty
    <2>1. /\ job.kind = "delta" /\ job.pc = "fetch" /\ job.offset >= resolved
          /\ stored' = stored /\ row' = row /\ cutTop' = cutTop
      BY <1>0, <1>3 DEF FetchEmpty, Shape, TypeOK
    <2>2. CASE Unwalked
      BY <2>1, <2>2 DEF Unwalked, RowAbove
    <2>3. CASE ~Unwalked /\ job.pages = 0
      BY <1>0, <2>1, <2>3, RowAboveKept DEF HoleInv, DeltaInv, DeltaHole, RowAbove
    <2>4. CASE ~Unwalked /\ job.pages > 0
      <3>1. Since(job.lo) /\ Below(job.lo) /\ job.lo = 1
        BY <1>0, <2>1, <2>4 DEF HoleInv, DeltaInv, DeltaHole, Shape, PageInv, TypeOK
      <3>2. \A j \in 1 .. job.lo : j > Floor => j \in Reached \/ j = job.lo
        BY <3>1
      <3> QED
        BY <1>0, <2>1, <3>1, <3>2, EndOfDelta
    <2> QED
      BY <1>0, <2>2, <2>3, <2>4 DEF Shape, TypeOK
  <1>4. CASE BackfillNext
    BY <1>0, <1>4, RowAboveKept DEF HoleInv, WalkHole, BackfillNext
  <1>5. CASE Complete
    <2>1. /\ job.kind = "backfill" /\ job.pc = "complete"
          /\ stored' = stored /\ cutTop' = cutTop /\ row'.base = job.base
      BY <1>0, <1>5 DEF Complete, Upsert, Shape, PageInv
    <2> QED
      BY <1>0, <2>1, RowAboveSaved DEF HoleInv, WalkHole
  <1>6. CASE DeltaEnds
    <2>1. /\ job.kind = "delta" /\ job.pc = "next"
          /\ stored' = stored /\ row' = row /\ cutTop' = cutTop
          /\ job.fresh = "no" \/ PageIsShort
      BY <1>6 DEF DeltaEnds
    <2>2. CASE Unwalked
      BY <2>1, <2>2 DEF Unwalked, RowAbove
    <2>3. CASE ~Unwalked
      <3>1. Since(job.lo) /\ Below(job.lo) /\ job.lo >= 1
        BY <1>0, <2>1, <2>3 DEF HoleInv, DeltaInv, DeltaHole, Shape, PageInv
      <3>2. PageIsShort => job.lo = 1
        BY <1>0, <2>1 DEF PageIsShort, Shape, PageInv
      <3>3. \A j \in 1 .. job.lo : j > Floor => j \in Reached \/ j = job.lo
        BY <1>0, <2>1, <2>3, <3>2 DEF HoleInv, DeltaInv, DeltaHole
      <3> QED
        BY <1>0, <2>1, <3>1, <3>3, EndOfDelta
    <2> QED
      BY <2>2, <2>3
  <1>7. CASE DeltaCapped
    BY <1>0, <1>7, CutAbove DEF DeltaCapped
  <1>8. CASE BackfillFails
    <2>1. /\ job.kind = "backfill"
          /\ stored' = stored /\ cutTop' = cutTop /\ row'.base = job.base
          /\ row'.offset = job.offset /\ row'.status = "failed"
      BY <1>8 DEF BackfillFails, Upsert
    <2>2. CASE job.pc = "fetch" /\ job.offset = 0
      BY <2>1, <2>2 DEF RowAbove, Unwalked
    <2>3. CASE Above(Larger(job.base, cutTop))
      BY <1>0, <2>1, <2>3, RowAboveSaved
    <2> QED
      BY <1>0, <2>1, <2>2, <2>3 DEF HoleInv, WalkHole
  <1>9. CASE DeltaFails
    <2>1. /\ job.kind = "delta" /\ stored' = stored /\ row' = row /\ resolved' = resolved
          /\ cutTop' = IF job.pages > 0 THEN resolved ELSE cutTop
      BY <1>9 DEF DeltaFails
    <2>2. CASE job.pages > 0
      BY <1>0, <2>1, <2>2, CutAbove
    <2>3. CASE ~(job.pages > 0)
      <3>1. job.pages = 0
        BY <1>0, <2>3 DEF Shape, TypeOK
      <3>2. RowAbove
        BY <1>0, <2>1, <3>1 DEF HoleInv, DeltaInv, DeltaHole, RowAbove
      <3> QED
        BY <1>0, <2>1, <2>3, <3>2, RowAboveKept
    <2> QED
      BY <2>2, <2>3
  <1>10. CASE BackfillKilled
    <2>1. /\ job.kind = "backfill" /\ stored' = stored /\ row' = row /\ resolved' = resolved
          /\ cutTop' = IF job.pc \in {"mark", "save"} THEN resolved ELSE cutTop
      BY <1>10 DEF BackfillKilled
    <2>2. CASE job.pc \in {"mark", "save"}
      BY <1>0, <2>1, <2>2, CutAbove
    <2>3. CASE job.pc \notin {"mark", "save"}
      <3>1. job.pc \in {"fetch", "persist", "insert", "next", "complete"}
        BY <1>0, <2>1, <2>3 DEF Shape, TypeOK, PageInv
      <3> QED
        BY <1>0, <2>1, <2>3, <3>1, RowAboveKept DEF HoleInv, WalkHole
    <2> QED
      BY <2>2, <2>3
  <1>11. CASE BeginBackfill \/ BeginRestart \/ BeginDelta
    BY <1>11 DEF BeginBackfill, BeginRestart, BeginDelta, Begin
  <1>12. CASE FetchPage \/ Supersede \/ Insert \/ SaveOffset \/ DeltaGoesOn
    BY <1>0, <1>12
    DEF FetchPage, Supersede, Insert, Merge, SaveOffset, DeltaGoesOn, Shape, TypeOK, PageInv
  <1>13. CASE Mark
    BY <1>0, <1>13 DEF Mark, Shape, TypeOK
  <1> QED
    BY <1>1, <1>2, <1>3, <1>4, <1>5, <1>6, <1>7, <1>8, <1>9, <1>10, <1>11, <1>12, <1>13
    DEF Next

-----------------------------------------------------------------------------

LEMMA StepWalkHole == WalkInv /\ [Next]_vars => WalkHole'
  <1> SUFFICES ASSUME WalkInv, [Next]_vars, job'.kind = "backfill"
               PROVE  WalkHole'
    BY DEF WalkHole
  <1>0. Grows /\ Shape /\ HoleInv
    BY StepGrows DEF WalkInv, Shape
  <1>a. ASSUME stored' = stored, cutTop' = cutTop, NEW m \in Nat,
               job'.base >= m, job'.base \in Nat, Above(Larger(m, cutTop))
        PROVE  Above(Larger(job.base, cutTop))'
    <2> DEFINE a == Larger(m, cutTop)
               b == Larger(job'.base, cutTop)
    <2>1. a \in Nat /\ b \in Nat /\ b >= a /\ Above(a)
      BY <1>a, <1>0 DEF Shape, TypeOK
    <2> HIDE DEF a, b
    <2>2. \A k \in stored' : \A j \in 1 .. k : j > b => j \in Reached'
      BY <1>0, <1>a, <2>1, AboveKept
    <2>3. b = Larger(job'.base, cutTop')
      BY <1>a DEF b
    <2> QED
      BY <2>2, <2>3 DEF Above
  <1>1. CASE UNCHANGED vars \/ Resolve
    <2>1. /\ job' = job /\ row' = row /\ stored' = stored /\ cutTop' = cutTop
      BY <1>1 DEF Resolve
    <2>2. job.base \in Nat
      BY <1>0 DEF Shape, TypeOK
    <2>3. RowAbove => RowAbove'
      BY <1>0, <2>1, RowAboveKept
    <2>4. Above(Larger(job.base, cutTop)) => Above(Larger(job.base, cutTop))'
      BY <2>1, <2>2, <1>a
    <2> QED
      BY <1>0, <2>1, <2>3, <2>4 DEF HoleInv, WalkHole
  <1>2. CASE BeginBackfill
    <2>1. /\ job'.pc = "fetch" /\ job'.base = row.base /\ job'.offset = row.offset
          /\ row' = row /\ stored' = stored /\ cutTop' = cutTop
          /\ job.kind = "none"
      BY <1>2 DEF BeginBackfill, Begin
    <2>2. RowAbove /\ RowAbove'
      BY <1>0, <2>1, RowAboveKept DEF HoleInv, IdleHole
    <2>3. row.base \in Nat
      BY <1>0 DEF Shape, TypeOK
    <2>4. Above(Floor) => Above(Larger(job.base, cutTop))'
      BY <2>1, <2>3, <1>a DEF Floor
    <2> QED
      BY <2>1, <2>2, <2>4 DEF WalkHole, RowAbove, Unwalked
  <1>3. CASE BeginRestart
    <2>1. /\ job'.pc = "fetch" /\ job'.offset = 0
          /\ row'.offset = 0 /\ row'.status = "none"
      BY <1>3 DEF BeginRestart, Begin
    <2> QED
      BY <2>1 DEF WalkHole, RowAbove, Unwalked
  <1>4. CASE FetchPage
    <2>1. /\ job.pc = "fetch" /\ job.kind = "backfill"
          /\ job'.pc = "persist"
          /\ job'.hi = resolved - job.offset
          /\ job'.base = Larger(job.base, resolved - job.offset)
          /\ row' = row /\ stored' = stored /\ cutTop' = cutTop
      BY <1>0, <1>4 DEF FetchPage, Shape, TypeOK
    <2>2. RowAbove'
      BY <1>0, <2>1, RowAboveKept DEF HoleInv, WalkHole
    <2>3. /\ job.base \in Nat /\ job'.base \in Nat /\ job'.base >= job.base
          /\ job'.hi <= job'.base
          /\ job.offset = 0 => job'.base >= resolved
      BY <1>0, <2>1 DEF Shape, TypeOK
    <2>4. CASE job.offset = 0
      <3>1. Larger(job'.base, cutTop') >= resolved
        BY <1>0, <2>1, <2>3, <2>4 DEF Shape, TypeOK
      <3>2. \A k \in stored' : \A j \in 1 .. k : j <= resolved /\ j \in Nat
        BY <1>0, <2>1 DEF Shape, TypeOK
      <3>3. Above(Larger(job.base, cutTop))'
        <4> DEFINE m == Larger(job'.base, cutTop')
        <4>1. m \in Nat /\ m >= resolved
          BY <1>0, <2>1, <2>3, <3>1 DEF Shape, TypeOK
        <4> HIDE DEF m
        <4>2. \A k \in stored' : \A j \in 1 .. k : ~(j > m)
          BY <1>0, <3>2, <4>1 DEF Shape, TypeOK
        <4> QED
          BY <4>2 DEF Above, m
      <3> QED
        BY <2>1, <2>2, <2>3, <3>3 DEF WalkHole
    <2>5. CASE job.offset # 0
      <3>1. Above(Larger(job.base, cutTop))'
        BY <1>0, <2>1, <2>3, <2>5, <1>a DEF HoleInv, WalkHole
      <3> QED
        BY <2>1, <2>2, <2>3, <3>1 DEF WalkHole
    <2> QED
      BY <2>4, <2>5
  <1>5. CASE FetchEmpty
    <2>1. /\ job.pc = "fetch" /\ job.kind = "backfill" /\ job.offset >= resolved
          /\ job'.pc = "complete" /\ job'.base = job.base
          /\ row' = row /\ stored' = stored /\ cutTop' = cutTop
      BY <1>0, <1>5 DEF FetchEmpty, Shape, TypeOK
    <2>2. RowAbove'
      BY <1>0, <2>1, RowAboveKept DEF HoleInv, WalkHole
    <2>3. job.base \in Nat
      BY <1>0 DEF Shape, TypeOK
    <2>4. Above(Larger(job.base, cutTop))
      <3>1. job.offset = 0 => stored = {}
        BY <1>0, <2>1 DEF Shape, TypeOK
      <3> QED
        BY <1>0, <2>1, <3>1 DEF HoleInv, WalkHole, Above
    <2>5. Above(Larger(job.base, cutTop))'
      BY <2>1, <2>3, <2>4, <1>a
    <2> QED
      BY <2>1, <2>2, <2>5 DEF WalkHole
  <1>6. CASE Insert
    <2>1. /\ job.pc = "insert" /\ job.kind = "backfill" /\ job'.pc = "mark"
          /\ job'.base = job.base /\ job'.hi = job.hi /\ job'.lo = job.lo
          /\ stored' = stored \cup job.lo .. job.hi /\ cutTop' = cutTop
          /\ marked' = marked
      BY <1>0, <1>6 DEF Insert, Merge, Active, Shape, TypeOK
    <2>2. Above(Larger(job.base, cutTop)) /\ job.hi <= job.base
      BY <1>0, <2>1 DEF HoleInv, WalkHole
    <2> DEFINE m == Larger(job.base, cutTop)
    <2>3. m \in Nat /\ m >= job.base /\ Above(m) /\ m = Larger(job'.base, cutTop')
      BY <1>0, <2>1, <2>2 DEF Shape, TypeOK
    <2>4. Reached \subseteq Reached'
      BY <1>0 DEF Grows, Reached
    <2>5. job.hi \in Int /\ job.base \in Int
      BY <1>0 DEF Shape, TypeOK
    <2> HIDE DEF m
    <2>6. \A k \in stored' : \A j \in 1 .. k : j > m => j \in Reached'
      <3> SUFFICES ASSUME NEW k \in stored', NEW j \in 1 .. k, j > m
                   PROVE  j \in Reached'
        OBVIOUS
      <3>1. CASE k \in stored
        BY <2>3, <2>4, <3>1 DEF Above
      <3>2. CASE k \in job.lo .. job.hi
        BY <2>2, <2>3, <2>5, <3>2
      <3> QED
        BY <2>1, <3>1, <3>2
    <2>7. Above(Larger(job.base, cutTop))'
      BY <2>3, <2>6 DEF Above
    <2> QED
      BY <2>1, <2>2, <2>7 DEF WalkHole
  <1>12. CASE Supersede
    <2>1. /\ job.pc = "persist" /\ job.kind = "backfill" /\ job'.pc = "insert"
          /\ job'.base = job.base /\ job'.hi = job.hi /\ job'.offset = job.offset
          /\ row' = row /\ stored' = stored /\ cutTop' = cutTop
      BY <1>0, <1>12 DEF Supersede, Shape, TypeOK
    <2>2. /\ job.base \in Nat /\ Above(Larger(job.base, cutTop)) /\ RowAbove
          /\ job.hi <= job.base
      BY <1>0, <2>1 DEF Shape, TypeOK, HoleInv, WalkHole
    <2>3. RowAbove'
      BY <1>0, <2>1, <2>2, RowAboveKept
    <2>4. Above(Larger(job.base, cutTop))'
      BY <2>1, <2>2, <1>a
    <2> QED
      BY <2>1, <2>2, <2>3, <2>4 DEF WalkHole
  <1>7. CASE Mark
    <2>1. /\ job.pc = "mark" /\ job.kind = "backfill" /\ job'.pc = "save"
          /\ job'.base = job.base
          /\ stored' = stored /\ cutTop' = cutTop
      BY <1>0, <1>7 DEF Mark, Shape, TypeOK
    <2>2. job.base \in Nat
      BY <1>0 DEF Shape, TypeOK
    <2>3. Above(Larger(job.base, cutTop))'
      BY <1>0, <2>1, <2>2, <1>a DEF HoleInv, WalkHole
    <2> QED
      BY <2>1, <2>3 DEF WalkHole
  <1>8. CASE SaveOffset
    <2>1. /\ job.pc = "save" /\ job.kind = "backfill" /\ job'.pc = "next"
          /\ job'.base = job.base /\ row'.base = job.base
          /\ stored' = stored /\ cutTop' = cutTop
      BY <1>0, <1>8 DEF SaveOffset, Upsert, Shape, TypeOK
    <2>2. job.base \in Nat /\ Above(Larger(job.base, cutTop))
      BY <1>0, <2>1 DEF Shape, TypeOK, HoleInv, WalkHole
    <2>3. RowAbove'
      BY <1>0, <2>1, <2>2, RowAboveSaved
    <2>4. Above(Larger(job.base, cutTop))'
      BY <2>1, <2>2, <1>a
    <2> QED
      BY <2>1, <2>3, <2>4 DEF WalkHole
  <1>9. CASE BackfillNext
    <2>1. /\ job.pc = "next" /\ job.kind = "backfill" /\ job'.pc \in {"fetch", "complete"}
          /\ job'.base = job.base
          /\ row' = row /\ stored' = stored /\ cutTop' = cutTop
      BY <1>0, <1>9 DEF BackfillNext, Shape, TypeOK
    <2>2. job.base \in Nat /\ Above(Larger(job.base, cutTop)) /\ RowAbove
      BY <1>0, <2>1 DEF Shape, TypeOK, HoleInv, WalkHole
    <2>3. RowAbove'
      BY <1>0, <2>1, <2>2, RowAboveKept
    <2>4. Above(Larger(job.base, cutTop))'
      BY <2>1, <2>2, <1>a
    <2> QED
      BY <2>1, <2>3, <2>4 DEF WalkHole
  <1>10. CASE BeginDelta \/ DeltaGoesOn
    <2>1. job'.kind = "delta"
      BY <1>0, <1>10 DEF BeginDelta, Begin, DeltaGoesOn, Shape, TypeOK
    <2> QED
      BY <2>1
  <1>11. CASE job' = NoJob
    BY <1>11
  <1> QED
    BY <1>1, <1>2, <1>3, <1>4, <1>5, <1>6, <1>7, <1>8, <1>9, <1>10, <1>11, <1>12
    DEF Next, Complete, DeltaEnds, DeltaCapped, BackfillFails, DeltaFails, BackfillKilled

-----------------------------------------------------------------------------

LEMMA StepDelta == WalkInv /\ [Next]_vars => DeltaInv'
  <1> SUFFICES ASSUME WalkInv, [Next]_vars, job'.kind = "delta", ~Unwalked'
               PROVE  DeltaHole'
    BY DEF DeltaInv
  <1>0. Grows /\ Shape /\ HoleInv
    BY StepGrows DEF WalkInv, Shape
  <1>1. CASE UNCHANGED vars \/ Resolve
    <2>1. /\ job' = job /\ row' = row /\ stored' = stored /\ cutTop' = cutTop
          /\ marked' = marked
      BY <1>1 DEF Resolve
    <2>2. \/ resolved' = resolved /\ burst' = burst
          \/ resolved' = resolved + 1 /\ burst' = burst + 1
      BY <1>1, <2>1 DEF Resolve
    <2>3. DeltaHole
      BY <1>0, <2>1 DEF HoleInv, DeltaInv, Unwalked
    <2>4. Floor' = Floor /\ Reached' = Reached
      BY <2>1 DEF Floor, Reached
    <2> QED
      BY <1>0, <2>1, <2>2, <2>3, <2>4 DEF DeltaHole, Above, Since, Below, Shape, TypeOK
  <1>2. CASE BeginDelta
    <2>1. /\ job'.pc = "fetch" /\ job'.pages = 0 /\ job.kind = "none"
          /\ row' = row /\ stored' = stored /\ cutTop' = cutTop
      BY <1>2 DEF BeginDelta, Begin
    <2>2. RowAbove'
      BY <1>0, <2>1, RowAboveKept DEF HoleInv, IdleHole
    <2> QED
      BY <2>1, <2>2 DEF DeltaHole, RowAbove
  <1>3. CASE FetchPage
    <2>1. /\ job.pc = "fetch" /\ job.kind = "delta" /\ job'.pc = "persist"
          /\ job'.hi = resolved - job.offset
          /\ job'.lo = Larger(1, resolved - job.offset - PageSize + 1)
          /\ job'.offset = job.offset /\ job'.pages = job.pages
          /\ row' = row /\ stored' = stored /\ marked' = marked /\ cutTop' = cutTop
          /\ resolved' = resolved /\ burst' = 0 /\ job.offset < resolved
      BY <1>0, <1>3 DEF FetchPage, Shape, TypeOK
    <2>2. DeltaHole /\ Floor' = Floor /\ Reached' = Reached
      BY <1>0, <2>1 DEF HoleInv, DeltaInv, Unwalked, Floor, Reached
    <2>3. /\ resolved \in Nat /\ job.offset \in Nat /\ job.pages \in Nat
          /\ job.lo \in Int /\ Floor \in Nat /\ burst \in Nat /\ burst < PageSize
          /\ \A k \in stored : k \in 1 .. resolved
      BY <1>0 DEF Shape, TypeOK, Floor
    <2> DEFINE lo == job'.lo
               hi == job'.hi
    <2>4. lo \in Nat /\ hi \in Nat /\ 1 <= lo /\ lo <= hi
      BY <2>1, <2>3
    <2>5. CASE job.pages = 0
      <3>1. Above(Floor) /\ job.offset = 0
        BY <2>1, <2>2, <2>5, <1>0 DEF DeltaHole, PageInv, WalkInv
      <3>2. hi = resolved
        BY <2>1, <2>3, <3>1
      <3>3. Since(hi + 1) /\ Below(lo)
        BY <2>3, <2>4, <3>1, <3>2 DEF Since, Below, Above
      <3>4. lo \in stored => \A j \in 1 .. lo : j > Floor => j \in Reached
        BY <3>1 DEF Above
      <3> QED
        BY <2>1, <2>2, <2>3, <3>1, <3>2, <3>3, <3>4
        DEF DeltaHole, Above, Since, Below
    <2>6. CASE job.pages > 0
      <3>1. /\ Since(job.lo) /\ Below(job.lo)
            /\ job.lo - 1 <= resolved - job.offset
            /\ resolved - job.offset <= job.lo - 1 + burst
        BY <2>1, <2>2, <2>6 DEF DeltaHole
      <3>2. /\ hi + 1 >= job.lo /\ job.lo >= 1
            /\ lo < job.lo \/ (lo = 1 /\ job.lo = 1)
        BY <1>0, <2>1, <2>3, <2>6, <3>1 DEF Shape, PageInv
      <3>3. Since(hi + 1)
        BY <2>3, <2>4, <3>1, <3>2 DEF Since
      <3>4. Below(lo)
        BY <2>3, <2>4, <3>1, <3>2 DEF Below
      <3>5. lo \in stored => \A j \in 1 .. lo : j > Floor => j \in Reached
        BY <2>3, <2>4, <3>1, <3>2 DEF Below, Since
      <3> QED
        BY <2>1, <2>2, <2>3, <2>6, <3>3, <3>4, <3>5
        DEF DeltaHole, Above, Since, Below
    <2> QED
      BY <2>3, <2>5, <2>6
  <1>4. CASE Insert
    <2>1. /\ job.pc = "insert" /\ job.kind = "delta" /\ job'.pc = "mark"
          /\ job'.hi = job.hi /\ job'.lo = job.lo /\ job'.offset = job.offset
          /\ job'.pages = job.pages + 1
          /\ job'.fresh = "no" => job.lo .. job.hi \subseteq stored
          /\ row' = row /\ stored' = stored \cup job.lo .. job.hi
          /\ marked' = marked /\ cutTop' = cutTop
          /\ resolved' = resolved /\ burst' = burst
      BY <1>0, <1>4 DEF Insert, Merge, Active, Shape, TypeOK
    <2>2. DeltaHole /\ Floor' = Floor
      BY <1>0, <2>1 DEF HoleInv, DeltaInv, Unwalked, Floor
    <2>3. Reached \subseteq Reached'
      BY <1>0 DEF Grows, Reached
    <2>4. /\ job.lo \in Int /\ job.hi \in Int /\ job.lo <= job.hi /\ job.pages \in Nat
      BY <1>0, <2>1 DEF Shape, TypeOK, PageInv
    <2>5. Since(job.hi + 1)' /\ Below(job.lo)'
      <3>1. \A k \in stored' \ stored : job.lo <= k /\ k <= job.hi
        BY <2>1, <2>4
      <3>2. \A k \in stored' : k \in stored \/ (job.lo <= k /\ k <= job.hi /\ k \in Int)
        BY <2>1, <2>4
      <3>3. Since(job.hi + 1)'
        BY <2>1, <2>2, <2>3, <2>4, <3>2 DEF Since, DeltaHole
      <3>4. Below(job.lo)'
        BY <2>1, <2>2, <2>3, <2>4, <3>2 DEF Below, DeltaHole
      <3> QED
        BY <3>3, <3>4
    <2>6. job'.fresh = "no" => \A j \in 1 .. job.lo : j > Floor => j \in Reached'
      BY <2>1, <2>2, <2>3, <2>4 DEF DeltaHole
    <2> QED
      BY <2>1, <2>2, <2>4, <2>5, <2>6 DEF DeltaHole
  <1>12. CASE Supersede
    <2>1. /\ job.pc = "persist" /\ job.kind = "delta" /\ job'.pc = "insert"
          /\ job'.hi = job.hi /\ job'.lo = job.lo /\ job'.offset = job.offset
          /\ job'.pages = job.pages
          /\ row' = row /\ stored' = stored /\ marked' = marked /\ cutTop' = cutTop
          /\ resolved' = resolved /\ burst' = burst
      BY <1>0, <1>12 DEF Supersede, Shape, TypeOK
    <2>2. DeltaHole /\ Floor' = Floor /\ Reached' = Reached
      BY <1>0, <2>1 DEF HoleInv, DeltaInv, Unwalked, Floor, Reached
    <2> QED
      BY <2>1, <2>2 DEF DeltaHole, Above, Since, Below
  <1>5. CASE Mark
    <2>1. /\ job.pc = "mark" /\ job.kind = "delta" /\ job'.pc = "next"
          /\ job'.hi = job.hi /\ job'.lo = job.lo /\ job'.offset = job.offset
          /\ job'.pages = job.pages /\ job'.fresh = job.fresh
          /\ row' = row /\ stored' = stored
          /\ marked' = marked \cup job.lo .. job.hi /\ cutTop' = cutTop
          /\ resolved' = resolved /\ burst' = burst
      BY <1>0, <1>5 DEF Mark, Shape, TypeOK
    <2>2. DeltaHole /\ Floor' = Floor
      BY <1>0, <2>1 DEF HoleInv, DeltaInv, Unwalked, Floor
    <2>3. Reached \subseteq Reached' /\ job.lo .. job.hi \subseteq Reached'
      BY <1>0, <2>1 DEF Grows, Reached, Shape, PageInv
    <2>4. /\ job.lo \in Int /\ job.hi \in Int /\ job.pages > 0
          /\ \A k \in stored : k \in Int
      BY <1>0, <2>1 DEF Shape, TypeOK, PageInv
    <2>5. Since(job.lo)'
      BY <2>1, <2>2, <2>3, <2>4 DEF Since, DeltaHole
    <2>6. Below(job.lo)'
      BY <2>1, <2>2, <2>3, <2>4 DEF Below, DeltaHole
    <2>7. job.fresh = "no" => \A j \in 1 .. job.lo : j > Floor => j \in Reached' \/ j = job.lo
      BY <2>1, <2>2, <2>3, <2>4 DEF DeltaHole
    <2> QED
      BY <2>1, <2>2, <2>4, <2>5, <2>6, <2>7 DEF DeltaHole
  <1>6. CASE DeltaGoesOn
    <2>1. /\ job.pc = "next" /\ job.kind = "delta" /\ job'.pc = "fetch"
          /\ job'.hi = job.hi /\ job'.lo = job.lo
          /\ job'.offset = job.offset + (job.hi - job.lo + 1)
          /\ job'.pages = job.pages
          /\ row' = row /\ stored' = stored /\ marked' = marked /\ cutTop' = cutTop
          /\ resolved' = resolved /\ burst' = burst
      BY <1>0, <1>6 DEF DeltaGoesOn, Shape, TypeOK
    <2>2. DeltaHole /\ Floor' = Floor /\ Reached' = Reached
      BY <1>0, <2>1 DEF HoleInv, DeltaInv, Unwalked, Floor, Reached
    <2>3. /\ resolved \in Nat /\ job.offset \in Nat /\ job.pages > 0 /\ burst \in Nat
          /\ job.lo \in Int /\ job.hi \in Int
      BY <1>0, <2>1 DEF Shape, TypeOK, PageInv
    <2>4. Since(job.lo)' /\ Below(job.lo)'
      BY <2>1, <2>2 DEF DeltaHole, Since, Below
    <2>5. /\ job.lo - 1 <= resolved - job'.offset
          /\ resolved - job'.offset <= job.lo - 1 + burst
      BY <2>1, <2>2, <2>3 DEF DeltaHole
    <2> QED
      BY <2>1, <2>3, <2>4, <2>5 DEF DeltaHole
  <1>7. CASE BeginBackfill \/ BeginRestart
    BY <1>7 DEF BeginBackfill, BeginRestart, Begin
  <1>10. CASE SaveOffset
    BY <1>0, <1>10 DEF SaveOffset, Shape, TypeOK, PageInv
  <1>11. CASE BackfillNext
    BY <1>0, <1>11 DEF BackfillNext, Shape, TypeOK
  <1>8. CASE job' = NoJob
    BY <1>8
  <1>9. CASE FetchEmpty
    BY <1>0, <1>9 DEF FetchEmpty, Shape, TypeOK
  <1> QED
    BY <1>1, <1>2, <1>3, <1>4, <1>5, <1>6, <1>7, <1>8, <1>9, <1>10, <1>11, <1>12
    DEF Next, Complete, DeltaEnds, DeltaCapped, BackfillFails, DeltaFails, BackfillKilled

-----------------------------------------------------------------------------

\* The running backfill is at most the page it is about to save ahead of its row.
OffsetInv ==
    job.kind = "backfill" =>
        job.offset = row.offset + IF job.pc = "save" THEN job.hi - job.lo + 1 ELSE 0

LEMMA StepOffset ==
    Shape /\ OffsetInv /\ [Next]_vars =>
        /\ OffsetInv'
        /\ row'.offset \in row.offset .. row.offset + PageSize \/ row' = NoRow
  <1> DEFINE Ahead == row'.offset \in row.offset .. row.offset + PageSize \/ row' = NoRow
  <1> SUFFICES ASSUME Shape, OffsetInv, [Next]_vars
               PROVE  OffsetInv' /\ Ahead
    OBVIOUS
  <1>0. row.offset \in Nat
    BY DEF Shape, TypeOK
  <1>1. CASE row' = row
    <2>1. Ahead
      BY <1>0, <1>1
    <2>2. CASE job' = job \/ job'.kind # "backfill"
      BY <1>1, <2>1, <2>2 DEF OffsetInv
    <2>3. CASE BeginBackfill
      <3>1. job'.pc = "fetch" /\ job'.offset = row.offset
        BY <2>3 DEF BeginBackfill, Begin
      <3> QED
        BY <1>0, <1>1, <2>1, <3>1 DEF OffsetInv
    <2>4. CASE FetchPage \/ FetchEmpty \/ Supersede \/ Insert \/ BackfillNext
      <3>1. job'.kind = "backfill" =>
               /\ job.kind = "backfill" /\ job'.offset = job.offset
               /\ job.pc # "save" /\ job'.pc # "save"
        <4>1. CASE FetchPage
          BY <4>1 DEF FetchPage, Shape, TypeOK
        <4>2. CASE FetchEmpty
          BY <4>2 DEF FetchEmpty, Shape, TypeOK
        <4>3. CASE Insert
          BY <4>3 DEF Insert, Merge, Active, Shape, TypeOK
        <4>4. CASE BackfillNext
          BY <4>4 DEF BackfillNext, Shape, TypeOK
        <4>5. CASE Supersede
          BY <4>5 DEF Supersede, Shape, TypeOK
        <4> QED
          BY <2>4, <4>1, <4>2, <4>3, <4>4, <4>5
      <3> QED
        BY <1>1, <2>1, <3>1 DEF OffsetInv
    <2>5. CASE Mark
      <3>1. job'.kind = "backfill" =>
               /\ job.kind = "backfill" /\ job.pc = "mark" /\ job'.pc = "save"
               /\ job'.offset = job.offset + (job.hi - job.lo + 1)
               /\ job'.hi = job.hi /\ job'.lo = job.lo
        BY <2>5 DEF Mark, Shape, TypeOK
      <3> QED
        BY <1>0, <1>1, <2>1, <3>1 DEF OffsetInv, Shape, TypeOK
    <2>6. CASE BeginDelta \/ DeltaGoesOn
      <3>1. job'.kind = "delta"
        BY <2>6 DEF BeginDelta, Begin, DeltaGoesOn, Shape, TypeOK
      <3> QED
        BY <2>1, <3>1 DEF OffsetInv
    <2>7. CASE BeginRestart
      BY <2>7, <1>1, <2>1 DEF BeginRestart, Begin, OffsetInv
    <2>8. CASE SaveOffset \/ BackfillFails \/ Complete
      <3>1. row'.offset = job.offset
        BY <2>8 DEF SaveOffset, BackfillFails, Complete, Upsert
      <3>2. job'.kind = "backfill" => job'.offset = job.offset /\ job'.pc # "save"
        BY <2>8 DEF SaveOffset, BackfillFails, Complete, Shape, TypeOK
      <3> QED
        BY <1>0, <1>1, <2>1, <3>1, <3>2 DEF OffsetInv
    <2> QED
      BY <2>2, <2>3, <2>4, <2>5, <2>6, <2>7, <2>8
      DEF Next, Resolve, DeltaEnds, DeltaCapped, DeltaFails, BackfillKilled
  <1>2. CASE BeginRestart
    BY <1>2 DEF BeginRestart, Begin, OffsetInv
  <1>3. CASE SaveOffset
    <2>1. /\ job.kind = "backfill" /\ job.pc = "save" /\ row'.offset = job.offset
          /\ job'.offset = job.offset /\ job'.pc = "next"
          /\ job.lo <= job.hi /\ job.hi - job.lo + 1 <= PageSize
          /\ job.lo \in Int /\ job.hi \in Int
      BY <1>3 DEF SaveOffset, Upsert, Shape, TypeOK, PageInv
    <2> QED
      BY <1>0, <2>1 DEF OffsetInv
  <1>4. CASE BackfillFails \/ Complete
    <2>1. /\ job.kind = "backfill" /\ row'.offset = job.offset /\ job' = NoJob
          /\ job.pc = "save" => /\ job.lo <= job.hi /\ job.hi - job.lo + 1 <= PageSize
                                /\ job.lo \in Int /\ job.hi \in Int
      BY <1>4 DEF BackfillFails, Complete, Upsert, Shape, TypeOK, PageInv
    <2> QED
      BY <1>0, <2>1 DEF OffsetInv
  <1> QED
    BY <1>1, <1>2, <1>3, <1>4
    DEF Next, Resolve, BeginBackfill, BeginDelta, FetchPage, FetchEmpty, Supersede, Insert, Merge,
        Mark, BackfillNext, DeltaEnds, DeltaGoesOn, DeltaCapped, DeltaFails,
        BackfillKilled

-----------------------------------------------------------------------------

(***************************************************************************)
(* What the merges of the walk itself have torn and not yet replaced lies  *)
(* ahead of the saved offset and of the running walk.                      *)
(***************************************************************************)
AheadOf(n) == \A k \in torn \ lost : k <= n

TornInv ==
    /\ AheadOf(resolved - row.offset)
    /\ row.status = "completed" => torn \ lost = {}
    /\ job.kind = "backfill" =>
          /\ AheadOf(resolved - job.offset)
          /\ job.pc \in {"persist", "insert"} => AheadOf(job.hi)
          /\ job.pc \in {"mark", "save", "next"} => AheadOf(job.lo - 1)
          /\ job.pc = "complete" => torn \ lost = {}

LEMMA InitTorn == Init => TornInv
  BY DEF Init, TornInv, AheadOf

LEMMA StepTorn == Shape /\ JobWalk /\ OffsetInv /\ TornInv /\ [Next]_vars => TornInv'
  <1> SUFFICES ASSUME Shape, JobWalk, OffsetInv, TornInv, [Next]_vars
               PROVE  TornInv'
    OBVIOUS
  <1> DEFINE own == torn \ lost
  <1>0. /\ resolved \in Nat /\ row.offset \in Nat /\ job.offset \in Nat
        /\ job.lo \in Int /\ job.hi \in Int
        /\ own \subseteq 1 .. resolved
    BY DEF Shape, TypeOK
  <1>1. CASE Resolve \/ UNCHANGED vars
    <2>1. /\ resolved' >= resolved /\ resolved' \in Nat
          /\ own' = own /\ row' = row /\ job' = job
      BY <1>0, <1>1 DEF Resolve
    <2> QED
      BY <1>0, <2>1 DEF TornInv, AheadOf
  <1>2. CASE BeginBackfill
    <2>1. /\ job'.pc = "fetch" /\ job'.offset = row.offset
          /\ row' = row /\ own' = own /\ resolved' = resolved
      BY <1>2 DEF BeginBackfill, Begin
    <2> QED
      BY <2>1 DEF TornInv, AheadOf
  <1>3. CASE BeginRestart
    <2>1. /\ job'.pc = "fetch" /\ job'.offset = 0
          /\ row'.offset = 0 /\ row'.status = "none" /\ own' = own /\ resolved' = resolved
      BY <1>3 DEF BeginRestart, Begin
    <2> QED
      BY <1>0, <2>1 DEF TornInv, AheadOf
  <1>4. CASE BeginDelta
    <2>1. job'.kind = "delta" /\ row' = row /\ own' = own /\ resolved' = resolved
      BY <1>4 DEF BeginDelta, Begin
    <2> QED
      BY <2>1 DEF TornInv, AheadOf
  <1>5. CASE FetchPage
    <2>1. /\ job'.pc = "persist" /\ job'.offset = job.offset /\ job'.kind = job.kind
          /\ job'.hi = resolved - job.offset
          /\ row' = row /\ own' = own /\ resolved' = resolved
      BY <1>5 DEF FetchPage, Shape, TypeOK
    <2> QED
      BY <2>1 DEF TornInv, AheadOf
  <1>6. CASE FetchEmpty
    <2>1. /\ row' = row /\ own' = own /\ resolved' = resolved
          /\ job'.kind = "backfill" =>
                /\ job'.pc = "complete" /\ job'.offset = job.offset
                /\ job.kind = "backfill" /\ job.offset >= resolved
      BY <1>6 DEF FetchEmpty, Shape, TypeOK
    <2>2. job'.kind = "backfill" => own = {}
      BY <1>0, <2>1 DEF TornInv, AheadOf
    <2> QED
      BY <2>1, <2>2 DEF TornInv, AheadOf
  <1>7. CASE Supersede
    <2>1. PICK R \in SUBSET (Page \cap Active) :
             /\ torn' = torn \cup R
             /\ lost' = IF job.kind = "delta" \/ row.status = "completed"
                        THEN lost \cup R ELSE lost
      BY <1>7 DEF Supersede
    <2>2. /\ job'.pc = "insert" /\ job'.offset = job.offset /\ job'.kind = job.kind
          /\ job'.hi = job.hi /\ row' = row /\ resolved' = resolved
          /\ job.pc = "persist" /\ job.kind \in {"backfill", "delta"}
      BY <1>7 DEF Supersede, Shape, TypeOK, PageInv
    <2>3. CASE job.kind = "delta" \/ row.status = "completed"
      <3>1. own' \subseteq own
        BY <2>1, <2>3
      <3> QED
        BY <2>2, <3>1 DEF TornInv, AheadOf
    <2>4. CASE job.kind = "backfill" /\ row.status # "completed"
      <3>1. own' \subseteq own \cup R
        BY <2>1, <2>4
      <3>2. job.hi <= resolved - job.offset /\ job.offset = row.offset
        BY <1>0, <2>2, <2>4 DEF JobWalk, OffsetInv
      <3>3. \A k \in R : k <= job.hi /\ k \in Int
        BY <1>0, <2>1
      <3>4. \A k \in own : k <= job.hi /\ k \in Int
        BY <1>0, <2>2, <2>4 DEF TornInv, AheadOf
      <3>5. \A k \in own' : k <= job.hi /\ k \in Int
        BY <3>1, <3>3, <3>4
      <3>6. \A k \in own' : k <= resolved - job.offset
        BY <1>0, <3>2, <3>5
      <3> QED
        BY <2>2, <2>4, <3>2, <3>5, <3>6 DEF TornInv, AheadOf
    <2> QED
      BY <2>2, <2>3, <2>4
  <1>8. CASE Insert
    <2>1. /\ job'.pc = "mark" /\ job'.offset = job.offset /\ job'.kind = job.kind
          /\ job'.lo = job.lo /\ job.pc = "insert" /\ row' = row /\ resolved' = resolved
          /\ own' = own \ (job.lo .. job.hi)
      BY <1>8 DEF Insert, Merge, Shape, TypeOK
    <2>2. job.kind = "backfill" => \A k \in own' : k <= job.lo - 1
      BY <1>0, <2>1 DEF TornInv, AheadOf
    <2> QED
      BY <2>1, <2>2 DEF TornInv, AheadOf
  <1>9. CASE Mark
    <2>1. /\ row' = row /\ own' = own /\ resolved' = resolved
          /\ job'.kind = "backfill" =>
                /\ job.kind = "backfill" /\ job.pc = "mark" /\ job'.pc = "save"
                /\ job'.offset = job.offset + (job.hi - job.lo + 1) /\ job'.lo = job.lo
      BY <1>9 DEF Mark, Shape, TypeOK
    <2>2. job'.kind = "backfill" => job.lo - 1 <= resolved - job'.offset
      BY <1>0, <2>1 DEF JobWalk
    <2> QED
      BY <1>0, <2>1, <2>2 DEF TornInv, AheadOf
  <1>10. CASE SaveOffset
    <2>1. /\ own' = own /\ resolved' = resolved /\ job.kind = "backfill"
          /\ job.pc = "save" /\ job'.pc = "next" /\ job'.offset = job.offset
          /\ job'.lo = job.lo
          /\ row'.offset = job.offset /\ row'.status = "in_progress"
      BY <1>10 DEF SaveOffset, Upsert, Shape, TypeOK, PageInv
    <2> QED
      BY <2>1 DEF TornInv, AheadOf
  <1>11. CASE BackfillNext
    <2>1. /\ row' = row /\ own' = own /\ resolved' = resolved
          /\ job'.kind = "backfill" =>
                /\ job.kind = "backfill" /\ job.pc = "next"
                /\ job'.pc \in {"fetch", "complete"} /\ job'.offset = job.offset
                /\ job'.pc = "complete" => job.lo = 1
      BY <1>11 DEF BackfillNext, PageIsShort, Shape, TypeOK, PageInv
    <2>2. job'.kind = "backfill" /\ job'.pc = "complete" => own = {}
      BY <1>0, <2>1 DEF TornInv, AheadOf
    <2> QED
      BY <2>1, <2>2 DEF TornInv, AheadOf
  <1>12. CASE Complete
    <2>1. own' = own /\ own = {} /\ job' = NoJob
      BY <1>12 DEF Complete, Shape, PageInv, TornInv
    <2> QED
      BY <2>1 DEF TornInv, AheadOf
  <1>13. CASE BackfillFails
    <2>1. /\ own' = own /\ resolved' = resolved /\ job.kind = "backfill"
          /\ row'.offset = job.offset /\ row'.status = "failed"
          /\ job'.kind = "none"
      BY <1>13 DEF BackfillFails, Upsert
    <2>2. \A k \in own' : k <= resolved' - row'.offset
      BY <2>1 DEF TornInv, AheadOf
    <2> QED
      BY <2>1, <2>2 DEF TornInv, AheadOf
  <1>14. CASE DeltaEnds \/ DeltaCapped \/ DeltaGoesOn \/ DeltaFails \/ BackfillKilled
    <2>1. own' = own /\ resolved' = resolved /\ row' = row
      BY <1>14 DEF DeltaEnds, DeltaCapped, DeltaGoesOn, DeltaFails, BackfillKilled
    <2>2. CASE DeltaGoesOn
      BY <2>1, <2>2 DEF DeltaGoesOn, Shape, TypeOK, TornInv, AheadOf
    <2>3. CASE job' = NoJob
      BY <2>1, <2>3 DEF TornInv, AheadOf
    <2> QED
      BY <1>14, <2>2, <2>3 DEF DeltaEnds, DeltaCapped, DeltaFails, BackfillKilled
  <1> QED
    BY <1>1, <1>2, <1>3, <1>4, <1>5, <1>6, <1>7, <1>8, <1>9, <1>10, <1>11, <1>12, <1>13,
       <1>14
    DEF Next

-----------------------------------------------------------------------------

IInv == WalkInv /\ OffsetInv /\ TornInv

LEMMA Inductive == Spec => []IInv
  <1>1. Init => IInv
    <2>1. Init => OffsetInv
      BY DEF Init, OffsetInv
    <2> QED
      BY <2>1, InitShape, InitWalk, InitHole, InitTorn DEF IInv, WalkInv, Shape
  <1>2. IInv /\ [Next]_vars => IInv'
    BY StepShape, StepRowWalk, StepJobWalk, StepIdleHole, StepDelta, StepWalkHole,
       StepOffset, StepTorn
    DEF IInv, WalkInv, Shape, HoleInv
  <1> QED
    BY <1>1, <1>2, PTL DEF Spec

(* What was stored and marked still is, or was lost, or lies ahead of the walk. *)
LEMMA ReachedIsDone ==
    ASSUME IInv, NEW k \in Reached, k \in torn \ lost => FALSE
    PROVE  k \in Done
  BY DEF Reached, Done, Active

(***************************************************************************)
(* Every variable of the backfill and the delta keeps its type.            *)
(***************************************************************************)
THEOREM TypeCorrect == Spec => []TypeOK
  <1>1. IInv => TypeOK
    BY DEF IInv, WalkInv
  <1> QED
    BY <1>1, Inductive, PTL

LEMMA SoundState == IInv => OffsetCovers /\ CompletedIsWhole
  <1>1. IInv => OffsetCovers
    <2> SUFFICES ASSUME IInv, NEW k \in 1 .. resolved,
                        k <= row.base, k > resolved - row.offset
                 PROVE  k \in Done
      BY DEF OffsetCovers
    <2>1. k \in Reached
      BY DEF IInv, WalkInv, RowWalk, Covers
    <2>2. k \notin torn \ lost
      BY DEF IInv, WalkInv, TypeOK, TornInv, AheadOf
    <2> QED
      BY <2>1, <2>2, ReachedIsDone
  <1>2. IInv => CompletedIsWhole
    <2> SUFFICES ASSUME IInv, row.status = "completed", NEW k \in 1 .. row.base
                 PROVE  k \in Done
      BY DEF CompletedIsWhole
    <2>1. k \in Reached
      BY DEF IInv, WalkInv, RowWalk
    <2>2. torn \ lost = {}
      BY DEF IInv, TornInv
    <2> QED
      BY <2>1, <2>2, ReachedIsDone
  <1> QED
    BY <1>1, <1>2

(***************************************************************************)
(* A resumption at the saved offset never skips a market, and a completed  *)
(* backfill has stored and marked all it asked for (backfill_resolutions). *)
(***************************************************************************)
THEOREM BackfillIsSound == Spec => [](OffsetCovers /\ CompletedIsWhole)
  BY Inductive, SoundState, PTL

(***************************************************************************)
(* Stopping a delta at its first unchanged page leaves no hole, unless a   *)
(* job was cut short (sync_recent_resolutions).                            *)
(***************************************************************************)
THEOREM DeltaIsSound == Spec => []HoleMeansCut
  <1>1. IInv => HoleMeansCut
    <2> SUFFICES ASSUME IInv, job.kind = "none", row.status = "completed",
                        cutTop <= row.base, NEW k \in stored, NEW j \in 1 .. k
                 PROVE  j \in Done
      BY DEF HoleMeansCut
    <2>1. Above(Floor)
      BY DEF IInv, WalkInv, HoleInv, IdleHole, RowAbove, Unwalked
    <2>2. Floor = row.base /\ row.base \in Nat /\ 1 .. row.base \subseteq Reached
      BY DEF IInv, WalkInv, TypeOK, RowWalk, Floor
    <2>3. k \in Nat
      BY DEF IInv, WalkInv, TypeOK
    <2>4. j \in Reached
      BY <2>1, <2>2, <2>3 DEF Above
    <2>5. torn \ lost = {}
      BY DEF IInv, TornInv
    <2> QED
      BY <2>4, <2>5, ReachedIsDone
  <1> QED
    BY <1>1, Inductive, PTL

(***************************************************************************)
(* Only a restart moves the saved offset back, and a step advances it by   *)
(* no more than a page.                                                    *)
(***************************************************************************)
THEOREM OffsetOnlyAdvances == Spec => OffsetAdvances
  <1> DEFINE Ahead == row'.offset \in row.offset .. row.offset + PageSize \/ row' = NoRow
  <1>1. Init => OffsetInv
    BY DEF Init, OffsetInv
  <1>2. Shape /\ OffsetInv /\ [Next]_vars => OffsetInv' /\ Ahead
    BY StepOffset
  <1>3. Shape /\ [Next]_vars => Shape'
    BY StepShape
  <1>4. Init => Shape
    BY InitShape
  <1>5. Ahead => [row'.offset \in row.offset .. row.offset + PageSize \/ row' = NoRow]_vars
    OBVIOUS
  <1> HIDE DEF Ahead
  <1> QED
    BY <1>1, <1>2, <1>3, <1>4, <1>5, PTL DEF Spec, OffsetAdvances

(***************************************************************************)
(* The backfill of the resolutions implements the checkpointed copy, as    *)
(* the backfill of data_ingest does: an offset in a listing that moves is  *)
(* as good a checkpoint as a token, whatever fails.                        *)
(***************************************************************************)
THEOREM WalkImplementsCopy == Spec => ImplementsWalk
  <1>1. Init => Walk!Init
    <2> SUFFICES ASSUME Init PROVE Walk!Init
      OBVIOUS
    <2>1. row.base = 0 /\ row.status = "none" /\ marked = {}
      BY DEF Init
    <2> QED
      BY <2>1 DEF Walk!Init
  <1>3. IInv' => OffsetCovers' /\ CompletedIsWhole'
    BY SoundState, PTL
  <1>2. IInv /\ IInv' /\ [Next]_vars => [Walk!Next]_Walk!vars
    <2> SUFFICES ASSUME IInv, IInv', [Next]_vars
                 PROVE  Walk!CopySome \/ Walk!Tear \/ Walk!Checkpoint
      BY DEF Walk!Next
    <2> DEFINE copied == marked \cap Active
               gone == marked \cap lost
               covered == {k \in 1 .. row.base : k > resolved - row.offset}
    <2>1. Shape /\ Shape' /\ resolved' \in 0 .. MaxResolved /\ row'.base \in 0 .. resolved'
      BY DEF IInv, WalkInv, Shape, TypeOK, PageInv
    <2>2. copied' \subseteq 1 .. MaxResolved
      BY <2>1 DEF Active, Shape, TypeOK
    <2>3. CASE Insert
      <3>1. /\ stored' = stored \cup Page /\ torn' = torn \ Page /\ lost' = lost \ Page
            /\ marked' = marked /\ row' = row /\ resolved' = resolved
        BY <2>3 DEF Insert, Merge
      <3>2. copied \subseteq copied' /\ gone' \subseteq gone /\ gone \ gone' \subseteq copied'
        BY <3>1 DEF Active
      <3> QED
        BY <2>2, <3>1, <3>2 DEF Walk!CopySome
    <2>4. CASE Mark
      <3>1. /\ UNCHANGED <<stored, torn, lost>>
            /\ marked' = marked \cup Page /\ row' = row /\ resolved' = resolved
            /\ job.pc = "mark"
        BY <2>4 DEF Mark
      <3>2. torn \cap Page = {} /\ lost \subseteq torn
        BY <2>1, <3>1 DEF Shape, TypeOK, PageInv
      <3>3. copied \subseteq copied' /\ gone' = gone
        BY <3>1, <3>2 DEF Active
      <3> QED
        BY <2>2, <3>1, <3>3 DEF Walk!CopySome
    <2>5. CASE Supersede
      <3>1. PICK R \in SUBSET (Page \cap Active) :
               /\ torn' = torn \cup R
               /\ lost' = IF job.kind = "delta" \/ row.status = "completed"
                          THEN lost \cup R ELSE lost
        BY <2>5 DEF Supersede
      <3>2. /\ UNCHANGED <<stored, marked, row, resolved>>
            /\ job.pc = "persist" /\ job.kind \in {"backfill", "delta"}
        BY <2>1, <2>5 DEF Supersede, Shape, TypeOK, PageInv
      <3>3. copied' = copied \ R /\ copied \ copied' = marked \cap R
        BY <3>1, <3>2 DEF Active
      <3>4. gone \subseteq gone' /\ gone' \subseteq gone \cup (marked \cap R)
        BY <3>1, <3>2
      <3>5. CASE job.kind = "delta" \/ row.status = "completed"
        <4>1. lost' = lost \cup R
          BY <3>1, <3>5
        <4>2. marked \cap R \subseteq gone'
          BY <3>2, <4>1
        <4>3. UNCHANGED <<1 .. row.base, covered, row.status = "completed">>
          BY <3>2
        <4> HIDE DEF copied, gone, covered
        <4>4. /\ copied' \subseteq copied /\ copied \ copied' \subseteq gone'
              /\ gone' \subseteq gone \cup (copied \ copied')
          BY <3>3, <3>4, <4>2
        <4>5. Walk!Tear
          BY <3>4, <4>3, <4>4 DEF Walk!Tear, copied, gone, covered
        <4> QED
          BY <4>5
      <3>6. CASE job.kind = "backfill" /\ row.status # "completed"
        <4>1. job.hi + job.offset <= resolved /\ job.offset = row.offset
          BY <3>2, <3>6 DEF IInv, WalkInv, JobWalk, OffsetInv, TypeOK
        <4>2. \A k \in R : k <= job.hi /\ k \in Int
          BY <2>1, <3>1 DEF Shape, TypeOK
        <4>3. R \cap covered = {}
          BY <2>1, <4>1, <4>2 DEF Shape, TypeOK
        <4> QED
          BY <3>2, <3>3, <3>4, <3>6, <4>3 DEF Walk!Tear
      <3> QED
        BY <3>2, <3>5, <3>6
    <2>6. CASE UNCHANGED <<stored, torn, lost, marked>>
      <3>1. copied' = copied /\ gone' = gone /\ Done = copied \cup gone /\ Done' = Done
        BY <2>6 DEF Active, Done
      <3>2. OffsetCovers' /\ CompletedIsWhole'
        BY <1>3
      <3>3. covered' \subseteq Done
        BY <2>1, <3>1, <3>2 DEF OffsetCovers
      <3>4. row'.status = "completed" => 1 .. row'.base \subseteq Done
        BY <3>1, <3>2 DEF CompletedIsWhole
      <3>5. 1 .. row'.base \subseteq 1 .. MaxResolved
        BY <2>1
      <3> QED
        BY <3>1, <3>3, <3>4, <3>5 DEF Walk!Checkpoint
    <2> QED
      BY <2>3, <2>4, <2>5, <2>6
      DEF Next, Resolve, BeginBackfill, BeginRestart, BeginDelta, Begin, FetchPage,
          FetchEmpty, SaveOffset, BackfillNext, Complete, DeltaEnds, DeltaGoesOn,
          DeltaCapped, BackfillFails, DeltaFails, BackfillKilled
  <1> QED
    BY <1>1, <1>2, Inductive, PTL DEF Spec, ImplementsWalk, Walk!Spec

=============================================================================
