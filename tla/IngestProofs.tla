---------------------------- MODULE IngestProofs ----------------------------
(***************************************************************************)
(* Proofs about ingestion: the cycle of the connectors (IngestCycle), for  *)
(* any sources, lags, cadence, worker and connection limits, faults and    *)
(* crashes; and the backfill of one connector (Backfill), for every        *)
(* window, batch size, page size and number of stops.                      *)
(*                                                                         *)
(* A backfill is safe with the connectors whose tokens never point past    *)
(* the record that carries them: FRED (grain "record"), NOAA (grain        *)
(* "offset") and, where no batch ends inside a page, those whose tokens    *)
(* name a page (grain "page").  For them a token in the row always names   *)
(* records that are in the table, and is at most a batch behind the walk.  *)
(***************************************************************************)
EXTENDS IngestCycle, Backfill, TLAPS

(* IngestCycle.                                                            *)

InCycle == Active \cup {"queued"}

\* Watermarks are in the past, and a source that is still to be recorded in this
\* cycle has the watermark its decision was made from.
Clock ==
    /\ started <= now
    /\ \A s \in Sources : lastOk[s] <= now
    /\ \A s \in Sources : st[s] \in InCycle => since[s] = lastOk[s] /\ lastOk[s] <= started

\* What a fetch from w would bring if it were made now.
Asked(s, w) == {i \in Items : i + Lag[s] <= now /\ Matches(s, i, w)}

\* What the stream of s has brought by now: all that was published when the
\* cycle started is in the table or waits in the buffer, unless a watermark
\* overtook it; and what a merge has superseded waits as well.
Covered(s) ==
    /\ st[s] \in {"flush", "merge"} =>
          /\ \A i \in Items : i + Lag[s] <= started => i \in Shown(s) \cup buffer[s] \cup overtaken[s]
          /\ gone[s] \subseteq buffer[s]
          /\ buffer[s] \subseteq Asked(s, since[s])
    /\ st[s] = "merge" => batch[s] \subseteq buffer[s]
    /\ st[s] = "ok" =>
          /\ \A i \in Items : i + Lag[s] <= started => i \in Shown(s) \cup overtaken[s]
          /\ gone[s] = {}

\* The next fetch asks for all that is gone, and what the watermark of s is ahead
\* of has been overtaken.
Repairable(s) ==
    /\ gone[s] \subseteq Asked(s, lastOk[s])
    /\ Behind(s, lastOk[s]) \subseteq overtaken[s]

\* The inductive invariant, in two parts.
TimeInv  == CycleTypeOK /\ Clock /\ FailureIsNews
CoverInv == WatermarkSound /\ \A s \in Sources : Covered(s) /\ Repairable(s)

-----------------------------------------------------------------------------
(* Types, clocks and failures.                                             *)

LEMMA InitTimeInv == CycleInit => TimeInv
  BY NumbersAssumption
  DEF CycleInit, TimeInv, CycleTypeOK, Clock, FailureIsNews, InCycle, Active, Waiting, Stages, Never

LEMMA BeginTimeInv == ASSUME TimeInv, NEW only \in Selections, BeginCycle(only) PROVE TimeInv'
  <1>1. /\ st' \in [Sources -> {"queued", "off"}]
        /\ pooled' \in {"pool", "serial"}
        /\ phase' = "running" /\ started' = now /\ since' = lastOk
        /\ buffer' = [s \in Sources |-> {}] /\ batch' = [s \in Sources |-> {}]
        /\ UNCHANGED <<now, table, gone, overtaken, lastOk, lastFail, faults>>
    BY DEF BeginCycle, db
  <1> QED
    BY <1>1 DEF TimeInv, CycleTypeOK, Clock, FailureIsNews, InCycle, Active, Waiting, Stages

(* The process stops. *)
LEMMA StopTimeInv == ASSUME TimeInv, Stop, UNCHANGED <<now, db>>, faults' \in Nat PROVE TimeInv'
  <1>1. /\ phase' = "idle" /\ started' = 0 /\ pooled' = "serial"
        /\ since' = [s \in Sources |-> Never] /\ st' = [s \in Sources |-> "off"]
        /\ buffer' = [s \in Sources |-> {}] /\ batch' = [s \in Sources |-> {}]
        /\ UNCHANGED <<now, table, gone, overtaken, lastOk, lastFail>>
    BY DEF Stop, db
  <1> QED
    BY <1>1 DEF TimeInv, CycleTypeOK, Clock, FailureIsNews, InCycle, Active, Waiting, Stages, Never

(* A worker moves on without recording anything. *)
LEMMA MoveTimeInv ==
    ASSUME TimeInv, NEW s \in Sources, NEW stage \in Stages, Goto(s, stage),
           st[s] \in InCycle,
           table' \in [Sources -> SUBSET Items], gone' \in [Sources -> SUBSET Items],
           buffer' \in [Sources -> SUBSET Items], batch' \in [Sources -> SUBSET Items],
           faults' \in Nat, UNCHANGED <<now, lastOk, lastFail, overtaken, cycle>>
    PROVE  TimeInv'
  <1>1. st' \in [Sources -> Stages] /\ \A u \in Sources \ {s} : st'[u] = st[u]
    BY DEF Goto, TimeInv, CycleTypeOK
  <1>2. UNCHANGED <<phase, started, pooled, since>>
    BY DEF cycle
  <1>3. CycleTypeOK'
    BY <1>1, <1>2 DEF TimeInv, CycleTypeOK
  <1>4. Clock'
    BY <1>1, <1>2 DEF TimeInv, Clock
  <1> QED
    BY <1>3, <1>4 DEF TimeInv, FailureIsNews

LEMMA WorkerTimeInv ==
    ASSUME TimeInv, NEW s \in Sources,
           \/ WorkerStep(s) \/ SetupFails(s) \/ StreamFails(s)
    PROVE  TimeInv'
  <1> USE DEF TimeInv, InCycle, Active, Waiting, Stages, db, stream
  <1>1. CASE Start(s) \/ TakeConnection(s) \/ TimesOut(s) \/ PassGate(s) \/ EndStream(s)
    <2>1. PICK stage \in Stages : Goto(s, stage)
      BY <1>1 DEF Start, TakeConnection, TimesOut, PassGate, EndStream
    <2>2. UNCHANGED <<now, db, cycle, stream, faults>> /\ st[s] \in InCycle
      BY <1>1 DEF Start, TakeConnection, TimesOut, PassGate, EndStream, At
    <2> QED
      BY <2>1, <2>2, MoveTimeInv DEF CycleTypeOK
  <1>2. CASE SetupFails(s) \/ RecordFails(s) \/ StreamFails(s)
    <2>1. UNCHANGED <<now, db>> /\ st[s] \in InCycle /\ faults' \in Nat
      BY <1>2 DEF SetupFails, RecordFails, StreamFails, Fault, At, CycleTypeOK
    <2>2. \/ Stop
          \/ UNCHANGED <<cycle, stream>> /\ \E stage \in Stages : Goto(s, stage)
      BY <1>2 DEF SetupFails, RecordFails, StreamFails, Raise
    <2>3. CASE Stop
      BY <2>1, <2>3, StopTimeInv
    <2>4. ASSUME UNCHANGED <<cycle, stream>>, NEW stage \in Stages, Goto(s, stage) PROVE TimeInv'
      BY <2>1, <2>4, MoveTimeInv DEF CycleTypeOK
    <2> QED
      BY <2>2, <2>3, <2>4
  <1>3. CASE Fetch(s)
    <2>1. buffer' \in [Sources -> SUBSET Items]
      BY <1>3 DEF Fetch, Answer, Published, CycleTypeOK
    <2> QED
      BY <1>3, <2>1, MoveTimeInv DEF Fetch, At, CycleTypeOK
  <1>4. CASE BeginFlush(s)
    <2>1. batch' \in [Sources -> SUBSET Items] /\ gone' \in [Sources -> SUBSET Items]
      BY <1>4 DEF BeginFlush, CycleTypeOK
    <2> QED
      BY <1>4, <2>1, MoveTimeInv DEF BeginFlush, At, CycleTypeOK
  <1>5. CASE Flush(s)
    <2>1. /\ table' \in [Sources -> SUBSET Items] /\ gone' \in [Sources -> SUBSET Items]
          /\ buffer' \in [Sources -> SUBSET Items] /\ batch' \in [Sources -> SUBSET Items]
      BY <1>5 DEF Flush, CycleTypeOK
    <2> QED
      BY <1>5, <2>1, MoveTimeInv DEF Flush, At, CycleTypeOK
  <1>6. CASE Record(s)
    <2>1. st[s] \in InCycle /\ UNCHANGED <<now, table, gone, cycle, stream, faults>>
      BY <1>6 DEF Record
    <2>2. st' = [st EXCEPT ![s] = "done"]
      BY <1>6 DEF Record, Goto
    <2>3. /\ lastOk' \in [Sources -> Int] /\ lastFail' \in [Sources -> Int]
          /\ \A u \in Sources \ {s} : lastOk'[u] = lastOk[u] /\ lastFail'[u] = lastFail[u]
          /\ lastOk'[s] \in {lastOk[s], started}
          /\ \/ lastFail'[s] = Never
             \/ lastFail'[s] = started /\ lastOk'[s] = lastOk[s]
             \/ lastFail'[s] = lastFail[s] /\ lastOk'[s] = lastOk[s]
      BY <1>6 DEF Record, CycleTypeOK, Never
    <2>4. overtaken' \in [Sources -> SUBSET Items]
      BY <1>6 DEF Record, CycleTypeOK, Behind
    <2>5. UNCHANGED <<phase, started, pooled, since>>
      BY <2>1 DEF cycle
    <2>6. CycleTypeOK'
      BY <2>1, <2>2, <2>3, <2>4, <2>5 DEF CycleTypeOK
    <2>7. Clock'
      BY <2>1, <2>2, <2>3, <2>5 DEF CycleTypeOK, Clock
    <2>8. FailureIsNews'
      BY <2>1, <2>3, <2>5 DEF CycleTypeOK, Clock, FailureIsNews
    <2> QED
      BY <2>6, <2>7, <2>8
  <1> QED
    BY <1>1, <1>2, <1>3, <1>4, <1>5, <1>6 DEF WorkerStep

LEMMA OtherTimeInv == ASSUME TimeInv, EndCycle \/ Tick \/ Crash PROVE TimeInv'
  <1>1. CASE EndCycle
    BY <1>1, StopTimeInv DEF EndCycle, TimeInv, CycleTypeOK
  <1>2. CASE Tick
    BY <1>2 DEF Tick, TimeInv, CycleTypeOK, Clock, FailureIsNews, InCycle, Active, Waiting,
                Stages, db, cycle, stream
  <1>3. CASE Crash
    BY <1>3, StopTimeInv DEF Crash, Fault, TimeInv, CycleTypeOK
  <1> QED
    BY <1>1, <1>2, <1>3

LEMMA StepTimeInv == ASSUME TimeInv, [CycleNext]_cycleVars PROVE TimeInv'
  <1>1. CASE UNCHANGED cycleVars
    BY <1>1 DEF cycleVars, db, cycle, stream, TimeInv, CycleTypeOK, Clock, FailureIsNews
  <1> QED
    BY <1>1, BeginTimeInv, WorkerTimeInv, OtherTimeInv DEF CycleNext, WorkerStep

LEMMA TimeInvAlways == CycleSpec => []TimeInv
  BY InitTimeInv, StepTimeInv, PTL DEF CycleSpec

-----------------------------------------------------------------------------
(* Coverage.                                                               *)

LEMMA InitCoverInv == CycleInit => CoverInv
  BY LagAssumption, NumbersAssumption
  DEF CycleInit, CoverInv, WatermarkSound, Covered, Repairable, Behind, Never, Items

(* What a stream asks for is all it still lacks: an item the answer leaves out
   was published by the source's watermark, and the table has it, or the
   watermark overtook it. *)
LEMMA AnswerCovers ==
    ASSUME TimeInv, CoverInv, NEW s \in Sources, st[s] \in InCycle,
           NEW i \in Items, i + Lag[s] <= started
    PROVE  i \in Shown(s) \cup Answer(s) \cup overtaken[s]
  <1>1. /\ i \in Int /\ Lag[s] \in Nat /\ now \in Nat /\ started \in Nat /\ since[s] \in Int
        /\ started <= now /\ since[s] = lastOk[s]
    BY LagAssumption, NumbersAssumption DEF TimeInv, CycleTypeOK, Clock, Items
  <1>2. i \in Published(s)
    BY <1>1 DEF Published
  <1>3. CASE i + Lag[s] <= since[s]
    <2>1. Kept(s, i) \/ i \in overtaken[s]
      BY <1>1, <1>3 DEF CoverInv, WatermarkSound
    <2> QED
      BY <1>1, <1>2, <2>1 DEF Kept, Answer
  <1>4. CASE i + Lag[s] > since[s]
    <2>1. Filter[s] \in {"all", "published", "occurred"}
      BY FilterAssumption
    <2>2. CASE Filter[s] = "occurred" /\ i < since[s]
      <3>1. i \in Behind(s, lastOk[s])
        BY <1>1, <1>4, <2>2 DEF Behind
      <3> QED
        BY <3>1 DEF CoverInv, Repairable
    <2>3. CASE ~(Filter[s] = "occurred" /\ i < since[s])
      <3>1. Matches(s, i, since[s])
        BY <1>1, <1>4, <2>1, <2>3 DEF Matches
      <3> QED
        BY <1>2, <3>1 DEF Answer
    <2> QED
      BY <2>2, <2>3
  <1> QED
    BY <1>1, <1>3, <1>4

(* A step that touches one source leaves the others as they were. *)
LEMMA OthersCovered ==
    ASSUME TimeInv, CoverInv, NEW s \in Sources,
           UNCHANGED <<now, started>>,
           \A u \in Sources \ {s} :
              /\ st'[u] = st[u] /\ table'[u] = table[u] /\ gone'[u] = gone[u]
              /\ overtaken'[u] = overtaken[u] /\ lastOk'[u] = lastOk[u]
              /\ since'[u] = since[u] /\ buffer'[u] = buffer[u] /\ batch'[u] = batch[u]
    PROVE  \A u \in Sources \ {s} :
              /\ Covered(u)' /\ Repairable(u)'
              /\ \A i \in Items : (i + Lag[u] <= lastOk[u] => Kept(u, i) \/ i \in overtaken[u])'
  BY DEF CoverInv, WatermarkSound, Covered, Repairable, Kept, Shown, Asked, Behind, Matches

(* A worker moves to a stage that promises nothing. *)
LEMMA MoveCoverInv ==
    ASSUME TimeInv, CoverInv, NEW s \in Sources, NEW stage \in Stages \ {"flush", "merge", "ok"},
           Goto(s, stage), UNCHANGED <<now, db, cycle, stream>>
    PROVE  CoverInv'
  <1>1. st'[s] = stage /\ \A u \in Sources \ {s} : st'[u] = st[u]
    BY DEF Goto, TimeInv, CycleTypeOK
  <1>2. UNCHANGED <<now, table, gone, overtaken, lastOk, started, since, buffer, batch>>
    BY DEF db, cycle, stream
  <1>3. \A u \in Sources : Covered(u)' /\ Repairable(u)'
    BY <1>1, <1>2 DEF CoverInv, Covered, Repairable, Shown, Asked, Behind, Matches
  <1>4. WatermarkSound'
    BY <1>2 DEF CoverInv, WatermarkSound, Kept, Shown, Matches
  <1> QED
    BY <1>3, <1>4 DEF CoverInv

LEMMA StopCoverInv == ASSUME TimeInv, CoverInv, Stop, UNCHANGED <<now, db>> PROVE CoverInv'
  <1>1. /\ \A u \in Sources : st'[u] = "off"
        /\ UNCHANGED <<now, table, gone, overtaken, lastOk>>
    BY DEF Stop, db
  <1>2. \A u \in Sources : Covered(u)' /\ Repairable(u)'
    BY <1>1 DEF CoverInv, Covered, Repairable, Asked, Behind, Matches
  <1>3. WatermarkSound'
    BY <1>1 DEF CoverInv, WatermarkSound, Kept, Shown, Matches
  <1> QED
    BY <1>2, <1>3 DEF CoverInv

LEMMA FetchCoverInv == ASSUME TimeInv, CoverInv, NEW s \in Sources, Fetch(s) PROVE CoverInv'
  <1>1. /\ st[s] = "fetch" /\ UNCHANGED <<now, table, gone, overtaken, lastOk, started, since, batch>>
        /\ st' = [st EXCEPT ![s] = "flush"]
        /\ buffer' = [buffer EXCEPT ![s] = Answer(s)]
    BY DEF Fetch, At, Goto, db, cycle
  <1>2. /\ st'[s] = "flush" /\ buffer'[s] = Answer(s)
        /\ \A u \in Sources \ {s} : st'[u] = st[u] /\ buffer'[u] = buffer[u]
    BY <1>1 DEF TimeInv, CycleTypeOK
  <1>3. st[s] \in InCycle /\ since[s] = lastOk[s]
    BY <1>1 DEF InCycle, Active, TimeInv, Clock
  <1>4. \A i \in Items : i + Lag[s] <= started => i \in Shown(s) \cup Answer(s) \cup overtaken[s]
    BY <1>3, AnswerCovers
  <1>5. Answer(s) = Asked(s, since[s]) /\ gone[s] \subseteq Asked(s, since[s])
    BY <1>3 DEF Answer, Published, Asked, CoverInv, Repairable
  <1>6. Covered(s)' /\ Repairable(s)'
    BY <1>1, <1>2, <1>4, <1>5 DEF CoverInv, Covered, Repairable, Shown, Asked, Behind, Matches
  <1>7. WatermarkSound'
    BY <1>1 DEF CoverInv, WatermarkSound, Kept, Shown, Matches
  <1> QED
    BY <1>1, <1>2, <1>6, <1>7, OthersCovered DEF CoverInv

LEMMA BeginFlushCoverInv ==
    ASSUME TimeInv, CoverInv, NEW s \in Sources, BeginFlush(s) PROVE CoverInv'
  <1>1. /\ st[s] = "flush" /\ UNCHANGED <<now, table, overtaken, lastOk, started, since, buffer>>
        /\ st' = [st EXCEPT ![s] = "merge"]
    BY DEF BeginFlush, At, Goto, cycle
  <1>2. PICK B \in SUBSET buffer[s], R \in SUBSET buffer[s] :
            /\ R \subseteq B
            /\ batch' = [batch EXCEPT ![s] = B]
            /\ gone' = [gone EXCEPT ![s] = @ \cup R]
    BY DEF BeginFlush
  <1>3. /\ st'[s] = "merge" /\ batch'[s] = B /\ gone'[s] = gone[s] \cup R
        /\ \A u \in Sources \ {s} : st'[u] = st[u] /\ batch'[u] = batch[u] /\ gone'[u] = gone[u]
    BY <1>1, <1>2 DEF TimeInv, CycleTypeOK
  <1>4. /\ buffer[s] \subseteq Asked(s, lastOk[s]) /\ gone[s] \subseteq buffer[s]
        /\ \A i \in Items : i + Lag[s] <= started => i \in Shown(s) \cup buffer[s] \cup overtaken[s]
    BY <1>1 DEF CoverInv, Covered, TimeInv, Clock, InCycle, Active
  <1>5. Covered(s)' /\ Repairable(s)'
    BY <1>1, <1>2, <1>3, <1>4 DEF CoverInv, Covered, Repairable, Shown, Asked, Behind, Matches
  <1>6. \A i \in Items : (i + Lag[s] <= lastOk[s] => Kept(s, i) \/ i \in overtaken[s])'
    BY <1>1, <1>2, <1>3, <1>4 DEF CoverInv, WatermarkSound, Kept, Shown, Asked, Matches
  <1> QED
    BY <1>1, <1>3, <1>5, <1>6, OthersCovered DEF CoverInv, WatermarkSound

LEMMA FlushCoverInv == ASSUME TimeInv, CoverInv, NEW s \in Sources, Flush(s) PROVE CoverInv'
  <1>1. /\ st[s] = "merge" /\ UNCHANGED <<now, overtaken, lastOk, started, since>>
        /\ st' = [st EXCEPT ![s] = "flush"]
        /\ table' = [table EXCEPT ![s] = @ \cup batch[s]]
        /\ gone' = [gone EXCEPT ![s] = @ \ batch[s]]
        /\ buffer' = [buffer EXCEPT ![s] = @ \ batch[s]]
        /\ batch' = [batch EXCEPT ![s] = {}]
    BY DEF Flush, At, Goto, cycle
  <1>2. /\ st'[s] = "flush" /\ table'[s] = table[s] \cup batch[s] /\ gone'[s] = gone[s] \ batch[s]
        /\ buffer'[s] = buffer[s] \ batch[s]
        /\ \A u \in Sources \ {s} : /\ st'[u] = st[u] /\ batch'[u] = batch[u] /\ gone'[u] = gone[u]
                                    /\ table'[u] = table[u] /\ buffer'[u] = buffer[u]
    BY <1>1 DEF TimeInv, CycleTypeOK
  <1>3. Covered(s)' /\ Repairable(s)'
    BY <1>1, <1>2 DEF CoverInv, Covered, Repairable, Shown, Asked, Behind, Matches
  <1>4. \A i \in Items : (i + Lag[s] <= lastOk[s] => Kept(s, i) \/ i \in overtaken[s])'
    BY <1>1, <1>2 DEF CoverInv, WatermarkSound, Kept, Shown, Matches
  <1> QED
    BY <1>1, <1>2, <1>3, <1>4, OthersCovered DEF CoverInv, WatermarkSound

LEMMA EndStreamCoverInv == ASSUME TimeInv, CoverInv, NEW s \in Sources, EndStream(s) PROVE CoverInv'
  <1>1. /\ st[s] = "flush" /\ buffer[s] = {} /\ st' = [st EXCEPT ![s] = "ok"]
        /\ UNCHANGED <<now, table, gone, overtaken, lastOk, started, since, buffer, batch>>
    BY DEF EndStream, At, Goto, db, cycle, stream
  <1>2. st'[s] = "ok" /\ \A u \in Sources \ {s} : st'[u] = st[u]
    BY <1>1 DEF TimeInv, CycleTypeOK
  <1>3. Covered(s)' /\ Repairable(s)'
    BY <1>1, <1>2 DEF CoverInv, Covered, Repairable, Shown, Asked, Behind, Matches
  <1>4. WatermarkSound'
    BY <1>1 DEF CoverInv, WatermarkSound, Kept, Shown, Matches
  <1> QED
    BY <1>1, <1>2, <1>3, <1>4, OthersCovered DEF CoverInv

LEMMA RecordCoverInv == ASSUME TimeInv, CoverInv, NEW s \in Sources, Record(s) PROVE CoverInv'
  <1>1. /\ lastOk' = IF st[s] = "ok" THEN [lastOk EXCEPT ![s] = started] ELSE lastOk
        /\ overtaken' = IF st[s] = "ok"
                        THEN [overtaken EXCEPT ![s] = @ \cup Behind(s, started)] ELSE overtaken
        /\ st' = [st EXCEPT ![s] = "done"]
        /\ UNCHANGED <<now, table, gone, started, since, buffer, batch>>
    BY DEF Record, Goto, cycle, stream
  <1>2. /\ st'[s] = "done"
        /\ \A u \in Sources \ {s} : /\ st'[u] = st[u] /\ lastOk'[u] = lastOk[u]
                                    /\ overtaken'[u] = overtaken[u]
        /\ lastOk'[s] = IF st[s] = "ok" THEN started ELSE lastOk[s]
        /\ overtaken'[s] = IF st[s] = "ok" THEN overtaken[s] \cup Behind(s, started) ELSE overtaken[s]
    BY <1>1 DEF TimeInv, CycleTypeOK
  <1>3. Covered(s)' /\ Repairable(s)'
    BY <1>1, <1>2 DEF CoverInv, Covered, Repairable, Asked, Behind, Matches
  <1>4. \A i \in Items : (i + Lag[s] <= lastOk[s] => Kept(s, i) \/ i \in overtaken[s])'
    BY <1>1, <1>2 DEF CoverInv, Covered, WatermarkSound, Kept, Shown, Matches
  <1> QED
    BY <1>1, <1>2, <1>3, <1>4, OthersCovered DEF CoverInv, WatermarkSound

LEMMA WorkerCoverInv ==
    ASSUME TimeInv, CoverInv, NEW s \in Sources,
           \/ WorkerStep(s) \/ SetupFails(s) \/ StreamFails(s)
    PROVE  CoverInv'
  <1>1. CASE Start(s) \/ TakeConnection(s) \/ TimesOut(s) \/ PassGate(s) \/ StreamFails(s)
    <2>1. PICK stage \in Stages \ {"flush", "merge", "ok"} : Goto(s, stage)
      BY <1>1 DEF Start, TakeConnection, TimesOut, PassGate, StreamFails, Stages, Active, Waiting
    <2>2. UNCHANGED <<now, db, cycle, stream>>
      BY <1>1 DEF Start, TakeConnection, TimesOut, PassGate, StreamFails
    <2> QED
      BY <2>1, <2>2, MoveCoverInv
  <1>2. CASE SetupFails(s) \/ RecordFails(s)
    <2>1. UNCHANGED <<now, db>> /\ Raise(s)
      BY <1>2 DEF SetupFails, RecordFails
    <2>2. CASE Stop
      BY <2>1, <2>2, StopCoverInv
    <2>3. CASE Goto(s, "done") /\ UNCHANGED <<cycle, stream>>
      BY <2>1, <2>3, MoveCoverInv DEF Stages
    <2> QED
      BY <2>1, <2>2, <2>3 DEF Raise
  <1> QED
    BY <1>1, <1>2, FetchCoverInv, BeginFlushCoverInv, FlushCoverInv, EndStreamCoverInv,
       RecordCoverInv DEF WorkerStep

LEMMA OtherCoverInv ==
    ASSUME TimeInv, CoverInv,
           (\E only \in Selections : BeginCycle(only)) \/ EndCycle \/ Tick \/ Crash
    PROVE  CoverInv'
  <1>1. ASSUME NEW only \in Selections, BeginCycle(only) PROVE CoverInv'
    <2>1. /\ st' \in [Sources -> {"queued", "off"}]
          /\ UNCHANGED <<now, table, gone, overtaken, lastOk>>
      BY <1>1 DEF BeginCycle, db
    <2>2. \A u \in Sources : Covered(u)' /\ Repairable(u)'
      BY <2>1 DEF CoverInv, Covered, Repairable, Asked, Behind, Matches
    <2>3. WatermarkSound'
      BY <2>1 DEF CoverInv, WatermarkSound, Kept, Shown, Matches
    <2> QED
      BY <2>2, <2>3 DEF CoverInv
  <1>2. CASE Tick
    <2>1. /\ now' = now + 1
          /\ UNCHANGED <<table, gone, overtaken, lastOk, started, since, st, buffer, batch>>
      BY <1>2 DEF Tick, db, cycle, stream
    <2>2. \A u \in Sources, w \in Int : Asked(u, w) \subseteq Asked(u, w)'
      BY <2>1, LagAssumption, NumbersAssumption DEF Asked, Matches, Items, TimeInv, CycleTypeOK
    <2>3. \A u \in Sources : since[u] \in Int /\ lastOk[u] \in Int
      BY DEF TimeInv, CycleTypeOK
    <2>4. \A u \in Sources : /\ Asked(u, since[u]) \subseteq Asked(u, since[u])'
                             /\ Asked(u, lastOk[u]) \subseteq Asked(u, lastOk[u])'
      BY <2>1, <2>2, <2>3 DEF Asked
    <2>5. \A u \in Sources : Covered(u)' /\ Repairable(u)'
      BY <2>1, <2>4 DEF CoverInv, Covered, Repairable, Shown, Behind
    <2>6. WatermarkSound'
      BY <2>1 DEF CoverInv, WatermarkSound, Kept, Shown, Matches
    <2> QED
      BY <2>5, <2>6 DEF CoverInv
  <1>3. CASE EndCycle \/ Crash
    BY <1>3, StopCoverInv DEF EndCycle, Crash
  <1> QED
    BY <1>1, <1>2, <1>3

LEMMA StepCoverInv == ASSUME TimeInv, CoverInv, [CycleNext]_cycleVars PROVE CoverInv'
  <1>1. CASE UNCHANGED cycleVars
    BY <1>1 DEF cycleVars, db, cycle, stream, CoverInv, WatermarkSound, Covered, Repairable,
                Kept, Shown, Asked, Behind, Matches
  <1> QED
    BY <1>1, WorkerCoverInv, OtherCoverInv DEF CycleNext, WorkerStep

-----------------------------------------------------------------------------

(* Every variable keeps its type. *)
THEOREM CycleTypes == CycleSpec => []CycleTypeOK
  BY TimeInvAlways, PTL DEF TimeInv

(* The freshness view tells the truth: watermarks only advance, and a failure it
   shows is the source's last news. *)
THEOREM FreshnessIsHonest == CycleSpec => []FailureIsNews /\ WatermarkAdvances
  <1>1. TimeInv => FailureIsNews
    BY DEF TimeInv
  <1>2. ASSUME TimeInv, [CycleNext]_cycleVars
        PROVE  [\A s \in Sources : lastOk'[s] >= lastOk[s]]_cycleVars
    <2>1. CASE UNCHANGED cycleVars
      BY <2>1
    <2>2. UNCHANGED lastOk => \A s \in Sources : lastOk'[s] >= lastOk[s]
      BY <1>2 DEF TimeInv, CycleTypeOK
    <2>3. ASSUME NEW s \in Sources, Record(s)
          PROVE  \A u \in Sources : lastOk'[u] >= lastOk[u]
      <3>1. /\ \A u \in Sources \ {s} : lastOk'[u] = lastOk[u]
            /\ lastOk'[s] \in {lastOk[s], started}
            /\ st[s] \in InCycle
        BY <1>2, <2>3 DEF Record, TimeInv, CycleTypeOK, InCycle, Active, Waiting
      <3>2. started \in Nat /\ lastOk \in [Sources -> Int] /\ lastOk[s] <= started
        BY <1>2, <3>1 DEF TimeInv, CycleTypeOK, Clock
      <3> QED
        BY <3>1, <3>2
    <2>4. ASSUME NEW s \in Sources, WorkerStep(s) \/ SetupFails(s) \/ StreamFails(s), ~Record(s)
          PROVE  UNCHANGED lastOk
      BY <2>4 DEF WorkerStep, Start, TakeConnection, TimesOut, PassGate, Fetch, BeginFlush,
                  Flush, EndStream, RecordFails, SetupFails, StreamFails, db
    <2>5. (\E only \in Selections : BeginCycle(only)) \/ EndCycle \/ Tick \/ Crash
            => UNCHANGED lastOk
      BY DEF BeginCycle, EndCycle, Tick, Crash, db
    <2> QED
      BY <1>2, <2>1, <2>2, <2>3, <2>4, <2>5 DEF CycleNext, WorkerStep
  <1> QED
    BY <1>1, <1>2, TimeInvAlways, PTL DEF CycleSpec, WatermarkAdvances

(* The watermark hides nothing but what it overtook at a source asked by date, for
   any publication delays: whatever the interleaving of workers, failures in
   mid-stream, merges cut in two, timeouts, aborted cycles and crashes. *)
THEOREM WatermarkIsSound == CycleSpec => []WatermarkSound
  <1>1. CoverInv => WatermarkSound
    BY DEF CoverInv
  <1> QED
    BY <1>1, InitCoverInv, StepCoverInv, TimeInvAlways, PTL DEF CycleSpec

-----------------------------------------------------------------------------
(* Backfill.                                                               *)

\* Batches end at multiples of the batch size, counted from the first record.
EndsBatch(i) == i = N \/ \E k \in Nat : i = k * BatchSize

EndsGroup(i) == \A j \in i + 1 .. N : Group[j] # Group[i]

\* Pages, windows or editions that the batches do not cut: full pages in batches
\* of a multiple of their size, for one.
PagesFitBatches == \A k \in Nat : k * BatchSize \in 1 .. N => EndsGroup(k * BatchSize)

\* The connectors whose tokens can be trusted.
SafeGrain ==
    /\ Connectors \subseteq {"record", "offset", "page"}
    /\ "page" \in Connectors => PagesFitBatches

\* A token that resumption can trust when it is carried by a record =< bound.
TokenWithin(token, bound) ==
    /\ token \in Tokens
    /\ token.from =< token.done
    /\ token.done =< bound

\* The row's token covers only stored records, and so does the run's last one.
RowSafe  == TokenWithin(row.token, N) /\ 1 .. row.token.done \subseteq Held
LastSafe == TokenWithin(run.last, N) /\ 1 .. run.last.done \subseteq Held

\* Everything the walk has passed is stored; a batch is the next stretch of it.
WalkSafe ==
    /\ run.next \in 1 .. N + 1
    /\ run.from < run.next
    /\ 1 .. run.next - 1 \subseteq Held
    /\ run.last.done < run.next /\ (pc # "idle" => row.token.done < run.next)
    /\ pc \in {"batch", "insert"} => (run.lo = run.next /\ run.lo =< run.hi /\ run.hi =< N)
    /\ pc = "ended" => run.next > N
    /\ pc # "idle" => row.status = "in_progress"

\* With page tokens every position a run starts from or reaches ends a batch.
BatchSafe ==
    grain = "page" =>
        /\ EndsBatch(row.token.done) /\ EndsBatch(run.last.done) /\ EndsBatch(run.next - 1)
        /\ pc \in {"batch", "insert"} => EndsBatch(run.hi)

\* How far a token may be behind the record that carries it.
Slack == IF grain = "offset" THEN PageSize ELSE 0

\* What the walk is ahead of its tokens.
RiskSafe ==
    /\ pc \in {"pull", "batch", "insert", "ended"} => run.next - 1 - row.token.done =< Slack
    /\ pc \in {"batch", "insert"} => run.hi - run.lo + 1 =< BatchSize
    /\ pc = "merged" => /\ run.next - 1 - run.last.done =< Slack
                        /\ run.next - 1 - row.token.done =< BatchSize + Slack

\* The inductive invariant.
Inv == TypeOK /\ RowSafe /\ LastSafe /\ WalkSafe /\ CompletedIsWhole /\ BatchSafe /\ RiskSafe

USE NAssumption, PageSizeAssumption, BatchSizeAssumption, MaxStopsAssumption
USE DEF Held

(* Rounding down to a page boundary does not pass the record. *)
LEMMA RoundDown ==
    ASSUME NEW x \in Nat, NEW p \in Nat \ {0}
    PROVE  (x \div p) * p \in 0 .. x /\ x - (x \div p) * p < p
  OBVIOUS

(* The last record of a group is its own group's last. *)
LEMMA LastOfEnded ==
    ASSUME NEW i \in 1 .. N, EndsGroup(i)
    PROVE  LastOfGroup(i) = i
  <1> DEFINE Last(j) == Group[j] = Group[i] /\ \A k \in j + 1 .. N : Group[k] # Group[i]
  <1>1. i \in i .. N /\ Last(i)
    BY DEF EndsGroup
  <1>2. \A j \in i .. N : Last(j) => j = i
    BY DEF EndsGroup
  <1>3. LastOfGroup(i) = CHOOSE j \in i .. N : Last(j)
    BY DEF LastOfGroup
  <1> HIDE DEF Last
  <1> QED
    BY <1>1, <1>2, <1>3

(* The batch after one that ends a batch ends a batch. *)
LEMMA NextEndsBatch ==
    ASSUME NEW i \in 0 .. N - 1, EndsBatch(i)
    PROVE  EndsBatch(IF i + BatchSize =< N THEN i + BatchSize ELSE N)
  <1>1. PICK k \in Nat : i = k * BatchSize
    BY DEF EndsBatch
  <1>2. k + 1 \in Nat /\ (k + 1) * BatchSize = k * BatchSize + BatchSize
    OBVIOUS
  <1> QED
    BY <1>1, <1>2 DEF EndsBatch

LEMMA ZeroEndsBatch == EndsBatch(0)
  <1>1. 0 * BatchSize = 0
    OBVIOUS
  <1> QED
    BY <1>1 DEF EndsBatch

(* Where batches do not cut groups, a batch that ends ends a group. *)
LEMMA BatchEndsGroup ==
    ASSUME PagesFitBatches, NEW i \in 1 .. N, EndsBatch(i)
    PROVE  EndsGroup(i)
  <1>1. CASE i = N
    BY <1>1 DEF EndsGroup
  <1>2. CASE i # N
    BY <1>2 DEF EndsBatch, PagesFitBatches
  <1> QED
    BY <1>1, <1>2

(* A safe token covers no record past the one that carries it, and none but the
   records of an offset's page are left out. *)
LEMMA SafeTokenWithin ==
    ASSUME NEW g \in {"record", "offset", "page"}, NEW i \in 1 .. N, NEW from \in 0 .. i - 1,
           g = "page" => EndsGroup(i)
    PROVE  /\ TokenWithin(TokenAt(g, i, from), i)
           /\ i - TokenAt(g, i, from).done =< IF g = "offset" THEN PageSize ELSE 0
           /\ g = "page" => TokenAt(g, i, from).done = i
  <1>1. CASE g = "record"
    BY <1>1 DEF TokenAt, RecordToken, TokenWithin, Tokens
  <1>3. CASE g = "page"
    <2>1. TokenAt(g, i, from) = [done |-> i, from |-> 0]
      BY <1>3, LastOfEnded DEF TokenAt, PageToken
    <2> QED
      BY <1>3, <2>1 DEF TokenWithin, Tokens
  <1>2. CASE g = "offset"
    <2> DEFINE x == i - from - 1
    <2>1. x \in Nat
      OBVIOUS
    <2>2. (x \div PageSize) * PageSize \in 0 .. x /\ x - (x \div PageSize) * PageSize < PageSize
      BY <2>1, RoundDown
    <2>3. TokenAt(g, i, from) = [done |-> from + (x \div PageSize) * PageSize + 1,
                              from |-> from + (x \div PageSize) * PageSize + 1]
      BY <1>2 DEF TokenAt, OffsetToken, PagesBefore
    <2> HIDE DEF x
    <2>4. /\ from + (x \div PageSize) * PageSize + 1 \in 1 .. i
          /\ i - (from + (x \div PageSize) * PageSize + 1) =< PageSize
      BY <2>1, <2>2 DEF x
    <2> QED
      BY <1>2, <2>3, <2>4 DEF TokenWithin, Tokens
  <1> QED
    BY <1>1, <1>2, <1>3

-----------------------------------------------------------------------------

LEMMA InitInv == Init => Inv
  <1> SUFFICES ASSUME Init PROVE Inv
    OBVIOUS
  <1>1. TypeOK /\ RowSafe /\ LastSafe /\ WalkSafe /\ CompletedIsWhole /\ RiskSafe
    BY DEF Init, TypeOK, Runs, RowSafe, LastSafe, WalkSafe, CompletedIsWhole, RiskSafe,
           TokenWithin, NoRun, NoToken, Statuses, Modes, Corpus, Pcs, Tokens
  <1>2. row.token.done = 0 /\ run.last.done = 0 /\ run.next - 1 = 0 /\ pc \notin {"batch", "insert"}
    BY DEF Init, NoRun, NoToken
  <1> QED
    BY <1>1, <1>2, ZeroEndsBatch DEF Inv, BatchSafe

(* A run that stops leaves memory as it was before any run. *)
LEMMA NoRunSafe ==
    ASSUME Inv, run' = NoRun, pc' = "idle", stored' = stored, torn' = torn
    PROVE  LastSafe' /\ WalkSafe' /\ RiskSafe'
  <1>1. NoRun.last = NoToken /\ NoRun.next = 1 /\ NoRun.from = 0
    BY DEF NoRun
  <1>2. TokenWithin(NoToken, N) /\ NoToken.done = 0
    BY DEF NoToken, TokenWithin, Tokens
  <1> QED
    BY <1>1, <1>2 DEF LastSafe, WalkSafe, RiskSafe

LEMMA BeginInv == ASSUME Inv, NEW mode \in Modes, Begin(mode) PROVE Inv'
  <1> DEFINE token == IF mode = "restart" THEN NoToken ELSE row.token
  <1>1. TokenWithin(token, N) /\ 1 .. token.done \subseteq Held
    BY DEF Inv, RowSafe, NoToken, TokenWithin, Tokens
  <1>2. /\ pc' = "pull" /\ UNCHANGED <<grain, stored, torn, cap, corpus, stops>>
        /\ row' = [token |-> token, status |-> "in_progress", count |-> 0]
        /\ run' = [NoRun EXCEPT !.mode = mode, !.next = token.done + 1, !.from = token.from]
    BY DEF Begin, Upsert
  <1> HIDE DEF token
  <1>3. TypeOK'
    <2>1. NoToken \in Tokens /\ token \in Tokens /\ token.done + 1 \in Nat /\ token.from \in Nat
      BY <1>1 DEF TokenWithin, NoToken, Tokens
    <2>2. run' = [mode |-> mode, next |-> token.done + 1, from |-> token.from,
                  last |-> NoToken, count |-> 0, lo |-> 1, hi |-> 0]
      BY <1>2 DEF NoRun
    <2>3. run' \in Runs
      BY <2>1, <2>2 DEF Runs
    <2>4. row' \in [token : Tokens, status : Statuses, count : Nat]
      BY <1>2, <2>1 DEF Statuses
    <2> QED
      BY <1>2, <2>3, <2>4 DEF Inv, TypeOK, Pcs
  <1>4. RowSafe'
    BY <1>1, <1>2 DEF RowSafe
  <1>5. run'.last = NoToken /\ run'.next = token.done + 1 /\ run'.from = token.from
    BY <1>2 DEF NoRun
  <1>6. LastSafe'
    BY <1>2, <1>5 DEF LastSafe, NoToken, TokenWithin, Tokens
  <1>7. WalkSafe'
    <2>1. row'.token = token /\ row'.status = "in_progress" /\ run'.last.done = 0
          /\ token.done \in Nat /\ run'.next = token.done + 1
      BY <1>1, <1>2, <1>5 DEF NoToken, TokenWithin, Tokens
    <2> QED
      BY <1>1, <1>2, <1>5, <2>1 DEF WalkSafe, TokenWithin, Tokens
  <1>8. BatchSafe'
    <2>1. grain = "page" => EndsBatch(token.done)
      BY ZeroEndsBatch DEF token, NoToken, Inv, BatchSafe
    <2>2. token.done \in Nat /\ run'.last.done = 0
      BY <1>1, <1>5 DEF TokenWithin, Tokens, NoToken
    <2>3. row'.token = token /\ run'.next - 1 = token.done /\ pc' \notin {"batch", "insert"} /\ grain' = grain
      <3>1. row'.token = token /\ pc' \notin {"batch", "insert"} /\ grain' = grain
        BY <1>2
      <3>2. run'.next - 1 = token.done
        BY <1>5, <2>2
      <3> QED
        BY <3>1, <3>2
    <2>4. SUFFICES ASSUME grain = "page"
                   PROVE  EndsBatch(token.done) /\ EndsBatch(0)
      BY <2>2, <2>3 DEF BatchSafe
    <2> QED
      BY <2>1, <2>4, ZeroEndsBatch
  <1>9. RiskSafe'
    BY <1>1, <1>2, <1>5 DEF RiskSafe, Slack, TokenWithin, Tokens
  <1> QED
    BY <1>2, <1>3, <1>4, <1>6, <1>7, <1>8, <1>9 DEF Inv, CompletedIsWhole

LEMMA PullInv == ASSUME Inv, PullBatch \/ StreamEnds PROVE Inv'
  <1>1. CASE PullBatch
    <2>1. TypeOK'
      <3> DEFINE hi == IF run.next + BatchSize - 1 =< N THEN run.next + BatchSize - 1 ELSE N
      <3>1. run \in Runs /\ run.next \in Nat /\ hi \in Nat
        BY DEF Inv, TypeOK, Runs, WalkSafe
      <3>2. run' = [run EXCEPT !.lo = run.next, !.hi = hi]
        BY <1>1 DEF PullBatch
      <3> HIDE DEF hi
      <3>3. run' \in Runs
        BY <3>1, <3>2 DEF Runs
      <3> QED
        BY <1>1, <3>3 DEF Inv, TypeOK, PullBatch, Pcs
    <2>2. /\ UNCHANGED <<grain, row, stored, torn>> /\ pc' = "batch" /\ run'.last = run.last
          /\ run'.next = run.next /\ run'.from = run.from /\ run.next =< N
          /\ run'.lo = run.next /\ run'.lo =< run'.hi /\ run'.hi =< N
          /\ run'.hi = IF run.next + BatchSize - 1 =< N THEN run.next + BatchSize - 1 ELSE N
      BY <1>1 DEF Inv, TypeOK, Runs, PullBatch
    <2>3. run.next \in 1 .. N /\ run'.hi - run'.lo + 1 =< BatchSize
      BY <2>2 DEF Inv, WalkSafe
    <2>4. BatchSafe'
      <3> SUFFICES ASSUME grain = "page" PROVE EndsBatch(run'.hi)
        BY <2>2 DEF Inv, BatchSafe
      <3>1. EndsBatch(run.next - 1) /\ run.next - 1 \in 0 .. N - 1
        BY <2>3 DEF Inv, BatchSafe
      <3>2. run.next - 1 + BatchSize = run.next + BatchSize - 1
        BY <2>3
      <3> QED
        BY <2>2, <3>1, <3>2, NextEndsBatch
    <2>5. RiskSafe'
      BY <1>1, <2>2, <2>3 DEF Inv, RiskSafe, Slack, PullBatch
    <2>6. WalkSafe'
      <3>1. run.last.done < run.next /\ row.token.done < run.next /\ row.status = "in_progress"
        BY <1>1 DEF Inv, WalkSafe, PullBatch
      <3>2. UNCHANGED Held
        BY <2>2 DEF Held
      <3> QED
        BY <2>2, <2>3, <3>1, <3>2 DEF Inv, WalkSafe
    <2> QED
      BY <2>1, <2>2, <2>4, <2>5, <2>6 DEF Inv, RowSafe, LastSafe, CompletedIsWhole
  <1>2. CASE StreamEnds
    <2>1. TypeOK'
      BY <1>2 DEF Inv, TypeOK, StreamEnds, Pcs
    <2> QED
      BY <1>2, <2>1 DEF Inv, StreamEnds, RowSafe, LastSafe, WalkSafe, CompletedIsWhole,
                        BatchSafe, RiskSafe, Slack
  <1> QED
    BY <1>1, <1>2

(* Superseding rows of the batch takes nothing from what the walk has passed. *)
LEMMA SupersedeInv == ASSUME Inv, Supersede PROVE Inv'
  <1>1. /\ pc = "batch" /\ pc' = "insert"
        /\ UNCHANGED <<grain, stored, row, run, cap, corpus, stops>>
    BY DEF Supersede
  <1>2. PICK R \in SUBSET (run.lo .. run.hi \cap Held) : torn' = torn \cup R
    BY DEF Supersede
  <1>3. run.lo = run.next /\ run.next \in 1 .. N + 1
    BY <1>1 DEF Inv, WalkSafe
  <1>4. \A n \in Nat : n < run.next /\ 1 .. n \subseteq Held => 1 .. n \subseteq Held'
    BY <1>1, <1>2, <1>3
  <1>5. TypeOK'
    <2>1. torn' \in SUBSET stored'
      BY <1>1, <1>2 DEF Inv, TypeOK
    <2> QED
      BY <1>1, <2>1 DEF Inv, TypeOK, Pcs
  <1>6. /\ row.token.done \in Nat /\ run.last.done \in Nat /\ run.next - 1 \in Nat
        /\ row.token.done < run.next /\ run.last.done < run.next
        /\ row.status # "completed"
    <2>1. row.status # "completed"
      BY <1>1 DEF Inv, WalkSafe
    <2> QED
      BY <1>1, <1>3, <2>1 DEF Inv, WalkSafe, RowSafe, LastSafe, TokenWithin, Tokens
  <1>7. RowSafe' /\ LastSafe'
    BY <1>1, <1>4, <1>6 DEF Inv, RowSafe, LastSafe
  <1>8. WalkSafe'
    BY <1>1, <1>3, <1>4, <1>6 DEF Inv, WalkSafe
  <1>9. CompletedIsWhole'
    BY <1>1, <1>6 DEF CompletedIsWhole
  <1>10. BatchSafe' /\ RiskSafe'
    BY <1>1 DEF Inv, BatchSafe, RiskSafe, Slack
  <1> QED
    BY <1>5, <1>7, <1>8, <1>9, <1>10 DEF Inv

LEMMA PersistInv == ASSUME SafeGrain, Inv, Persist PROVE Inv'
  <1> DEFINE token == TokenAt(grain, run.hi, run.from)
  <1>1. /\ run.next \in 1 .. N /\ run.hi \in run.next .. N /\ run.lo = run.next
        /\ run.from \in 0 .. run.hi - 1
    BY DEF Inv, TypeOK, Runs, WalkSafe, Persist
  <1>2. /\ TokenWithin(token, run.hi)
        /\ run.hi - token.done =< Slack
        /\ grain = "page" => token.done = run.hi /\ EndsBatch(run.hi)
    <2>1. grain \in {"record", "offset", "page"} /\ run.hi \in 1 .. N
      BY <1>1 DEF SafeGrain, Inv, TypeOK
    <2>2. grain = "page" => EndsBatch(run.hi)
      BY DEF Inv, BatchSafe, Persist
    <2>3. grain = "page" => EndsGroup(run.hi)
      BY <2>1, <2>2, BatchEndsGroup DEF SafeGrain, Inv, TypeOK
    <2> QED
      BY <1>1, <2>1, <2>2, <2>3, SafeTokenWithin DEF Slack
  <1>3. /\ pc' = "merged" /\ UNCHANGED <<grain, row, cap, corpus, stops>>
        /\ stored' = stored \cup run.lo .. run.hi
        /\ torn' = torn \ (run.lo .. run.hi)
        /\ run' = [run EXCEPT !.last = token, !.next = run.hi + 1,
                              !.count = run.count + (run.hi - run.lo + 1)]
    BY DEF Inv, TypeOK, Persist
  <1> HIDE DEF token
  <1>4. /\ 1 .. run.hi \subseteq Held' /\ Held \subseteq Held' /\ Held' \subseteq 1 .. N
        /\ stored' \subseteq 1 .. N /\ torn' \subseteq stored'
    BY <1>1, <1>3 DEF Inv, TypeOK, WalkSafe
  <1>5. run'.last = token /\ run'.next = run.hi + 1 /\ run'.from = run.from
    BY <1>3 DEF Inv, TypeOK, Runs
  <1>6. TypeOK'
    <2>1. run \in Runs /\ token \in Tokens /\ run.hi + 1 \in Nat
          /\ run.count + (run.hi - run.lo + 1) \in Nat
      BY <1>1, <1>2 DEF Inv, TypeOK, TokenWithin, Runs
    <2>2. run' \in Runs
      BY <1>3, <2>1 DEF Runs
    <2> QED
      BY <1>3, <1>4, <2>2 DEF Inv, TypeOK, Pcs
  <1>7. RowSafe'
    BY <1>3, <1>4 DEF Inv, RowSafe
  <1>8. LastSafe'
    BY <1>1, <1>2, <1>4, <1>5 DEF LastSafe, TokenWithin, Tokens
  <1>9. WalkSafe'
    <2>1. row'.token.done < run.next /\ token.done =< run.hi
          /\ row'.token.done \in Nat /\ token.done \in Nat /\ row'.status = "in_progress"
      BY <1>2, <1>3 DEF Persist, Inv, WalkSafe, RowSafe, TokenWithin, Tokens
    <2> QED
      BY <1>1, <1>2, <1>3, <1>4, <1>5, <2>1 DEF WalkSafe, Inv, RowSafe, TokenWithin, Tokens
  <1>10. CompletedIsWhole'
    BY <1>3, <1>4 DEF Inv, CompletedIsWhole
  <1>11. run'.next - 1 = run.hi
    BY <1>1, <1>5
  <1>12. BatchSafe'
    BY <1>2, <1>3, <1>5, <1>11 DEF Inv, BatchSafe
  <1>13. RiskSafe'
    <2>1. run.hi - run.lo + 1 =< BatchSize /\ run.next - 1 - row.token.done =< Slack
      BY DEF Persist, Inv, RiskSafe
    <2>2. row.token.done \in Nat /\ token.done \in Nat /\ Slack \in Nat
      BY <1>2 DEF Inv, RowSafe, TokenWithin, Tokens, Slack
    <2>3. run.hi - row.token.done =< BatchSize + Slack
      BY <1>1, <2>1, <2>2
    <2>4. Slack' = Slack
      BY <1>3 DEF Slack
    <2> QED
      BY <1>2, <1>3, <1>5, <1>11, <2>3, <2>4 DEF RiskSafe
  <1> QED
    BY <1>6, <1>7, <1>8, <1>9, <1>10, <1>12, <1>13 DEF Inv

LEMMA SaveTokenInv == ASSUME Inv, SaveToken PROVE Inv'
  <1>1. /\ pc' = "pull" /\ UNCHANGED <<grain, stored, torn, run, cap, corpus, stops>>
        /\ row' = [token |-> run.last, status |-> "in_progress", count |-> run.count]
    BY DEF SaveToken, Upsert
  <1>2. TypeOK'
    <2>1. run.last \in Tokens /\ run.count \in Nat
      BY DEF Inv, TypeOK, Runs
    <2>2. row' \in [token : Tokens, status : Statuses, count : Nat]
      BY <1>1, <2>1 DEF Statuses
    <2> QED
      BY <1>1, <2>2 DEF Inv, TypeOK, Pcs
  <1>3. BatchSafe' /\ RiskSafe'
    BY <1>1 DEF SaveToken, Inv, BatchSafe, RiskSafe, Slack
  <1> QED
    BY <1>1, <1>2, <1>3 DEF Inv, RowSafe, LastSafe, WalkSafe, CompletedIsWhole

(* The four ways a run stops. *)
LEMMA StopInv == ASSUME Inv, Pause \/ Complete \/ Fail \/ Interrupt PROVE Inv'
  <1>1. /\ pc' = "idle" /\ run' = NoRun /\ UNCHANGED <<grain, stored, torn, cap, corpus>>
        /\ stops' \in 0 .. MaxStops
    BY DEF Inv, TypeOK, Pause, Complete, Fail, Interrupt
  <1>2. LastSafe' /\ WalkSafe' /\ RiskSafe'
    BY <1>1, NoRunSafe
  <1>3. NoRun \in Runs
    BY DEF NoRun, NoToken, Modes, Tokens, Runs
  <1>4. row' = row \/ \E status \in Statuses :
                         /\ row' = [token |-> run.last, status |-> status, count |-> run.count]
                         /\ status = "completed" => pc = "ended"
    BY DEF Pause, Complete, Fail, Interrupt, Upsert, PauseStatuses, Statuses
  <1>5. TypeOK'
    <2>1. run.last \in Tokens /\ run.count \in Nat
      BY DEF Inv, TypeOK, Runs
    <2>2. row' \in [token : Tokens, status : Statuses, count : Nat]
      BY <1>4, <2>1 DEF Inv, TypeOK
    <2> QED
      BY <1>1, <1>3, <2>2 DEF Inv, TypeOK, Pcs
  <1>6. RowSafe'
    BY <1>1, <1>4 DEF Inv, RowSafe, LastSafe
  <1>7. ASSUME pc = "ended" PROVE Held = 1 .. N
    <2>1. run.next - 1 = N /\ 1 .. run.next - 1 \subseteq Held /\ stored \subseteq 1 .. N
      BY <1>7 DEF Inv, TypeOK, WalkSafe
    <2> QED
      BY <2>1
  <1>8. CompletedIsWhole'
    BY <1>1, <1>4, <1>7 DEF Inv, CompletedIsWhole
  <1>9. BatchSafe'
    <2>1. row'.token.done \in {row.token.done, run.last.done}
      BY <1>4
    <2>2. run'.last.done = 0 /\ run'.next - 1 = 0
      BY <1>1 DEF NoRun, NoToken
    <2> QED
      BY <1>1, <2>1, <2>2, ZeroEndsBatch DEF Inv, BatchSafe
  <1> QED
    BY <1>2, <1>5, <1>6, <1>8, <1>9 DEF Inv

LEMMA EnvInv == ASSUME Inv, RaiseCap \/ CorpusFills \/ CorpusShrinks PROVE Inv'
  <1>1. UNCHANGED <<grain, stored, torn, row, pc, run>>
    BY DEF RaiseCap, CorpusFills, CorpusShrinks
  <1>2. cap' \in 1 .. N + 1 /\ corpus' \in Corpus /\ stops' \in 0 .. MaxStops
    BY DEF Inv, TypeOK, RaiseCap, CorpusFills, CorpusShrinks, Corpus
  <1>3. TypeOK'
    BY <1>1, <1>2 DEF Inv, TypeOK
  <1> QED
    BY <1>1, <1>3 DEF Inv, RowSafe, LastSafe, WalkSafe, CompletedIsWhole, BatchSafe, RiskSafe, Slack

LEMMA StepInv == ASSUME SafeGrain, Inv, [Next]_vars PROVE Inv'
  <1>1. CASE UNCHANGED vars
    BY <1>1 DEF vars, Inv, TypeOK, RowSafe, LastSafe, WalkSafe, CompletedIsWhole, BatchSafe,
                RiskSafe, Slack
  <1> QED
    BY <1>1, BeginInv, PullInv, SupersedeInv, PersistInv, SaveTokenInv, StopInv, EnvInv DEF Next

(* The invariant holds of every behaviour of a backfill with safe tokens. *)
LEMMA InvAlways == SafeGrain => (Spec => []Inv)
  <1> SUFFICES ASSUME SafeGrain PROVE Spec => []Inv
    OBVIOUS
  <1>1. Inv /\ [Next]_vars => Inv'
    BY StepInv
  <1> QED
    BY <1>1, InitInv, PTL DEF Spec

(* The variables keep their types. *)
THEOREM BackfillTypes == SafeGrain => (Spec => []TypeOK)
  <1>1. Inv => TypeOK
    BY DEF Inv
  <1> QED
    BY <1>1, InvAlways, PTL

(* A saved token never names a record the table lacks, so no run skips one,
   and a backfill marked completed is whole: for every window, page size,
   batch size, cap and sequence of pauses, failures, kills and restarts. *)
THEOREM ResumeIsSafe == SafeGrain => (Spec => [](TokenSound /\ CompletedIsWhole))
  <1>1. Inv => TokenSound /\ CompletedIsWhole
    BY DEF Inv, RowSafe, TokenWithin, Tokens, TokenSound
  <1> QED
    BY <1>1, InvAlways, PTL

(* backfill.py saves the token after every batch: whatever stops a run at
   whatever moment, what it fetched and has to fetch again is one batch at
   most, and with offset tokens the page that the batch ended in. *)
THEOREM AtMostABatchIsLost == SafeGrain => (Spec => []WorkAtRisk)
  <1>1. Inv => WorkAtRisk
    <2> SUFFICES ASSUME Inv, pc # "idle"
                 PROVE  run.next - 1 - row.token.done =< BatchSize + Slack
      BY DEF WorkAtRisk, Slack
    <2>1. run.next \in Nat /\ row.token.done \in Nat /\ Slack \in Nat
      BY DEF Inv, TypeOK, Runs, RowSafe, TokenWithin, Tokens, Slack
    <2>2. pc \in {"pull", "batch", "insert", "ended", "merged"}
      BY DEF Inv, TypeOK, Pcs
    <2> QED
      BY <2>1, <2>2 DEF Inv, RiskSafe
  <1> QED
    BY <1>1, InvAlways, PTL

(* What keeps progress: the token in the row is not ahead of the run's last one,
   and before the first batch both are where the run began. *)
AdvanceSafe ==
    /\ grain = "offset" => row.token.done = row.token.from
    /\ pc = "merged" => run.last # NoToken
    /\ pc # "idle" /\ run.last = NoToken =>
          /\ row.token.done = run.next - 1
          /\ grain = "offset" => row.token.done = run.from
    /\ run.last # NoToken =>
          /\ row.token.done =< run.last.done
          /\ run.next - 1 \in run.from + 1 .. N
          /\ run.last = TokenAt(grain, run.next - 1, run.from)
    /\ grain = "offset" => run.last.done = run.last.from

(* Rounding down to a page boundary keeps the order. *)
LEMMA RoundDownMonotone ==
    ASSUME NEW x \in Nat, NEW y \in Nat, x =< y, NEW p \in Nat \ {0}
    PROVE  (x \div p) * p =< (y \div p) * p
  <1> DEFINE a == x \div p  b == y \div p
  <1>1. a \in Nat /\ b \in Nat /\ a * p =< x /\ y < b * p + p
    BY RoundDown
  <1>2. a * p < (b + 1) * p
    BY <1>1
  <1> HIDE DEF a, b
  <1>3. a =< b
    BY <1>1, <1>2
  <1>4. a * p =< b * p
    BY <1>1, <1>3
  <1> QED
    BY <1>4 DEF a, b

(* Of one run, a later record carries a later token. *)
LEMMA TokensAdvance ==
    ASSUME NEW g \in {"record", "offset", "page"}, NEW from \in Nat,
           NEW i \in from + 1 .. N, NEW j \in i .. N,
           g = "page" => EndsGroup(i) /\ EndsGroup(j)
    PROVE  TokenAt(g, i, from).done =< TokenAt(g, j, from).done
  <1>1. CASE g = "record"
    BY <1>1 DEF TokenAt, RecordToken
  <1>2. CASE g = "page"
    BY <1>2, LastOfEnded DEF TokenAt, PageToken
  <1>3. CASE g = "offset"
    <2> DEFINE before(k) == ((k - from - 1) \div PageSize) * PageSize
    <2>1. before(i) =< before(j) /\ before(i) \in Nat /\ before(j) \in Nat
      <3>1. i - from - 1 \in Nat /\ j - from - 1 \in Nat /\ i - from - 1 =< j - from - 1
        OBVIOUS
      <3> QED
        BY <3>1, RoundDownMonotone, RoundDown
    <2>2. \A k \in {i, j} : TokenAt(g, k, from).done = from + before(k) + 1
      BY <1>3 DEF TokenAt, OffsetToken, PagesBefore
    <2> HIDE DEF before
    <2> QED
      BY <2>1, <2>2
  <1> QED
    BY <1>1, <1>2, <1>3

(* An offset token is a position of its own listing, and past where it starts. *)
LEMMA OffsetIsPosition ==
    ASSUME NEW from \in Nat, NEW i \in from + 1 .. N
    PROVE  LET t == TokenAt("offset", i, from) IN t.done \in Nat /\ t.done = t.from /\ t.done > from
  <1>1. i - from - 1 \in Nat
    OBVIOUS
  <1>2. ((i - from - 1) \div PageSize) * PageSize \in Nat
    BY <1>1, RoundDown
  <1> QED
    BY <1>2 DEF TokenAt, OffsetToken, PagesBefore

LEMMA InitAdvance == Init => AdvanceSafe
  BY DEF Init, AdvanceSafe, NoRun, NoToken

LEMMA BeginAdvance ==
    ASSUME Inv, AdvanceSafe, NEW mode \in Modes, Begin(mode) PROVE AdvanceSafe'
  <1> DEFINE token == IF mode = "restart" THEN NoToken ELSE row.token
  <1>1. token.done \in Nat /\ (grain = "offset" => token.done = token.from)
    BY DEF Inv, AdvanceSafe, RowSafe, TokenWithin, Tokens, NoToken
  <1>2. /\ pc' = "pull" /\ grain' = grain
        /\ row' = [token |-> token, status |-> "in_progress", count |-> 0]
        /\ run' = [NoRun EXCEPT !.mode = mode, !.next = token.done + 1, !.from = token.from]
    BY DEF Begin, Upsert
  <1> HIDE DEF token
  <1>3. run'.last = NoToken /\ run'.next = token.done + 1 /\ run'.from = token.from
    BY <1>2 DEF NoRun
  <1>4. run'.next - 1 = token.done
    BY <1>1, <1>3
  <1>5. row'.token = token /\ pc' # "merged"
    BY <1>2
  <1> QED
    BY <1>1, <1>2, <1>3, <1>4, <1>5 DEF AdvanceSafe, NoToken

LEMMA PersistAdvance ==
    ASSUME SafeGrain, Inv, AdvanceSafe, Persist PROVE AdvanceSafe'
  <1> DEFINE token == TokenAt(grain, run.hi, run.from)
  <1>1. /\ run.next \in 1 .. N /\ run.hi \in run.next .. N /\ run.from \in Nat
        /\ run.from < run.next /\ run.hi \in run.from + 1 .. N
    BY DEF Inv, TypeOK, Runs, WalkSafe, Persist
  <1>2. grain \in {"record", "offset", "page"}
    BY DEF SafeGrain, Inv, TypeOK
  <1>3. grain = "page" => EndsGroup(run.hi)
    BY <1>1, BatchEndsGroup DEF SafeGrain, Inv, TypeOK, BatchSafe, Persist
  <1>4. /\ token.done \in Nat
        /\ grain # "offset" => token.done = run.hi
        /\ grain = "offset" => token.done = token.from /\ token.done > run.from
    <2>1. CASE grain = "record"
      BY <1>1, <2>1 DEF TokenAt, RecordToken
    <2>2. CASE grain = "page"
      BY <1>1, <1>3, <2>2, LastOfEnded DEF TokenAt, PageToken
    <2>3. CASE grain = "offset"
      BY <1>1, <2>3, OffsetIsPosition
    <2> QED
      BY <1>2, <2>1, <2>2, <2>3
  <1>5. token # NoToken
    BY <1>1, <1>2, <1>4 DEF NoToken
  <1>6. row.token.done \in Nat
    BY DEF Inv, RowSafe, TokenWithin, Tokens
  <1>7. row.token.done =< token.done
    <2>1. CASE run.last = NoToken
      <3>1. /\ row.token.done = run.next - 1
            /\ grain = "offset" => row.token.done = run.from
        BY <2>1 DEF AdvanceSafe, Persist
      <3> HIDE DEF token
      <3> QED
        BY <1>1, <1>4, <1>6, <3>1
    <2>2. CASE run.last # NoToken
      <3>1. /\ row.token.done =< run.last.done
            /\ run.next - 1 \in run.from + 1 .. N
            /\ run.last = TokenAt(grain, run.next - 1, run.from)
        BY <2>2 DEF AdvanceSafe
      <3>2. run.hi \in run.next - 1 .. N
        BY <1>1
      <3>3. grain = "page" => EndsGroup(run.next - 1)
        BY <1>1, <3>1, BatchEndsGroup DEF SafeGrain, Inv, TypeOK, BatchSafe
      <3>4. run.last.done =< token.done
        BY <1>1, <1>2, <1>3, <3>1, <3>2, <3>3, TokensAdvance
      <3>5. run.last.done \in Nat
        BY DEF Inv, LastSafe, TokenWithin, Tokens
      <3> HIDE DEF token
      <3> QED
        BY <1>4, <1>6, <3>1, <3>4, <3>5
    <2> QED
      BY <2>1, <2>2
  <1>8. /\ pc' = "merged" /\ grain' = grain /\ row' = row
        /\ run'.last = token /\ run'.next = run.hi + 1 /\ run'.from = run.from
    BY DEF Inv, TypeOK, Runs, Persist
  <1>9. run'.next - 1 = run.hi
    BY <1>1, <1>8
  <1>10. token = TokenAt(grain, run.hi, run.from)
    OBVIOUS
  <1> HIDE DEF token
  <1> QED
    BY <1>1, <1>4, <1>5, <1>7, <1>8, <1>9, <1>10 DEF AdvanceSafe

(* The steps that make no token. *)
LEMMA OtherAdvance ==
    ASSUME Inv, AdvanceSafe,
           PullBatch \/ StreamEnds \/ Supersede \/ SaveToken \/ Pause \/ Complete \/ Fail \/ Interrupt
             \/ RaiseCap \/ CorpusFills \/ CorpusShrinks \/ UNCHANGED vars
    PROVE  AdvanceSafe'
  <1>1. CASE PullBatch \/ StreamEnds \/ Supersede
    <2>1. /\ pc # "idle" /\ pc' \in {"batch", "insert", "ended"} /\ UNCHANGED <<grain, row>>
          /\ run'.last = run.last /\ run'.next = run.next /\ run'.from = run.from
      BY <1>1 DEF Inv, TypeOK, Runs, PullBatch, StreamEnds, Supersede
    <2> QED
      BY <2>1 DEF AdvanceSafe
  <1>2. CASE SaveToken
    <2>1. /\ pc' = "pull" /\ UNCHANGED <<grain, run>> /\ row'.token = run.last
          /\ run.last # NoToken /\ run.last.done \in Nat
      BY <1>2 DEF SaveToken, Upsert, AdvanceSafe, Inv, LastSafe, TokenWithin, Tokens
    <2> QED
      BY <2>1 DEF AdvanceSafe
  <1>3. CASE Pause \/ Complete \/ Fail \/ Interrupt
    <2>1. /\ pc' = "idle" /\ run' = NoRun /\ grain' = grain
          /\ row'.token \in {row.token, run.last}
      BY <1>3 DEF Pause, Complete, Fail, Interrupt, Upsert
    <2>2. run'.last = NoToken
      BY <2>1 DEF NoRun
    <2> QED
      BY <2>1, <2>2 DEF AdvanceSafe, NoToken
  <1>4. CASE RaiseCap \/ CorpusFills \/ CorpusShrinks \/ UNCHANGED vars
    <2>1. UNCHANGED <<grain, row, run, pc>>
      BY <1>4 DEF RaiseCap, CorpusFills, CorpusShrinks, vars
    <2> QED
      BY <2>1 DEF AdvanceSafe
  <1> QED
    BY <1>1, <1>2, <1>3, <1>4

(* Progress is kept: backfill.py writes to the row the token of a later batch of
   the run that read it, or nothing at all when the run has none yet. *)
THEOREM ProgressIsKept == SafeGrain => (Spec => TokenAdvances)
  <1> SUFFICES ASSUME SafeGrain PROVE Spec => TokenAdvances
    OBVIOUS
  <1>1. Inv /\ AdvanceSafe /\ [Next]_vars => AdvanceSafe'
    BY BeginAdvance, PersistAdvance, OtherAdvance DEF Next
  <1>2. ASSUME Inv, AdvanceSafe, [Next]_vars, row'.token.done < row.token.done
        PROVE  row'.token = NoToken /\ (run'.mode = "restart" \/ run.last = NoToken)
    <2>1. row.token.done \in Nat /\ run.last.done \in Nat
      BY <1>2 DEF Inv, RowSafe, LastSafe, TokenWithin, Tokens
    <2>2. CASE \E mode \in Modes : Begin(mode)
      <3>1. PICK mode \in Modes : Begin(mode)
        BY <2>2
      <3>2. row'.token = IF mode = "restart" THEN NoToken ELSE row.token
        BY <3>1 DEF Begin, Upsert
      <3>3. run'.mode = mode
        BY <3>1 DEF Begin, NoRun
      <3> QED
        BY <1>2, <2>1, <3>2, <3>3
    <2>3. CASE SaveToken \/ Pause \/ Complete \/ Fail \/ Interrupt
      <3>1. row'.token \in {row.token, run.last}
        BY <2>3 DEF SaveToken, Pause, Complete, Fail, Interrupt, Upsert
      <3>2. run.last # NoToken => row.token.done =< run.last.done
        BY <1>2 DEF AdvanceSafe
      <3> QED
        BY <1>2, <2>1, <3>1, <3>2
    <2>4. CASE row' = row
      BY <1>2, <2>1, <2>4
    <2> QED
      BY <1>2, <2>2, <2>3, <2>4
      DEF Next, vars, PullBatch, StreamEnds, Supersede, Persist, RaiseCap, CorpusFills, CorpusShrinks
  <1>3. Inv /\ AdvanceSafe /\ [Next]_vars =>
          [row'.token.done < row.token.done
            => row'.token = NoToken /\ (run'.mode = "restart" \/ run.last = NoToken)]_vars
    BY <1>2
  <1> QED
    BY <1>1, <1>3, InitAdvance, InvAlways, PTL DEF Spec, TokenAdvances

(* The backfill implements the checkpointed copy. *)
THEOREM BackfillImplementsCopy == SafeGrain => (Spec => ImplementsCopy)
  <1> SUFFICES ASSUME SafeGrain PROVE Spec => Copy!Spec
    BY DEF ImplementsCopy
  <1>1. Init => Copy!Init
    <2>1. 1 .. 0 = {}
      OBVIOUS
    <2> QED
      BY <2>1 DEF Init, NoToken, Copy!Init
  <1>2. Inv /\ Inv' /\ [Next]_vars => [Copy!Next]_Copy!vars
    <2> SUFFICES ASSUME Inv, Inv', [Next]_vars PROVE [Copy!Next]_Copy!vars
      OBVIOUS
    <2>1. CASE Persist
      <3>1. Held \subseteq Held' /\ Held' \subseteq 1 .. N /\ row' = row
        BY <2>1 DEF Persist, Inv, TypeOK
      <3>2. UNCHANGED <<1 .. row.token.done, row.status = "completed">>
        BY <3>1
      <3> QED
        BY <3>1, <3>2 DEF Copy!Next, Copy!CopySome
    <2>2. CASE UNCHANGED <<stored, torn>>
      <3>0. Held' = Held
        BY <2>2
      <3>1. row'.token.done \in 0 .. N /\ 1 .. row'.token.done \subseteq Held
        BY <2>2 DEF Inv, RowSafe, TokenWithin, Tokens
      <3>2. row'.status = "completed" => Held = 1 .. N
        BY <2>2 DEF Inv, CompletedIsWhole
      <3> QED
        BY <3>0, <3>1, <3>2 DEF Copy!Next, Copy!Checkpoint
    <2>3. CASE Supersede
      <3>1. PICK R \in SUBSET (run.lo .. run.hi \cap Held) : torn' = torn \cup R
        BY <2>3 DEF Supersede
      <3>2. /\ stored' = stored /\ row' = row /\ pc = "batch"
            /\ run.lo = run.next /\ row.token.done < run.next /\ row.status # "completed"
            /\ run.next \in Nat /\ row.token.done \in Nat
        BY <2>3 DEF Supersede, Inv, WalkSafe, RowSafe, TokenWithin, Tokens
      <3>3. Held' \subseteq Held /\ Held \ Held' = R
        BY <3>1, <3>2
      <3>4. R \cap 1 .. row.token.done = {}
        BY <3>1, <3>2
      <3>5. UNCHANGED <<1 .. row.token.done, row.status = "completed">>
        BY <3>2
      <3> QED
        BY <3>2, <3>3, <3>4, <3>5 DEF Copy!Next, Copy!Tear
    <2>4. UNCHANGED <<stored, torn>> \/ Persist \/ Supersede
      BY DEF Next, vars, Begin, PullBatch, StreamEnds, Pause, SaveToken, Complete, Fail,
             Interrupt, RaiseCap, CorpusFills, CorpusShrinks
    <2> QED
      BY <2>1, <2>2, <2>3, <2>4
  <1> QED
    BY <1>1, <1>2, InvAlways, PTL DEF Spec, Copy!Spec

=============================================================================
