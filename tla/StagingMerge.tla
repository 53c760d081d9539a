---------------------------- MODULE StagingMerge ----------------------------
(***************************************************************************)
(* data_ingest/persistence/staging_merge.py: the idempotent merge of a     *)
(* fetched batch into a canonical table, statement by statement.  DuckDB   *)
(* runs each statement in a transaction of its own, so other workers and a *)
(* crash can come between any two.                                         *)
(*                                                                         *)
(* Workers ingest different sources into the same table; a key is          *)
(* (source_id, source_record_id), so each key has one worker.  A payload   *)
(* stands for its hash.  The caller fetches again everything that changed  *)
(* since its last success (run_cycle's `since`); `owed` is that set.       *)
(***************************************************************************)
EXTENDS Integers, Sequences, FiniteSets

CONSTANTS
    Keys,           \* (source_id, source_record_id) pairs
    Payloads,       \* payload contents
    Workers,        \* ingest workers merging into this table
    Owner,          \* Owner[k]: the worker that ingests the source of k
    Repeats,        \* keys a fetch may yield twice (a listing that shifts
                    \* between two pages); {} when sources never do
    Revised,        \* bound: the keys the source may revise
    MaxRevisions,   \* bound: revisions of each of them
    MaxAborts       \* bound: merges that fail or are killed half way

ASSUME OwnerAssumption        == Owner \in [Keys -> Workers]
ASSUME RevisedAssumption      == Revised \in SUBSET Keys
ASSUME RepeatsAssumption      == Repeats \in SUBSET Keys
ASSUME MaxRevisionsAssumption == MaxRevisions \in Nat
ASSUME MaxAbortsAssumption    == MaxAborts \in Nat

VARIABLES
    table,      \* table[k]: the rows of k in insertion order
    src,        \* src[k]: the payload the source publishes now
    revised,    \* revised[k]: how often the source revised k
    owed,       \* keys changed at the source since their last successful fetch
    pc,         \* per worker: where staging_merge is
    keys,       \* per worker: keys of the staged batch
    seen,       \* per worker: the payloads fetched
    twice,      \* per worker: keys staged twice
    revs,       \* per worker: revision keys whose active row is still to supersede
    todo,       \* per worker: keys_to_insert, inserts and revisions
    aborts      \* merges aborted so far

sourceVars == <<src, revised>>
workerVars == <<pc, keys, seen, twice, revs, todo>>
vars == <<table, sourceVars, owed, workerVars, aborts>>

Row(payload) == [payload |-> payload, state |-> "active"]
Rows == [payload : Payloads, state : {"active", "superseded"}]
Own(w) == {k \in Keys : Owner[k] = w}

Active(k) == {i \in DOMAIN table[k] : table[k][i].state = "active"}

\* The newest row of k is active and holds payload p.
Current(k, p) == table[k] # <<>> /\ table[k][Len(table[k])] = Row(p)

TypeOK ==
    /\ table \in [Keys -> Seq(Rows)]
    /\ src \in [Keys -> Payloads]
    /\ revised \in [Keys -> Nat]
    /\ owed \in SUBSET Keys
    /\ pc \in [Workers -> {"idle", "classify", "supersede", "insert", "done"}]
    /\ keys \in [Workers -> SUBSET Keys]
    /\ seen \in [Workers -> [Keys -> Payloads]]
    /\ twice \in [Workers -> SUBSET Keys]
    /\ revs \in [Workers -> SUBSET Keys]
    /\ todo \in [Workers -> SUBSET Keys]
    /\ aborts \in 0 .. MaxAborts

Init ==
    /\ table = [k \in Keys |-> <<>>]
    /\ src \in [Keys -> Payloads]
    /\ revised = [k \in Keys |-> 0]
    /\ owed = Keys
    /\ pc = [w \in Workers |-> "idle"]
    /\ keys = [w \in Workers |-> {}]
    /\ seen = [w \in Workers |-> src]
    /\ twice = [w \in Workers |-> {}]
    /\ revs = [w \in Workers |-> {}]
    /\ todo = [w \in Workers |-> {}]
    /\ aborts = 0

-----------------------------------------------------------------------------
(* The source.                                                             *)

Revise(k) ==
    /\ k \in Revised
    /\ revised[k] < MaxRevisions
    /\ \E p \in Payloads \ {src[k]} : src' = [src EXCEPT ![k] = p]
    /\ revised' = [revised EXCEPT ![k] = @ + 1]
    /\ owed' = owed \cup {k}
    /\ UNCHANGED <<table, workerVars, aborts>>

-----------------------------------------------------------------------------
(* The merge.                                                              *)

\* A worker fetches what it owes, and perhaps more, and stages it.
Fetch(w) ==
    /\ pc[w] = "idle"
    /\ \E K \in SUBSET Own(w), D \in SUBSET Repeats :
          /\ K # {}
          /\ owed \cap Own(w) \subseteq K
          /\ D \subseteq K
          /\ keys' = [keys EXCEPT ![w] = K]
          /\ twice' = [twice EXCEPT ![w] = D]
    /\ seen' = [seen EXCEPT ![w] = src]
    /\ pc' = [pc EXCEPT ![w] = "classify"]
    /\ UNCHANGED <<table, sourceVars, owed, revs, todo, aborts>>

\* Faulty variants of Classify: revisions inserted without superseding; the hash
\* comparison dropped; a known key never revised.
ClassifyKeepsActive(w) ==
    /\ pc[w] = "classify"
    /\ LET inserts   == {k \in keys[w] : Active(k) = {}}
           revisions == {k \in keys[w] \ inserts :
                            \A i \in Active(k) : table[k][i].payload # seen[w][k]}
       IN  /\ todo' = [todo EXCEPT ![w] = inserts \cup revisions]
           /\ pc' = [pc EXCEPT ![w] = IF inserts \cup revisions # {} THEN "insert" ELSE "done"]
    /\ UNCHANGED <<table, sourceVars, owed, keys, seen, twice, revs, aborts>>

ClassifyWith(w, revisions, inserts) ==
    /\ pc[w] = "classify"
    /\ revs' = [revs EXCEPT ![w] = revisions]
    /\ todo' = [todo EXCEPT ![w] = inserts \cup revisions]
    /\ pc' = [pc EXCEPT ![w] = IF revisions # {} THEN "supersede"
                               ELSE IF inserts # {} THEN "insert" ELSE "done"]
    /\ UNCHANGED <<table, sourceVars, owed, keys, seen, twice, aborts>>

ClassifyNewOnly(w) == ClassifyWith(w, {}, {k \in keys[w] : Active(k) = {}})

\* Faulty variant: every known key is taken for a revision.
ClassifyAllRevised(w) ==
    LET known == {k \in keys[w] : Active(k) # {}} IN ClassifyWith(w, known, keys[w] \ known)

\* Read the active rows once and classify every staged row against them.  The
\* lookup is a dict, so of several active rows of a key one hash survives.
Classify(w) ==
    /\ pc[w] = "classify"
    /\ \E hash \in [keys[w] -> Payloads] :
          /\ \A k \in keys[w] : Active(k) # {} => \E i \in Active(k) : table[k][i].payload = hash[k]
          /\ LET inserts   == {k \in keys[w] : Active(k) = {}}
                 revisions == {k \in keys[w] \ inserts : hash[k] # seen[w][k]}
             IN  /\ revs' = [revs EXCEPT ![w] = revisions]
                 /\ todo' = [todo EXCEPT ![w] = inserts \cup revisions]
                 /\ pc' = [pc EXCEPT ![w] = IF revisions # {} THEN "supersede"
                                            ELSE IF inserts # {} THEN "insert" ELSE "done"]
    /\ UNCHANGED <<table, sourceVars, owed, keys, seen, twice, aborts>>

Superseded(rows) == [i \in DOMAIN rows |-> [rows[i] EXCEPT !.state = "superseded"]]

\* UPDATE ... SET superseded_at: one statement per revision key.
Supersede(w) ==
    /\ pc[w] = "supersede"
    /\ \E k \in revs[w] :
          /\ table' = [table EXCEPT ![k] = Superseded(@)]
          /\ revs' = [revs EXCEPT ![w] = @ \ {k}]
          /\ pc' = [pc EXCEPT ![w] = IF revs[w] = {k} THEN "insert" ELSE "supersede"]
    /\ UNCHANGED <<sourceVars, owed, keys, seen, twice, todo, aborts>>

\* INSERT ... SELECT: every staged row of a key to insert.
Insert(w) ==
    /\ pc[w] = "insert"
    /\ table' = [k \in Keys |->
          IF k \notin todo[w] THEN table[k]
          ELSE IF k \in twice[w] THEN Append(Append(table[k], Row(seen[w][k])), Row(seen[w][k]))
          ELSE Append(table[k], Row(seen[w][k]))]
    /\ pc' = [pc EXCEPT ![w] = "done"]
    /\ UNCHANGED <<sourceVars, owed, keys, seen, twice, revs, todo, aborts>>

\* Faulty variant: the watermark is the time the merge ended.
ReportAtEnd(w) ==
    /\ pc[w] = "done"
    /\ owed' = owed \ keys[w]
    /\ pc' = [pc EXCEPT ![w] = "idle"]
    /\ UNCHANGED <<table, sourceVars, keys, seen, twice, revs, todo, aborts>>

\* The run is recorded as successful: the next fetch starts from here.
Report(w) ==
    /\ pc[w] = "done"
    /\ owed' = owed \ {k \in keys[w] : seen[w][k] = src[k]}
    /\ pc' = [pc EXCEPT ![w] = "idle"]
    /\ UNCHANGED <<table, sourceVars, keys, seen, twice, revs, todo, aborts>>

\* A statement fails, or the process dies: what was committed stays.
Abort(w) ==
    /\ pc[w] # "idle"
    /\ aborts < MaxAborts
    /\ aborts' = aborts + 1
    /\ pc' = [pc EXCEPT ![w] = "idle"]
    /\ UNCHANGED <<table, sourceVars, owed, keys, seen, twice, revs, todo>>

MergeStep(w) == Classify(w) \/ Supersede(w) \/ Insert(w) \/ Report(w)

Next ==
    \/ \E k \in Keys : Revise(k)
    \/ \E w \in Workers :
          \/ Fetch(w)
          \/ Classify(w)
          \/ Supersede(w)
          \/ Insert(w)
          \/ Report(w)
          \/ Abort(w)

Spec == Init /\ [][Next]_vars

\* A started merge goes on, and the cycle fetches again while keys are owed.
Fairness ==
    \A w \in Workers :
        /\ WF_vars(MergeStep(w))
        /\ WF_vars(owed \cap Own(w) # {} /\ Fetch(w))

FairSpec == Spec /\ Fairness

-----------------------------------------------------------------------------
(* Properties.                                                             *)

\* A key has at most one active row (staging_merge.py:15-18, the "active row"
\* rule by which every reader selects).
OneActivePerKey == \A k \in Keys : Cardinality(Active(k)) =< 1

\* A key that is not owed shows exactly what the source publishes: a success is
\* never recorded over a half-done merge, however the steps interleave or stop.
UpToDate == \A k \in Keys \ owed : Current(k, src[k])

\* A superseded key without its replacement is a gap the next fetch repairs.
GapIsOwed == \A k \in Keys : (table[k] # <<>> /\ Active(k) = {}) => k \in owed

\* A fetch that finds its row as it was stored writes nothing, however often it
\* is repeated and whatever else the batch has (staging_merge.py: "unchanged").
RepeatWritesNothing ==
    [][\A k \in Keys : Current(k, seen[Owner[k]][k]) => table'[k] = table[k]]_vars

\* What a reader finds: the payloads of the active rows (superseded_at IS NULL).
Mirror == INSTANCE SourceMirror
    WITH source <- src, shown <- [k \in Keys |-> {table[k][i].payload : i \in Active(k)}]

\* To its readers the table is a mirror of its source, though a merge is many
\* statements and other workers, failures and kills come between them.
ImplementsMirror == Mirror!Spec

\* Once the source stops revising, every key ends up and stays current.
Converges == <>[](\A k \in Keys : Current(k, src[k]))

=============================================================================
