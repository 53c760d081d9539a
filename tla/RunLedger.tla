----------------------------- MODULE RunLedger -----------------------------
(***************************************************************************)
(* What the tables of calibration_backtest promise their readers: a run is *)
(* opened once, rows are only added while it is open, it is closed once,   *)
(* and from then on it changes only by disappearing with all its rows.     *)
(***************************************************************************)
CONSTANTS
    Runs,   \* run identifiers
    Rows    \* what a run may store

VARIABLES
    state,  \* state[run]
    rows    \* rows[run]: the stored rows

vars == <<state, rows>>

Closed == {"complete", "failed"}

Init ==
    /\ state = [run \in Runs |-> "none"]
    /\ rows = [run \in Runs |-> {}]

Open(run) ==
    /\ state[run] = "none"
    /\ state' = [state EXCEPT ![run] = "in_progress"]
    /\ UNCHANGED rows

Append(run) ==
    /\ state[run] = "in_progress"
    /\ \E row \in Rows : rows' = [rows EXCEPT ![run] = @ \cup {row}]
    /\ UNCHANGED state

Close(run) ==
    /\ state[run] = "in_progress"
    /\ \E verdict \in Closed : state' = [state EXCEPT ![run] = verdict]
    /\ UNCHANGED rows

Expunge(run) ==
    /\ state' = [state EXCEPT ![run] = "none"]
    /\ rows' = [rows EXCEPT ![run] = {}]

Next == \E run \in Runs : Open(run) \/ Append(run) \/ Close(run) \/ Expunge(run)

Spec == Init /\ [][Next]_vars

=============================================================================
