---------------------------- MODULE SourceMirror ----------------------------
(***************************************************************************)
(* What readers of a canonical table rely on, without rows, batches or     *)
(* workers: the table shows each key once or not at all, it changes only   *)
(* where the source has published something that was not fetched           *)
(* successfully yet, and a key counts as fetched only while the table      *)
(* shows what the source publishes.                                        *)
(***************************************************************************)

CONSTANTS
    Keys,
    Payloads

VARIABLES
    source,     \* source[k]: the payload the source publishes now
    shown,      \* shown[k]: what a reader finds, {} or one payload
    owed        \* keys to be fetched again

vars == <<source, shown, owed>>

Found == {S \in SUBSET Payloads : \A p, q \in S : p = q}

Init ==
    /\ source \in [Keys -> Payloads]
    /\ shown = [k \in Keys |-> {}]
    /\ owed = Keys

Publish(k) ==
    /\ \E p \in Payloads : source' = [source EXCEPT ![k] = p]
    /\ owed' = owed \cup {k}
    /\ UNCHANGED shown

\* A reader may find a gap or an old payload, but only where a fetch is owed.
Write(K) ==
    /\ K \subseteq owed
    /\ shown' \in [Keys -> Found]
    /\ \A k \in Keys \ K : shown'[k] = shown[k]
    /\ UNCHANGED <<source, owed>>

Settle(K) ==
    /\ \A k \in K : shown[k] = {source[k]}
    /\ owed' = owed \ K
    /\ UNCHANGED <<source, shown>>

Next ==
    \/ \E k \in Keys : Publish(k)
    \/ \E K \in SUBSET Keys : Write(K) \/ Settle(K)

Spec == Init /\ [][Next]_vars

=============================================================================
