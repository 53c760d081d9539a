-------------------------- MODULE CheckpointedCopy --------------------------
(***************************************************************************)
(* What a resumable backfill promises, without batches, pages, tokens,     *)
(* offsets or runs: a checkpoint that covers nothing that is not copied,   *)
(* and a claim of completeness made only when all that was asked for is.   *)
(* A copy may be torn out again, by a revision of the item that is cut     *)
(* short; what the checkpoint covers is then lost, until a later copy.     *)
(***************************************************************************)

CONSTANT Items  \* what there may be to copy

VARIABLES
    wanted,     \* the items asked for
    copied,     \* the items in the copy
    lost,       \* items torn out of the copy that need not be asked for again
    covered,    \* the items a resumed run will not ask for again
    whole       \* the copy is declared complete

vars == <<wanted, copied, lost, covered, whole>>

Init ==
    /\ wanted \subseteq Items
    /\ copied = {} /\ lost = {} /\ covered = {}
    /\ whole = FALSE

CopySome ==
    /\ copied \subseteq copied' /\ copied' \subseteq Items
    /\ lost' \subseteq lost /\ lost \ lost' \subseteq copied'
    /\ UNCHANGED <<wanted, covered, whole>>

\* What is torn although covered, or after the claim of completeness, is lost.
Tear ==
    /\ copied' \subseteq copied
    /\ lost \subseteq lost' /\ lost' \subseteq lost \cup (copied \ copied')
    /\ (copied \ copied') \cap covered \subseteq lost'
    /\ whole => copied \ copied' \subseteq lost'
    /\ UNCHANGED <<wanted, covered, whole>>

Checkpoint ==
    /\ wanted' \subseteq Items
    /\ covered' \subseteq copied \cup lost
    /\ whole' \in BOOLEAN
    /\ whole' => wanted' \subseteq copied \cup lost
    /\ UNCHANGED <<copied, lost>>

Next == CopySome \/ Tear \/ Checkpoint

Spec == Init /\ [][Next]_vars

=============================================================================
