--------------------------- MODULE MCStagingMerge ---------------------------
(* Two workers share a table: w1 ingests two keys, w2 one. *)
EXTENDS StagingMerge

TwoOwners == [k \in Keys |-> IF k = "c" THEN "w2" ELSE "w1"]

=============================================================================
