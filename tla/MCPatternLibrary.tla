--------------------------- MODULE MCPatternLibrary ---------------------------
(* A class that trades its precursor for another in its second version, has
   analogues and may be withdrawn; and one that is mapped to a market and asked
   for by name, but not registered. *)
EXTENDS PatternLibrary

CONSTANTS conflict, meta

BothClasses  == {conflict, meta}
JustConflict == {conflict}
AllVersions  == [c \in Classes |-> IF c = conflict THEN {0, 1, 2} ELSE {0}]
OldAndNew    == [c \in Classes |-> [v \in {0, 1, 2} |->
                   CASE v = 0 -> {} [] v = 1 -> {"density"} [] OTHER -> {"tone"}]]

=============================================================================
