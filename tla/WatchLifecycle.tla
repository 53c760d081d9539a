--------------------------- MODULE WatchLifecycle ---------------------------
(***************************************************************************)
(* What the watch list promises about an analysis: the operator may mark   *)
(* it as often as he likes, and the system itself only ever turns an       *)
(* active mark into "expired", and only once the market behind the         *)
(* analysis is known to be closed.  A closed market stays closed.          *)
(***************************************************************************)

CONSTANTS Analyses

VARIABLES
    mark,       \* mark[a]: the latest watch state of a
    closed      \* the analyses whose market is known to have resolved

Marks       == {"watching", "acted_on", "dismissed"}
ActiveMarks == {"watching", "acted_on"}

Init ==
    /\ mark = [a \in Analyses |-> "none"]
    /\ closed = {}

Mark(a) ==
    /\ \E s \in Marks : mark' = [mark EXCEPT ![a] = s]
    /\ UNCHANGED closed

Close ==
    /\ \E more \in SUBSET Analyses : closed' = closed \cup more
    /\ UNCHANGED mark

Expire(a) ==
    /\ a \in closed
    /\ mark[a] \in ActiveMarks
    /\ mark' = [mark EXCEPT ![a] = "expired"]
    /\ UNCHANGED closed

Next == Close \/ \E a \in Analyses : Mark(a) \/ Expire(a)

Spec == Init /\ [][Next]_<<mark, closed>>

=============================================================================
