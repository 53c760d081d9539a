---------------------------- MODULE ResumeTokens ----------------------------
(***************************************************************************)
(* The stream of records a connector's fetch_backfill yields, and the      *)
(* resume token each record carries.                                       *)
(*                                                                         *)
(* The window [earliest, until] of a source is the sequence of records     *)
(* 1 .. N in the order the connector yields them.  A run of fetch_backfill *)
(* is a walk over it from a position `next`; `from` is what the connector  *)
(* remembers of the listing the walk pages through: pages are counted from *)
(* record from + 1.  A token is reduced to what the next run computes from *)
(* it: the walk resumes after record `done` of a listing that starts after *)
(* record `from`.                                                          *)
(***************************************************************************)
EXTENDS Integers

CONSTANTS
    N,          \* number of records in the backfill window
    Group,      \* Group[i]: the page, 15-minute window, edition or publication
                \* day that record i belongs to; records of a group are adjacent
    PageSize,   \* records per page of the sources that count pages themselves
    Connectors  \* the ways of making tokens in question, a subset of Grains

Grains == {"record", "offset", "page", "narrowed"}

ASSUME NAssumption        == N \in Nat \ {0}
ASSUME PageSizeAssumption == PageSize \in Nat \ {0}
ASSUME ConnectorsAssumption == Connectors \subseteq Grains
ASSUME GroupAssumption    ==
    /\ Group \in [1 .. N -> Nat]
    /\ \A i, j \in 1 .. N : i =< j => Group[i] =< Group[j]

Tokens == [done : Nat, from : Nat]

\* The last_resume_token column is NULL: start from the beginning.  A token a
\* record carries has done > 0.
NoToken == [done |-> 0, from |-> 0]

(***************************************************************************)
(* The grains, one per way the connectors build their tokens.              *)
(***************************************************************************)

\* Last record of i's group: `page + 1` resumes after it.
LastOfGroup(i) ==
    CHOOSE j \in i .. N : Group[j] = Group[i] /\ \A k \in j + 1 .. N : Group[k] # Group[i]

\* First record of i's group.
FirstOfGroup(i) ==
    CHOOSE j \in 1 .. i : Group[j] = Group[i] /\ \A k \in 1 .. j - 1 : Group[k] # Group[i]

\* How many whole pages precede record i's page in a listing that starts
\* after record `from`.
PagesBefore(i, from) == (i - from - 1) \div PageSize

\* FRED: "<series>:<date>" names the record itself.
RecordToken(i) == [done |-> i, from |-> 0]

\* Faulty variant: the offset is counted from where the run resumed.
OffsetOfRun(i, from) == [done |-> PagesBefore(i, from) * PageSize + 1,
                         from |-> PagesBefore(i, from) * PageSize + 1]

\* NOAA: the offset the page of i was requested at; resumption asks for offset + 1.
OffsetToken(i, from) ==
    LET offset == from + PagesBefore(i, from) * PageSize + 1
    IN  [done |-> offset, from |-> offset]

\* ACLED, World Bank, EIA, NRC, Regulations.gov, GDELT, USGS: the page (or
\* window, or edition) of i; resumption starts with the one after it.
PageToken(i) == [done |-> LastOfGroup(i), from |-> 0]

\* Federal Register: "<publication date>:<page>".  Resumption asks for page + 1
\* of the listing that starts at that date.
NarrowedToken(i, from) ==
    LET day  == FirstOfGroup(i) - 1
        page == PagesBefore(i, from) + 1
    IN  [done |-> day + page * PageSize, from |-> day]

TokenAt(grain, i, from) ==
    IF      grain = "record" THEN RecordToken(i)
    ELSE IF grain = "offset" THEN OffsetToken(i, from)
    ELSE IF grain = "page"   THEN PageToken(i)
    ELSE                          NarrowedToken(i, from)

=============================================================================
