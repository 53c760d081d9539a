--------------------------- MODULE MCIngestCycle ---------------------------
(* ACLED, asked by event date behind a license gate and publishing two ticks after
   it, and WHO DON, whose feed is filtered by publication date. *)
EXTENDS IngestCycle

CONSTANTS acled, who_don

SourceSet    == {acled, who_don}
GatedSources == {acled}

Delays  == [s \in Sources |-> IF s = acled THEN 2 ELSE 1]
AsCoded == [s \in Sources |-> IF s = acled THEN "occurred" ELSE "published"]

=============================================================================
