--------------------------- MODULE PreviousResults --------------------------
(***************************************************************************)
(* What the results aggregator promises its users (agent/core/wa_agg.h):   *)
(* the latest results are those of the last test run that was finished,    *)
(* and after a restart of the agent those that were written last, if the   *)
(* write was completed and reached the disk.  Nothing else changes them.   *)
(***************************************************************************)
EXTENDS Integers

CONSTANTS Reports,   \* what a finished test run may report
          None

VARIABLES latest,    \* what WA_AGG_GetPreviousResults leads to
          durable    \* what the results file would give after a restart

Init == latest = None /\ durable = None

\* The old file is given up before the new one is complete.
BeginSave == durable' = None /\ UNCHANGED latest

\* The results of a later run become the latest; they are written, or that is
\* switched off or fails.
Publish ==
    /\ latest' \in Reports
    /\ latest # None => latest'.time > latest.time
    /\ durable' \in {latest', durable}

\* The results that were durable are back, or were not that durable.
Restart == durable' \in {durable, None} /\ latest' = durable'

Next == BeginSave \/ Publish \/ Restart

Spec == Init /\ [][Next]_<<latest, durable>>
=============================================================================
