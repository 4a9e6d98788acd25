-------------------------------- MODULE IdBox -------------------------------
(***************************************************************************)
(* What the users of an id box rely on (agent/core/utils/id/wa_id.h: "Gen- *)
(* erate ... unique id"): an id in use is not given out again, and an id   *)
(* that was released is given out only after all those after it that are   *)
(* free, so that a message that still carries it is not taken for one of   *)
(* its next owner.                                                         *)
(***************************************************************************)
EXTENDS Integers, FiniteSets

CONSTANT MaxId      \* the largest value of WA_UTILS_ID_t

IdType == 0..MaxId

VARIABLES used,     \* ids in use
          last,     \* the id given out last, or refused last for want of room
          max       \* how many ids can be in use

\* The first id after l, going round, that is not in S.
IsNextFree(i, l, S) ==
    /\ i \in IdType \ S
    /\ IF l < i THEN \A j \in IdType : l < j /\ j < i => j \in S
                ELSE \A j \in IdType : l < j \/ j < i => j \in S

Init == used = {} /\ last = 0

Generate ==
    \E i \in IdType :
       /\ last' = i
       /\ used' = used \cup {i}
       /\ IsNextFree(i, last, used)
       /\ UNCHANGED max

\* All ids can be in use, or there is no room in the list.
GenerateFails ==
    /\ Cardinality(used) = max
    /\ \E i \in IdType : last' = i /\ IsNextFree(i, last, used)
    /\ UNCHANGED <<used, max>>

Release ==
    \E i \in used : used' = used \ {i} /\ UNCHANGED <<last, max>>

Next == Generate \/ GenerateFails \/ Release

Spec == Init /\ [][Next]_<<used, last, max>>
=============================================================================
