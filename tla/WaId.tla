-------------------------------- MODULE WaId --------------------------------
(***************************************************************************)
(* The id boxes (agent/core/utils/id/wa_id.c): the search for a free id in *)
(* the sorted list of those in use, one element at a time.  The callers    *)
(* hold a mutex (idMutex, or that of wa_diag.c or wa_comm.c), so nothing   *)
(* comes in between.                                                       *)
(***************************************************************************)
EXTENDS Integers, SequencesExt

CONSTANTS MaxId,      \* (WA_UTILS_ID_t)(-1)
          ListSizes   \* WA_UTILS_LIST_MAX_LIST_SIZE, in each of the builds

ASSUME ConstAssumption ==
    /\ MaxId \in Nat
    /\ ListSizes \subseteq 1..(MaxId + 1)    \* PREPROCESSOR_ASSERT, wa_id.c:171

IdType == 0..MaxId

VARIABLES max,        \* WA_UTILS_LIST_MAX_LIST_SIZE
          list, id,   \* pBox->list, pBox->id
          pc,         \* "idle" or in the loop of WA_UTILS_ID_GenerateUnsafe
          pos,        \* its iterator
          afterFree,  \* iteratorAfterFree, 0 for WA_UTILS_LIST_NO_ELEM
          idPrev,
          last        \* pBox->id when the operation began (history)

loop == <<pos, afterFree, idPrev>>
vars == <<max, list, id, pc, loop, last>>

Init ==
    /\ max \in ListSizes
    /\ list = <<>> /\ id = 0 /\ last = 0
    /\ pc = "idle" /\ pos = 1 /\ afterFree = 0 /\ idPrev = -1

\* ++(pBox->id)
Incremented(i) == (i + 1) % (MaxId + 1)

\* Mutant: the id is not advanced, the one given out last may be next.
GenerateSame ==
    /\ pc = "idle" /\ Len(list) <= MaxId
    /\ pc' = "scan" /\ pos' = 1 /\ afterFree' = 0 /\ idPrev' = -1
    /\ UNCHANGED <<max, list, id, last>>

\* An error, and no step, when there are more ids in use than the type allows for.
Generate ==
    /\ pc = "idle" /\ Len(list) <= MaxId
    /\ pc' = "scan" /\ pos' = 1 /\ afterFree' = 0 /\ idPrev' = -1
    /\ id' = Incremented(id)
    /\ UNCHANGED <<max, list, last>>

\* The end of the ids without a gap from 0 on, and the element after the gap.
Track ==
    \/ afterFree = 0 /\ idPrev # list[pos] - 1
       /\ afterFree' = pos /\ UNCHANGED idPrev
    \/ afterFree = 0 /\ idPrev = list[pos] - 1
       /\ idPrev' = list[pos] /\ UNCHANGED afterFree
    \/ afterFree # 0
       /\ UNCHANGED <<afterFree, idPrev>>

\* The id at this element is smaller, or the one that was tried.
Scan ==
    /\ pc = "scan" /\ pos <= Len(list)
    /\ list[pos] <= id
    /\ Track
    /\ id' = IF id = list[pos] THEN Incremented(id) ELSE id
    /\ pos' = pos + 1
    /\ UNCHANGED <<max, list, pc, last>>

\* Mutant: the pool of list elements has no limit.
InsertUnbounded(i, p) ==
    /\ list' = InsertAt(list, p, i)
    /\ id' = i /\ last' = i
    /\ pc' = "idle" /\ pos' = 1 /\ afterFree' = 0 /\ idPrev' = -1
    /\ UNCHANGED max

\* WA_UTILS_LIST_InsertBefore and _AddBack; when the pool of elements is exhausted
\* the list stays and the caller gets an error.
Insert(i, p) ==
    /\ list' = IF Len(list) < max THEN InsertAt(list, p, i) ELSE list
    /\ id' = i /\ last' = i
    /\ pc' = "idle" /\ pos' = 1 /\ afterFree' = 0 /\ idPrev' = -1
    /\ UNCHANGED max

InsertHere ==
    /\ pc = "scan" /\ pos <= Len(list)
    /\ id < list[pos]
    /\ Insert(id, pos)

\* The id has gone round at the last element: the first gap is taken.
InsertInGap ==
    /\ pc = "scan" /\ pos > Len(list)
    /\ id = 0 /\ afterFree # 0
    /\ Insert(idPrev + 1, afterFree)

AddBack ==
    /\ pc = "scan" /\ pos > Len(list)
    /\ id # 0 \/ afterFree = 0
    /\ Insert(id, pos)

\* WA_UTILS_ID_ReleaseUnsafe
Release ==
    /\ pc = "idle"
    /\ \E k \in DOMAIN list : list' = RemoveAt(list, k)
    /\ UNCHANGED <<max, id, pc, loop, last>>

Next == Generate \/ Scan \/ InsertHere \/ InsertInGap \/ AddBack \/ Release

Spec == Init /\ [][Next]_vars

-----------------------------------------------------------------------------
(* Properties.                                                             *)

TypeOK ==
    /\ max \in ListSizes
    /\ list \in Seq(IdType) /\ Len(list) <= max
    /\ id \in IdType /\ last \in IdType
    /\ pc \in {"idle", "scan"}
    /\ pos \in 1..(Len(list) + 1) /\ afterFree \in 0..Len(list)
    /\ idPrev \in -1..MaxId

\* The list is in ascending order without duplicates whatever was released: the
\* search, which stops at the first greater id (wa_id.c:200), depends on it.
Sorted == \A k, l \in DOMAIN list : k < l => list[k] < list[l]

\* The ids given out are unique, and a released one is used last: the search finds
\* the next free id, going round the 16 bits, in the gap or at the end alike.
Box == INSTANCE IdBox WITH used <- {list[k] : k \in DOMAIN list}

GivesNextFree == Box!Spec
=============================================================================
