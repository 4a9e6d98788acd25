--------------------------- MODULE WaDiag_proofs ---------------------------
(***************************************************************************)
(* What WaDiag guarantees for any number of procedures, ids and requests,  *)
(* and any depth of the queues.                                            *)
(***************************************************************************)
EXTENDS WaDiag, SequenceTheorems, TLAPS

-----------------------------------------------------------------------------
(* Bounded queues.                                                         *)

\* A message appended to a queue that is not full leaves a queue that is not too long.
LEMMA AppendType ==
    ASSUME NEW S, NEW q \in Seq(S), NEW e \in S, NEW n \in Nat, Len(q) < n
    PROVE  /\ Append(q, e) \in Seq(S)
           /\ Len(Append(q, e)) <= n
BY AppendProperties, LenProperties

\* The rest of a queue is a queue, and its head is one of its messages.
LEMMA TailType ==
    ASSUME NEW S, NEW q \in Seq(S), NEW n \in Nat, Len(q) <= n, q # <<>>
    PROVE  /\ Tail(q) \in Seq(S)
           /\ Len(Tail(q)) <= n
           /\ Head(q) \in S
BY HeadTailProperties, LenProperties

-----------------------------------------------------------------------------
(* Types.                                                                  *)

\* DiagTask holds a call while it has to act on one.
CallHeld == dpc \in {"create", "reply"} => dcall \in Calls

TInv == TypeOK /\ CallHeld

LEMMA TypeInit == Init => TInv
BY ConstAssumption, EmptySeq
   DEF Init, TInv, TypeOK, CallHeld, DiagSteps, CollectorSteps, ExitSteps,
       InstanceSteps, Handles, Fates

\* The history of a call stays one.
LEMMA FateType ==
    ASSUME fate \in [Reqs -> Fates], NEW r, NEW how \in Fates, Settle(r, how)
    PROVE  fate' \in [Reqs -> Fates]
BY DEF Settle, Fates

\* A response is queued or lost.
LEMMA RespondType ==
    ASSUME TypeOK, NEW r, Respond(r)
    PROVE  /\ initQ' \in Seq(Outputs \cup {None})
           /\ Len(initQ') <= InitQDeep
           /\ fate' \in [Reqs -> Fates]
<1>1. CASE Queued("response") /\ Settle(r, "answered")
  BY <1>1, FateType, AppendType, ConstAssumption DEF TypeOK, Queued, Outputs, Fates
<1>2. CASE TimedOut /\ Settle(r, "lost")
  BY <1>2, FateType DEF TypeOK, TimedOut, Fates
<1> QED
  BY <1>1, <1>2 DEF Respond

\* So is a notification.
LEMMA NotifyType ==
    ASSUME TypeOK, Notify("event")
    PROVE  /\ initQ' \in Seq(Outputs \cup {None})
           /\ Len(initQ') <= InitQDeep
<1>1. CASE Queued("event")
  BY <1>1, AppendType, ConstAssumption DEF TypeOK, Queued, Outputs
<1>2. CASE TimedOut
  BY <1>2 DEF TypeOK, TimedOut
<1> QED
  BY <1>1, <1>2 DEF Notify

LEMMA TypeAgent ==
    TInv /\ (AgentTask \/ (\E m \in Messages : AgentDeliver(m))) => TInv'
<1> SUFFICES ASSUME TInv, AgentTask \/ (\E m \in Messages : AgentDeliver(m))
             PROVE  TInv'
  OBVIOUS
<1> USE ConstAssumption DEF TInv, TypeOK, CallHeld, qvars, dvars, cvars, xvars, ivars
<1>1. CASE AgentTake
  BY <1>1, TailType DEF AgentTake
<1>2. CASE AgentStop
  BY <1>2, TailType DEF AgentStop, ExitSteps
<1>3. ASSUME NEW m \in Messages, AgentDeliver(m) PROVE TInv'
  <2>1. diagQ' \in Seq(Messages \cup {None}) /\ Len(diagQ') <= DiagQDeep
    <3>1. CASE Len(diagQ) < DiagQDeep /\ diagQ' = Append(diagQ, m)
      BY <3>1, AppendType
    <3>2. CASE UNCHANGED diagQ
      BY <3>2
    <3> QED
      BY <1>3, <3>1, <3>2 DEF AgentDeliver
  <2>2. fate' \in [Reqs -> Fates]
    BY <1>3 DEF AgentDeliver, Fates
  <2> QED
    BY <1>3, <2>1, <2>2 DEF AgentDeliver
<1> QED
  BY <1>1, <1>2, <1>3 DEF AgentTask

LEMMA TypeDiagTask == TInv /\ DiagTask => TInv'
<1> SUFFICES ASSUME TInv, DiagTask PROVE TInv'
  OBVIOUS
<1> USE ConstAssumption DEF TInv, TypeOK, CallHeld, qvars, dvars, cvars, xvars, ivars, DiagSteps
<1>1. CASE DiagTaskEmpty
  BY <1>1, TailType DEF DiagTaskEmpty, DiagTaskHead
<1>2. ASSUME NEW m \in Messages, DiagTaskCall(m) PROVE TInv'
  BY <1>2, TailType DEF DiagTaskCall, DiagTaskHead
<1>3. ASSUME NEW m \in Messages, DiagTaskLocal(m) PROVE TInv'
  BY <1>3, TailType DEF DiagTaskLocal, DiagTaskHead
<1>4. ASSUME NEW m \in Messages, DiagControl(m) PROVE TInv'
  BY <1>4, TailType DEF DiagControl, DiagTaskHead, Signal, InstanceSteps
<1>5. CASE DiagTaskReply
  BY <1>5, RespondType DEF DiagTaskReply
<1>6. ASSUME NEW i \in Ids, CreateInstance(i) PROVE TInv'
  BY <1>6 DEF CreateInstance, Calls, Procedures, InstanceSteps, Handles
<1>7. CASE StoreHandle
  BY <1>7 DEF StoreHandle, Handles
<1>8. CASE CreateNoId
  BY <1>8 DEF CreateNoId
<1>9. CASE CreateFails
  BY <1>9, FateType DEF CreateFails, Fates
<1> QED
  BY <1>1, <1>2, <1>3, <1>4, <1>5, <1>6, <1>7, <1>8, <1>9 DEF DiagTask

LEMMA TypeInstance ==
    ASSUME NEW i \in Ids, TInv, InstanceTask(i) \/ InstanceProgress(i)
    PROVE  TInv'
<1> USE ConstAssumption DEF TInv, TypeOK, CallHeld, qvars, dvars, cvars, xvars, ivars,
                            Step, InstanceSteps
<1>1. CASE InstanceStart(i)
  BY <1>1, RespondType DEF InstanceStart
<1>2. CASE InstanceProgress(i)
  BY <1>2, NotifyType DEF InstanceProgress
<1>3. CASE InstanceFinish(i)
  BY <1>3 DEF InstanceFinish
<1>4. CASE InstanceEod(i)
  BY <1>4, NotifyType DEF InstanceEod
<1>5. CASE InstancePost(i)
  BY <1>5, AppendType DEF InstancePost
<1>6. CASE InstanceReturn(i)
  BY <1>6 DEF InstanceReturn
<1> QED
  BY <1>1, <1>2, <1>3, <1>4, <1>5, <1>6 DEF InstanceTask

LEMMA TypeCollector == TInv /\ InstancesCollectorTask => TInv'
<1> SUFFICES ASSUME TInv, InstancesCollectorTask PROVE TInv'
  OBVIOUS
<1> USE ConstAssumption DEF TInv, TypeOK, CallHeld, qvars, dvars, cvars, xvars, ivars,
                            CollectorSteps
<1>1. CASE CollectorReceive
  BY <1>1, TailType DEF CollectorReceive
<1>2. CASE CollectorJoin
  BY <1>2 DEF CollectorJoin, Join, Handles
<1>3. CASE CollectorDestroy
  BY <1>3 DEF CollectorDestroy, Destroy, Handles
<1>4. CASE CollectorCleanup
  BY <1>4 DEF CollectorCleanup, CleanupInstance
<1> QED
  BY <1>1, <1>2, <1>3, <1>4 DEF InstancesCollectorTask

LEMMA TypeExit == TInv /\ (ExitBegin \/ WA_DIAG_Exit) => TInv'
<1> SUFFICES ASSUME TInv, ExitBegin \/ WA_DIAG_Exit PROVE TInv'
  OBVIOUS
<1> USE ConstAssumption DEF TInv, TypeOK, CallHeld, qvars, dvars, cvars, xvars, ivars,
                            ExitStep, ExitSteps
<1>1. CASE ExitBegin
  BY <1>1, AppendType DEF ExitBegin
<1>2. CASE ExitStopCollector
  BY <1>2, AppendType DEF ExitStopCollector
<1>3. CASE ExitJoinCollector
  BY <1>3 DEF ExitJoinCollector
<1>4. ASSUME NEW d \in Diags, NEW i \in Ids, ExitSignal(d, i) PROVE TInv'
  BY <1>4 DEF ExitSignal, Signal, InstanceSteps
<1>5. ASSUME NEW d \in Diags, ExitSkip(d) PROVE TInv'
  BY <1>5 DEF ExitSkip
<1>6. CASE ExitJoin
  BY <1>6 DEF ExitJoin, Join, Handles
<1>7. CASE ExitDestroy
  BY <1>7 DEF ExitDestroy, Destroy, Handles
<1>8. CASE ExitCleanup
  BY <1>8 DEF ExitCleanup, CleanupInstance
<1>9. CASE ExitPurge
  BY <1>9 DEF ExitPurge
<1>10. CASE ExitStopDiag
  BY <1>10, AppendType DEF ExitStopDiag
<1>11. CASE ExitJoinDiag
  BY <1>11 DEF ExitJoinDiag
<1> QED
  BY <1>1, <1>2, <1>3, <1>4, <1>5, <1>6, <1>7, <1>8, <1>9, <1>10, <1>11
     DEF WA_DIAG_Exit

LEMMA TypeStep == TInv /\ [Next]_vars => TInv'
<1> SUFFICES ASSUME TInv, [Next]_vars PROVE TInv'
  OBVIOUS
<1>1. CASE UNCHANGED vars
  BY <1>1 DEF vars, TInv, TypeOK, CallHeld, qvars, dvars, cvars, xvars, ivars
<1>2. CASE Next
  BY <1>2, TypeAgent, TypeDiagTask, TypeInstance, TypeCollector, TypeExit DEF Next
<1> QED
  BY <1>1, <1>2

\* Every variable keeps its type, and every queue its bound.
THEOREM TypeCorrect == Spec => []TypeOK
<1>1. Spec => []TInv
  BY TypeInit, TypeStep, PTL DEF Spec
<1>2. TInv => TypeOK
  BY DEF TInv
<1> QED
  BY <1>1, <1>2, PTL

-----------------------------------------------------------------------------
(* One instance per procedure.                                             *)

\* While DiagTask creates an instance of a procedure, the procedure has none:
\* nobody else creates any.
OneInv ==
    /\ AtMostOneInstance
    /\ dpc = "create" => InstancesOf(dcall.diag) = {}

\* Steps that create no instance and leave DiagTask alone, or let it reply.
LEMMA OneFrame ==
    ASSUME OneInv, live' \subseteq live, \A i \in live' : diagOf'[i] = diagOf[i],
           dpc' = "create" => dpc = "create" /\ dcall' = dcall
    PROVE  OneInv'
BY DEF OneInv, AtMostOneInstance, InstancesOf

LEMMA OneStep == TInv /\ OneInv /\ [Next]_vars => OneInv'
<1> SUFFICES ASSUME TInv, OneInv, [Next]_vars PROVE OneInv'
  OBVIOUS
<1> USE DEF qvars, dvars, cvars, xvars, ivars
<1>1. CASE UNCHANGED vars
  BY <1>1, OneFrame DEF vars
<1>2. CASE AgentTask \/ (\E m \in Messages : AgentDeliver(m))
  BY <1>2, OneFrame DEF AgentTask, AgentTake, AgentStop, AgentDeliver
<1>3. CASE DiagTask
  <2>1. ASSUME NEW m \in Messages, DiagTaskCall(m) PROVE OneInv'
    BY <2>1 DEF DiagTaskCall, OneInv, AtMostOneInstance, InstancesOf
  <2>2. ASSUME NEW i \in Ids, CreateInstance(i) PROVE OneInv'
    BY <2>2 DEF CreateInstance, OneInv, AtMostOneInstance, InstancesOf, TInv, TypeOK
  <2>3. ASSUME NEW m \in Messages, DiagTaskLocal(m) \/ DiagControl(m) PROVE OneInv'
    BY <2>3, OneFrame DEF DiagTaskLocal, DiagControl, DiagTaskHead
  <2>4. CASE DiagTaskEmpty \/ DiagTaskReply \/ StoreHandle \/ CreateNoId \/ CreateFails
    BY <2>4, OneFrame DEF DiagTaskEmpty, DiagTaskHead, DiagTaskReply, StoreHandle,
                          CreateNoId, CreateFails
  <2> QED
    BY <1>3, <2>1, <2>2, <2>3, <2>4 DEF DiagTask
<1>4. ASSUME NEW i \in Ids, InstanceTask(i) \/ InstanceProgress(i) PROVE OneInv'
  BY <1>4, OneFrame DEF InstanceTask, InstanceStart, InstanceProgress, InstanceFinish,
                        InstanceEod, InstancePost, InstanceReturn, Step
<1>5. CASE InstancesCollectorTask
  <2>1. CASE CollectorReceive \/ CollectorJoin \/ CollectorDestroy
    BY <2>1, OneFrame DEF CollectorReceive, CollectorJoin, CollectorDestroy
  <2>2. CASE CollectorCleanup
    BY <2>2, OneFrame DEF CollectorCleanup, CleanupInstance, TInv, TypeOK
  <2> QED
    BY <1>5, <2>1, <2>2 DEF InstancesCollectorTask
<1>6. CASE ExitBegin \/ WA_DIAG_Exit
  <2>1. CASE ExitCleanup
    BY <2>1, OneFrame DEF ExitCleanup, ExitStep, CleanupInstance, TInv, TypeOK
  <2>2. ASSUME NEW d \in Diags, NEW i \in Ids, ExitSignal(d, i) PROVE OneInv'
    BY <2>2, OneFrame DEF ExitSignal, ExitStep
  <2>3. CASE \/ ExitBegin \/ ExitStopCollector \/ ExitJoinCollector \/ ExitJoin
             \/ ExitDestroy \/ ExitPurge \/ ExitStopDiag \/ ExitJoinDiag
    BY <2>3, OneFrame DEF ExitBegin, ExitStopCollector, ExitJoinCollector, ExitJoin,
                          ExitDestroy, ExitPurge, ExitStopDiag, ExitJoinDiag, ExitStep
  <2>4. ASSUME NEW d \in Diags, ExitSkip(d) PROVE OneInv'
    BY <2>4, OneFrame DEF ExitSkip, ExitStep
  <2> QED
    BY <1>6, <2>1, <2>2, <2>3, <2>4 DEF WA_DIAG_Exit
<1> QED
  BY <1>1, <1>2, <1>3, <1>4, <1>5, <1>6 DEF Next

\* A procedure never has two instances, although DiagTask decides to create one
\* without the mutex and the collector and WA_DIAG_Exit work on the same lists.
THEOREM OneInstance == Spec => []AtMostOneInstance
<1>1. Init => TInv /\ OneInv
  BY TypeInit DEF Init, OneInv, AtMostOneInstance
<1>2. TInv /\ OneInv /\ [Next]_vars => (TInv /\ OneInv)'
  BY TypeStep, OneStep
<1>3. TInv /\ OneInv => AtMostOneInstance
  BY DEF OneInv
<1> QED
  BY <1>1, <1>2, <1>3, PTL DEF Spec

-----------------------------------------------------------------------------
(* Instances on their way to the collector.                                *)

Early == xpc \in {"up", "joinAgent", "stopCollector", "joinCollector"}
Running == {"start", "run", "eod", "post"}
Past == {"posted", "ended"}

\* WA_DIAG_Exit touches instances only after the collector has ended; until then
\* an instance that runs is listed and has its id.
HoldInv ==
    /\ Early => \A i \in Ids : pc[i] \in Running => i \in live \cap idUsed
    /\ ~Early => cpc = "ended"
    /\ xinst # None => xinst \in live /\ ~Early
    /\ xinst = None <=> xpc \notin {"join", "destroy", "cleanup"}
    /\ cinst = None <=> cpc \notin {"join", "destroy", "cleanup"}

\* An instance in the collector's queue or hands is past its post, listed, has its
\* id, and is there once.
HandInv ==
    cpc # "ended" =>
      /\ \A k \in Handed : /\ collectorQ[k] \in (live \cap idUsed) \ {cinst}
                           /\ pc[collectorQ[k]] \in Past
      /\ \A k, l \in Handed : collectorQ[k] = collectorQ[l] => k = l
      /\ cinst # None => cinst \in live \cap idUsed /\ pc[cinst] \in Past

\* Steps of DiagTask, WA_DIAG_Exit and the instances that leave the collector's
\* queue and hands alone, and the lists as long as the collector runs.
LEMMA HandFrame ==
    ASSUME TInv, HandInv, UNCHANGED <<collectorQ, cinst>>, cpc' = cpc,
           cpc # "ended" => live \subseteq live' /\ idUsed \subseteq idUsed',
           \A i \in Ids : pc[i] \in Past /\ i \in idUsed => pc'[i] \in Past
    PROVE  HandInv'
<1>1. \A k \in Handed : collectorQ[k] \in Ids
  BY ElementOfSeq, LenProperties DEF Handed, TInv, TypeOK
<1> QED
  BY <1>1 DEF HandInv, Handed, TInv, TypeOK

\* Steps that only move an instance that runs, or has posted.
LEMMA HoldFrame ==
    ASSUME TInv, HoldInv, UNCHANGED <<cpc, cinst, xpc, xinst, live, idUsed>>,
           \A i \in Ids : pc'[i] \in Running => pc[i] \in Running
    PROVE  HoldInv'
BY DEF HoldInv, Early

\* Only an instance that runs, or has posted, takes a step.
LEMMA StepPast ==
    ASSUME TInv, NEW i \in Ids, NEW from, NEW to, Step(i, from, to),
           from \in Past => to \in Past, to \in Running => from \in Running
    PROVE  \A j \in Ids : /\ pc[j] \in Past => pc'[j] \in Past
                          /\ pc'[j] \in Running => pc[j] \in Running
BY DEF Step, TInv, TypeOK

\* A signal ends no more than the wait of an instance that posts.
LEMMA SignalPast ==
    ASSUME TInv, NEW i \in Ids, Signal(i)
    PROVE  \A j \in Ids : /\ pc[j] \in Past => pc'[j] \in Past
                          /\ pc'[j] \in Running => pc[j] \in Running
BY DEF Signal, TInv, TypeOK, Past, Running

\* What the collector takes from its queue is the first of those handed to it.
LEMMA ReceiveHand ==
    ASSUME TInv, HoldInv, HandInv, CollectorReceive
    PROVE  HandInv'
<1> DEFINE q == collectorQ
<1>1. /\ q \in Seq(Ids \cup {None}) /\ q # <<>> /\ Len(q) \in Nat \ {0}
      /\ cinst = None /\ cpc = "receive" /\ cinst' = q[1]
      /\ UNCHANGED <<live, idUsed, pc>>
  BY HeadTailProperties, LenProperties, EmptySeq
     DEF CollectorReceive, TInv, TypeOK, HoldInv, ivars
<1>2. /\ DOMAIN q' = 1..(Len(q) - 1)
      /\ \A k \in DOMAIN q' : q'[k] = q[k + 1] /\ k + 1 \in DOMAIN q
      /\ 1 \in DOMAIN q
  BY <1>1, HeadTailProperties, LenProperties DEF CollectorReceive
<1>3. \A k \in Handed' : k + 1 \in Handed /\ q'[k] = q[k + 1] /\ k \in Nat \ {0}
  BY <1>1, <1>2 DEF Handed
<1>4. q[1] # None => 1 \in Handed
  BY <1>2 DEF Handed
<1>5. \A k \in Handed' : q'[k] \in (live \cap idUsed) \ {q[1]} /\ pc[q'[k]] \in Past
  BY <1>1, <1>3, <1>4 DEF HandInv, Handed
<1>6. \A k, l \in Handed' : q'[k] = q'[l] => k = l
  BY <1>1, <1>3 DEF HandInv
<1>7. q[1] # None => q[1] \in live \cap idUsed /\ pc[q[1]] \in Past
  BY <1>1, <1>4 DEF HandInv
<1> QED
  BY <1>1, <1>5, <1>6, <1>7 DEF HandInv

\* Something appended to the queue: an instance that was not in it, or NULL.
LEMMA PostHand ==
    ASSUME TInv, HandInv, NEW e \in Ids \cup {None}, collectorQ' = Append(collectorQ, e),
           UNCHANGED <<cpc, cinst, live, idUsed>>,
           \A i \in Ids : pc[i] \in Past => pc'[i] \in Past,
           cpc # "ended" /\ e # None =>
              /\ e \in (live \cap idUsed) /\ pc[e] \notin Past /\ pc'[e] \in Past
    PROVE  HandInv'
<1> DEFINE q == collectorQ
<1> SUFFICES ASSUME cpc # "ended" PROVE HandInv'
  BY DEF HandInv
<1>1. q \in Seq(Ids \cup {None}) /\ Len(q) \in Nat /\ DOMAIN q = 1..Len(q)
  BY LenProperties DEF TInv, TypeOK
<1>2. /\ DOMAIN q' = 1..(Len(q) + 1) /\ q'[Len(q) + 1] = e
      /\ \A k \in DOMAIN q : q'[k] = q[k]
  BY <1>1, AppendProperties, LenProperties
<1>3. \A k \in Handed : q[k] \in Ids /\ q[k] # e
  <2> SUFFICES ASSUME NEW k \in Handed PROVE q[k] \in Ids /\ q[k] # e
    OBVIOUS
  <2>1. k \in 1..Len(q) /\ q[k] # None
    BY <1>1 DEF Handed
  <2>2. q[k] \in Ids
    BY <1>1, <2>1, ElementOfSeq
  <2>3. pc[q[k]] \in Past
    BY DEF HandInv
  <2> QED
    BY <2>1, <2>2, <2>3
<1>4. \A k \in Handed' : \/ k \in Handed /\ q'[k] = q[k]
                         \/ k = Len(q) + 1 /\ q'[k] = e /\ e # None
  <2> SUFFICES ASSUME NEW k \in Handed'
               PROVE  \/ k \in Handed /\ q'[k] = q[k]
                      \/ k = Len(q) + 1 /\ q'[k] = e /\ e # None
    OBVIOUS
  <2>1. k \in DOMAIN q' /\ q'[k] # None
    BY DEF Handed
  <2>2. k \in DOMAIN q \/ k = Len(q) + 1
    BY <1>1, <1>2, <2>1
  <2> QED
    BY <1>2, <2>1, <2>2 DEF Handed
<1>5. cinst # None => cinst # e /\ cinst \in Ids
  BY DEF HandInv, TInv, TypeOK
<1>6. \A k \in Handed' : q'[k] \in (live \cap idUsed) \ {cinst} /\ pc'[q'[k]] \in Past
  BY <1>3, <1>4, <1>5 DEF HandInv
<1>7. \A k, l \in Handed' : q'[k] = q'[l] => k = l
  BY <1>3, <1>4 DEF HandInv
<1> QED
  BY <1>5, <1>6, <1>7 DEF HandInv

LEMMA HandInit == Init => HoldInv /\ HandInv
BY DEF Init, HoldInv, HandInv, Early, Running, Handed

LEMMA HandAgent ==
    ASSUME TInv, HoldInv, HandInv, AgentTask \/ (\E m \in Messages : AgentDeliver(m))
    PROVE  HoldInv' /\ HandInv'
<1> USE DEF qvars, dvars, cvars, xvars, ivars
<1>1. CASE AgentStop
  <2>1. HandInv'
    BY <1>1, HandFrame DEF AgentStop
  <2>2. HoldInv'
    BY <1>1 DEF AgentStop, HoldInv, Early
  <2> QED
    BY <2>1, <2>2
<1>2. CASE AgentTake \/ (\E m \in Messages : AgentDeliver(m))
  <2>1. UNCHANGED <<collectorQ, cpc, cinst, xpc, xinst, live, idUsed, pc>>
    BY <1>2 DEF AgentTake, AgentDeliver
  <2> QED
    BY <2>1, HandFrame, HoldFrame
<1> QED
  BY <1>1, <1>2 DEF AgentTask

LEMMA HandDiagTask ==
    ASSUME TInv, HoldInv, HandInv, DiagTask
    PROVE  HoldInv' /\ HandInv'
<1> USE DEF qvars, dvars, cvars, xvars, ivars
<1>1. ASSUME NEW i \in Ids, CreateInstance(i) PROVE HoldInv' /\ HandInv'
  <2>1. /\ i \notin idUsed /\ idUsed' = idUsed \cup {i} /\ live' = live \cup {i}
        /\ pc' = [pc EXCEPT ![i] = "start"]
        /\ UNCHANGED <<collectorQ, cpc, cinst, xpc, xinst>>
    BY <1>1 DEF CreateInstance
  <2>2. HandInv'
    BY <2>1, HandFrame DEF TInv, TypeOK
  <2>3. HoldInv'
    BY <2>1 DEF HoldInv, Early, TInv, TypeOK
  <2> QED
    BY <2>2, <2>3
<1>2. ASSUME NEW m \in Messages, DiagControl(m) PROVE HoldInv' /\ HandInv'
  <2>1. UNCHANGED <<collectorQ, cpc, cinst, xpc, xinst, live, idUsed>>
    BY <1>2 DEF DiagControl, DiagTaskHead
  <2>2. \A j \in Ids : /\ pc[j] \in Past => pc'[j] \in Past
                       /\ pc'[j] \in Running => pc[j] \in Running
    <3>1. CASE m.inst \in live
      BY <1>2, <3>1, SignalPast DEF DiagControl, TInv, TypeOK
    <3>2. CASE m.inst \notin live
      BY <1>2, <3>2 DEF DiagControl
    <3> QED
      BY <3>1, <3>2
  <2> QED
    BY <2>1, <2>2, HandFrame, HoldFrame
<1>3. CASE \/ DiagTaskEmpty \/ DiagTaskReply \/ StoreHandle \/ CreateNoId \/ CreateFails
           \/ \E m \in Messages : DiagTaskCall(m) \/ DiagTaskLocal(m)
  <2>1. UNCHANGED <<collectorQ, cpc, cinst, xpc, xinst, live, idUsed, pc>>
    BY <1>3 DEF DiagTaskEmpty, DiagTaskHead, DiagTaskReply, StoreHandle, CreateNoId,
                CreateFails, DiagTaskCall, DiagTaskLocal
  <2> QED
    BY <2>1, HandFrame, HoldFrame
<1> QED
  BY <1>1, <1>2, <1>3 DEF DiagTask

LEMMA HandInstance ==
    ASSUME TInv, HoldInv, HandInv, NEW i \in Ids, InstanceTask(i) \/ InstanceProgress(i)
    PROVE  HoldInv' /\ HandInv'
<1> USE DEF qvars, dvars, cvars, xvars, ivars
<1>1. CASE InstancePost(i)
  <2>1. Step(i, "post", "posted") /\ collectorQ' = Append(collectorQ, i)
    BY <1>1 DEF InstancePost
  <2>2. /\ pc[i] = "post" /\ pc'[i] = "posted"
        /\ UNCHANGED <<cpc, cinst, xpc, xinst, live, idUsed>>
    BY <2>1 DEF Step, TInv, TypeOK
  <2>3. \A j \in Ids : /\ pc[j] \in Past => pc'[j] \in Past
                       /\ pc'[j] \in Running => pc[j] \in Running
    BY <2>1, StepPast DEF Past, Running
  <2>4. cpc # "ended" => i \in live \cap idUsed
    BY <2>2 DEF HoldInv, Running
  <2>5. HandInv'
    BY <2>1, <2>2, <2>3, <2>4, PostHand DEF Past
  <2>6. HoldInv'
    BY <2>2, <2>3, HoldFrame
  <2> QED
    BY <2>5, <2>6
<1>2. ASSUME NEW from, NEW to, Step(i, from, to), UNCHANGED collectorQ,
             from \in Past => to \in Past, to \in Running => from \in Running
      PROVE  HoldInv' /\ HandInv'
  <2>1. UNCHANGED <<collectorQ, cpc, cinst, xpc, xinst, live, idUsed>>
    BY <1>2 DEF Step
  <2>2. \A j \in Ids : /\ pc[j] \in Past => pc'[j] \in Past
                       /\ pc'[j] \in Running => pc[j] \in Running
    BY <1>2, StepPast
  <2> QED
    BY <2>1, <2>2, HandFrame, HoldFrame
<1>3. CASE \/ InstanceStart(i) \/ InstanceProgress(i) \/ InstanceFinish(i)
           \/ InstanceEod(i) \/ InstanceReturn(i)
  BY <1>2, <1>3 DEF InstanceStart, InstanceProgress, InstanceFinish, InstanceEod,
                    InstanceReturn, Past, Running
<1> QED
  BY <1>1, <1>3 DEF InstanceTask

LEMMA HandCollector ==
    ASSUME TInv, HoldInv, HandInv, InstancesCollectorTask
    PROVE  HoldInv' /\ HandInv'
<1> USE DEF qvars, dvars, cvars, xvars, ivars
<1>1. CASE CollectorReceive
  <2>1. HoldInv'
    BY <1>1 DEF CollectorReceive, HoldInv, Early
  <2> QED
    BY <1>1, <2>1, ReceiveHand
<1>2. CASE CollectorJoin \/ CollectorDestroy
  <2>1. /\ UNCHANGED <<collectorQ, cinst, xpc, xinst, live, idUsed, pc>>
        /\ cpc \in {"join", "destroy"} /\ cpc' \in {"destroy", "cleanup"}
    BY <1>2 DEF CollectorJoin, CollectorDestroy
  <2>2. HandInv'
    BY <2>1 DEF HandInv, Handed
  <2>3. HoldInv'
    BY <2>1 DEF HoldInv, Early
  <2> QED
    BY <2>2, <2>3
<1>3. CASE CollectorCleanup
  <2>1. /\ live' = live \ {cinst} /\ idUsed' = idUsed \ {cinst} /\ cinst' = None
        /\ cpc = "cleanup" /\ cpc' = "receive"
        /\ UNCHANGED <<collectorQ, xpc, xinst, pc>>
    BY <1>3 DEF CollectorCleanup, CleanupInstance
  <2>2. HandInv'
    <3>1. \A k \in Handed : collectorQ[k] \in Ids
      BY ElementOfSeq, LenProperties DEF Handed, TInv, TypeOK
    <3> QED
      BY <2>1, <3>1, ConstAssumption DEF HandInv, Handed
  <2>3. HoldInv'
    BY <2>1 DEF HoldInv, HandInv, Early, Past, Running
  <2> QED
    BY <2>2, <2>3
<1> QED
  BY <1>1, <1>2, <1>3 DEF InstancesCollectorTask

LEMMA HandExit ==
    ASSUME TInv, HoldInv, HandInv, ExitBegin \/ WA_DIAG_Exit
    PROVE  HoldInv' /\ HandInv'
<1> USE DEF qvars, dvars, cvars, xvars, ivars, ExitStep
<1>1. CASE ExitStopCollector
  <2>1. HandInv'
    BY <1>1, PostHand DEF ExitStopCollector
  <2>2. HoldInv'
    BY <1>1 DEF ExitStopCollector, HoldInv, Early
  <2> QED
    BY <2>1, <2>2
<1>2. CASE ExitBegin \/ ExitJoinCollector \/ ExitStopDiag \/ ExitJoinDiag
  <2>1. HandInv'
    BY <1>2, HandFrame DEF ExitBegin, ExitJoinCollector, ExitStopDiag, ExitJoinDiag
  <2>2. HoldInv'
    BY <1>2 DEF ExitBegin, ExitJoinCollector, ExitStopDiag, ExitJoinDiag, HoldInv, Early
  <2> QED
    BY <2>1, <2>2
<1>3. CASE xpc \in {"iterate", "join", "destroy", "cleanup"}
  <2>1. cpc = "ended"
    BY <1>3 DEF HoldInv, Early
  <2>2. ASSUME NEW d \in Diags, NEW i \in Ids, ExitSignal(d, i) PROVE HoldInv' /\ HandInv'
    BY <2>1, <2>2, ConstAssumption DEF ExitSignal, InstancesOf, HoldInv, Early, HandInv
  <2>3. ASSUME NEW d \in Diags, ExitSkip(d) PROVE HoldInv' /\ HandInv'
    BY <2>1, <2>3 DEF ExitSkip, HoldInv, Early, HandInv
  <2>4. CASE ExitJoin \/ ExitDestroy \/ ExitCleanup \/ ExitPurge
    BY <2>1, <2>4 DEF ExitJoin, ExitDestroy, ExitCleanup, ExitPurge, HoldInv, Early, HandInv
  <2> QED
    BY <1>1, <1>2, <2>2, <2>3, <2>4 DEF WA_DIAG_Exit
<1> QED
  BY <1>1, <1>2, <1>3 DEF WA_DIAG_Exit, ExitSignal, ExitSkip, ExitJoin, ExitDestroy,
                          ExitCleanup, ExitPurge

LEMMA HandStep == TInv /\ HoldInv /\ HandInv /\ [Next]_vars => HoldInv' /\ HandInv'
<1> SUFFICES ASSUME TInv, HoldInv, HandInv, [Next]_vars PROVE HoldInv' /\ HandInv'
  OBVIOUS
<1>1. CASE UNCHANGED vars
  BY <1>1, HandFrame, HoldFrame DEF vars, qvars, cvars, xvars, ivars
<1>2. CASE Next
  BY <1>2, HandAgent, HandDiagTask, HandInstance, HandCollector, HandExit DEF Next
<1> QED
  BY <1>1, <1>2

LEMMA HandAlways == Spec => [](TInv /\ HoldInv /\ HandInv)
<1>1. Init => TInv /\ HoldInv /\ HandInv
  BY TypeInit, HandInit
<1>2. TInv /\ HoldInv /\ HandInv /\ [Next]_vars => (TInv /\ HoldInv /\ HandInv)'
  BY TypeStep, HandStep
<1> QED
  BY <1>1, <1>2, PTL DEF Spec

\* Until WA_DIAG_Exit destroys instances, no id is released under an instance that
\* can still send a message.
THEOREM IdHeld == Spec => []IdHeldWhileRunning
<1>1. HoldInv => IdHeldWhileRunning
  BY DEF HoldInv, IdHeldWhileRunning, Early, Running
<1> QED
  BY <1>1, HandAlways, PTL

\* The collector and WA_DIAG_Exit never hold a pointer to an instance that has been
\* freed, or that the other one is about to free.
THEOREM NoDangling == Spec => []NoDanglingInstance
<1>1. TInv /\ HoldInv /\ HandInv => NoDanglingInstance
  BY DEF HoldInv, HandInv, NoDanglingInstance, Past
<1> QED
  BY <1>1, HandAlways, PTL

-----------------------------------------------------------------------------
(* Calls on their way to their answer.                                     *)

\* The calls in DiagTask's queue, and whether it holds one.
Waiting == {k \in DOMAIN diagQ : diagQ[k] \in Calls}
Holding == dpc \in {"create", "reply"}

\* A call is in the queue, with DiagTask or with the instance it started, in one of
\* these and once, and only as long as it is not settled.
CallInv ==
    /\ \A k \in Waiting : fate[diagQ[k].req] = "queued"
    /\ \A k, l \in Waiting : diagQ[k].req = diagQ[l].req => k = l
    /\ Holding => /\ fate[dcall.req] = "queued"
                  /\ \A k \in Waiting : diagQ[k].req # dcall.req
    /\ \A i \in Ids : reqOf[i] # None =>
          /\ fate[reqOf[i]] = "queued"
          /\ \A k \in Waiting : diagQ[k].req # reqOf[i]
          /\ Holding => dcall.req # reqOf[i]
          /\ \A j \in Ids : reqOf[j] = reqOf[i] => j = i
    /\ \A i \in Ids : pc[i] = "start" => reqOf[i] # None
    /\ AnsweredOnce

LEMMA CallInit == Init => CallInv
BY DEF Init, CallInv, Waiting, Holding, AnsweredOnce

\* Steps that neither take a call nor settle one.
LEMMA CallFrame ==
    ASSUME TInv, CallInv, UNCHANGED <<diagQ, dcall, reqOf, fate>>, Holding' => Holding,
           \A i \in Ids : pc'[i] = "start" => pc[i] = "start"
    PROVE  CallInv'
BY DEF CallInv, Waiting, Holding, AnsweredOnce

\* What waits in the queue is a message, and a call has a request of its own.
LEMMA WaitingType ==
    ASSUME TInv
    PROVE  /\ \A k \in Waiting : diagQ[k].req \in Reqs
           /\ Holding => dcall.req \in Reqs
           /\ \A i \in Ids : reqOf[i] # None => reqOf[i] \in Reqs
BY DEF TInv, TypeOK, CallHeld, Waiting, Holding, Calls

\* DiagTask takes the head of its queue.
LEMMA TakeHead ==
    ASSUME TInv, NEW m, DiagTaskHead(m)
    PROVE  /\ \A k \in Waiting' : k + 1 \in Waiting /\ diagQ'[k] = diagQ[k + 1] /\ k \in Nat \ {0}
           /\ m \in Calls => 1 \in Waiting /\ diagQ[1] = m
<1>1. diagQ \in Seq(Messages \cup {None}) /\ diagQ # <<>> /\ diagQ' = Tail(diagQ) /\ m = diagQ[1]
  BY HeadTailProperties DEF DiagTaskHead, TInv, TypeOK
<1>2. /\ DOMAIN diagQ' = 1..(Len(diagQ) - 1) /\ Len(diagQ) \in Nat \ {0}
      /\ \A k \in DOMAIN diagQ' : diagQ'[k] = diagQ[k + 1] /\ k + 1 \in DOMAIN diagQ
      /\ 1 \in DOMAIN diagQ
  BY <1>1, HeadTailProperties, LenProperties, EmptySeq
<1> QED
  BY <1>1, <1>2 DEF Waiting

\* It drops what is no call, or has been dealt with on the spot.
LEMMA TakeFrame ==
    ASSUME TInv, CallInv, NEW m, DiagTaskHead(m), UNCHANGED <<dcall, reqOf, fate>>, ~Holding',
           \A i \in Ids : pc'[i] = "start" => pc[i] = "start"
    PROVE  CallInv'
<1>1. \A k \in Waiting' : k + 1 \in Waiting /\ diagQ'[k] = diagQ[k + 1] /\ k \in Nat \ {0}
  BY TakeHead
<1> QED
  BY <1>1 DEF CallInv, Holding, AnsweredOnce

\* A signal starts no instance.
LEMMA SignalStart ==
    ASSUME TInv, NEW i \in Ids, Signal(i)
    PROVE  \A j \in Ids : pc'[j] = "start" => pc[j] = "start"
BY DEF Signal, TInv, TypeOK

\* A request that was not settled is: nobody holds it any more.
LEMMA SettleOnce ==
    ASSUME TInv, CallInv, NEW r \in Reqs, NEW how \in {"answered", "lost", "silent"},
           Settle(r, how), fate[r] = "queued"
    PROVE  /\ \A q \in Reqs : q # r => fate'[q] = fate[q]
           /\ AnsweredOnce'
BY DEF Settle, AnsweredOnce, CallInv, TInv, TypeOK

LEMMA RespondSettles ==
    ASSUME NEW r, Respond(r)
    PROVE  \E how \in {"answered", "lost", "silent"} : Settle(r, how)
BY DEF Respond

LEMMA CallAgent ==
    ASSUME TInv, CallInv, AgentTask \/ (\E m \in Messages : AgentDeliver(m))
    PROVE  CallInv'
<1> USE DEF qvars, dvars, cvars, xvars, ivars
<1>1. CASE AgentTask
  BY <1>1, CallFrame DEF AgentTask, AgentTake, AgentStop, Holding
<1>2. ASSUME NEW m \in Messages, AgentDeliver(m) PROVE CallInv'
  <2>1. UNCHANGED <<dpc, dcall, reqOf, pc>> /\ (m \in Calls => fate[m.req] \notin {"queued", "twice"})
    BY <1>2 DEF AgentDeliver
  <2>2. CASE Len(diagQ) < DiagQDeep /\ diagQ' = Append(diagQ, m)
             /\ fate' = IF m \in Calls THEN [fate EXCEPT ![m.req] = "queued"] ELSE fate
    <3> DEFINE n == Len(diagQ) + 1
    <3>1. /\ DOMAIN diagQ = 1..Len(diagQ) /\ DOMAIN diagQ' = 1..n /\ Len(diagQ) \in Nat
          /\ diagQ'[n] = m /\ \A k \in DOMAIN diagQ : diagQ'[k] = diagQ[k] /\ k # n
      BY <2>2, AppendProperties, LenProperties DEF TInv, TypeOK
    <3>2. \A k \in Waiting' : (k \in Waiting /\ k # n /\ diagQ'[k] = diagQ[k]) \/ (k = n /\ m \in Calls)
      BY <3>1 DEF Waiting
    <3>3. m \in Calls => m.req \in Reqs /\ diagQ'[n].req = m.req
      BY <3>1 DEF Calls
    <3>4. \A r \in Reqs : fate[r] = "queued" => fate'[r] = "queued" /\ (m \in Calls => r # m.req)
      BY <2>1, <2>2, <3>3 DEF TInv, TypeOK
    <3>5. m \in Calls => fate'[m.req] = "queued"
      BY <2>2, <3>3 DEF TInv, TypeOK
    <3>6. AnsweredOnce'
      BY <2>2 DEF AnsweredOnce, CallInv, TInv, TypeOK
    <3> HIDE DEF n
    <3> QED
      BY <2>1, <3>1, <3>2, <3>3, <3>4, <3>5, <3>6, WaitingType DEF CallInv, Holding
  <2>3. CASE UNCHANGED diagQ /\ fate' = IF m \in Calls THEN [fate EXCEPT ![m.req] = "lost"] ELSE fate
    <3>1. \A r \in Reqs : fate[r] = "queued" => fate'[r] = "queued"
      BY <2>1, <2>3 DEF TInv, TypeOK
    <3>2. AnsweredOnce'
      BY <2>3 DEF AnsweredOnce, CallInv, TInv, TypeOK
    <3> QED
      BY <2>1, <2>3, <3>1, <3>2, WaitingType DEF CallInv, Waiting, Holding
  <2> QED
    BY <1>2, <2>2, <2>3 DEF AgentDeliver
<1> QED
  BY <1>1, <1>2

LEMMA CallDiagTask == ASSUME TInv, CallInv, DiagTask PROVE CallInv'
<1> USE DEF qvars, dvars, cvars, xvars, ivars
<1>1. CASE DiagTaskEmpty
  BY <1>1, TakeFrame DEF DiagTaskEmpty, Holding
<1>2. ASSUME NEW m \in Messages, DiagTaskCall(m) PROVE CallInv'
  <2>1. /\ m \in Calls /\ dcall' = m /\ dpc = "receive" /\ UNCHANGED <<reqOf, fate, pc>>
        /\ DiagTaskHead(m)
    BY <1>2 DEF DiagTaskCall, DiagTaskHead
  <2>2. /\ \A k \in Waiting' : k + 1 \in Waiting /\ diagQ'[k] = diagQ[k + 1] /\ k \in Nat \ {0}
        /\ 1 \in Waiting /\ diagQ[1] = m
    BY <2>1, TakeHead
  <2>3. \A k \in Waiting' : k + 1 # 1
    BY <2>2
  <2> QED
    BY <2>1, <2>2, <2>3 DEF CallInv, Holding, AnsweredOnce
<1>3. ASSUME NEW m \in Messages, DiagTaskLocal(m) PROVE CallInv'
  BY <1>3, TakeFrame DEF DiagTaskLocal, DiagTaskHead, Holding
<1>4. ASSUME NEW m \in Messages, DiagControl(m) PROVE CallInv'
  <2>1. \A j \in Ids : pc'[j] = "start" => pc[j] = "start"
    BY <1>4, SignalStart DEF DiagControl, TInv, TypeOK
  <2> QED
    BY <1>4, <2>1, TakeFrame DEF DiagControl, DiagTaskHead, Holding
<1>5. ASSUME NEW how \in {"answered", "lost", "silent"}, Settle(dcall.req, how), Holding, ~Holding',
             UNCHANGED <<diagQ, reqOf, pc>>
      PROVE  CallInv'
  <2>1. dcall.req \in Reqs /\ fate[dcall.req] = "queued"
    BY <1>5, WaitingType DEF CallInv
  <2>2. /\ \A q \in Reqs : q # dcall.req => fate'[q] = fate[q]
        /\ AnsweredOnce'
    BY <1>5, <2>1, SettleOnce
  <2> QED
    BY <1>5, <2>1, <2>2, WaitingType DEF CallInv, Waiting
<1>6. CASE DiagTaskReply
  BY <1>5, <1>6, RespondSettles DEF DiagTaskReply, Holding
<1>7. CASE CreateFails
  BY <1>5, <1>7 DEF CreateFails, Holding
<1>8. ASSUME NEW i \in Ids, CreateInstance(i) PROVE CallInv'
  <2>1. UNCHANGED <<diagQ, fate>> /\ Holding /\ ~Holding'
    BY <1>8 DEF CreateInstance, Holding
  <2>2. reqOf'[i] = dcall.req /\ \A j \in Ids \ {i} : reqOf'[j] = reqOf[j] /\ pc'[j] = pc[j]
    <3>1. /\ reqOf' = [reqOf EXCEPT ![i] = dcall.req]
          /\ pc' = [pc EXCEPT ![i] = "start"]
      BY <1>8 DEF CreateInstance
    <3>2. DOMAIN reqOf = Ids /\ DOMAIN pc = Ids
      BY DEF TInv, TypeOK
    <3> QED
      BY <3>1, <3>2
  <2>3. dcall.req \in Reqs /\ dcall.req # None
    BY <2>1, WaitingType, ConstAssumption
  <2>4. Waiting' = Waiting /\ diagQ' = diagQ /\ AnsweredOnce'
    BY <2>1 DEF Waiting, AnsweredOnce, CallInv
  <2>5. \A j \in Ids : reqOf'[j] # None =>
          /\ fate'[reqOf'[j]] = "queued"
          /\ \A k \in Waiting' : diagQ'[k].req # reqOf'[j]
          /\ \A l \in Ids : reqOf'[l] = reqOf'[j] => l = j
    <3>1. ASSUME NEW j \in Ids \ {i}, reqOf[j] # None
          PROVE  /\ fate'[reqOf'[j]] = "queued" /\ reqOf'[j] # dcall.req
                 /\ \A k \in Waiting' : diagQ'[k].req # reqOf'[j]
                 /\ \A l \in Ids : reqOf'[l] = reqOf'[j] => l = j
      BY <2>1, <2>2, <2>4, <3>1 DEF CallInv
    <3>2. /\ fate'[dcall.req] = "queued"
          /\ \A k \in Waiting' : diagQ'[k].req # dcall.req
      BY <2>1, <2>4 DEF CallInv
    <3> QED
      BY <2>2, <2>3, <3>1, <3>2
  <2>6. \A j \in Ids : pc'[j] = "start" => reqOf'[j] # None
    BY <2>2, <2>3 DEF CallInv
  <2> QED
    BY <2>1, <2>4, <2>5, <2>6 DEF CallInv
<1>9. CASE StoreHandle \/ CreateNoId
  BY <1>9, CallFrame DEF StoreHandle, CreateNoId, Holding
<1> QED
  BY <1>1, <1>2, <1>3, <1>4, <1>6, <1>7, <1>8, <1>9 DEF DiagTask

LEMMA CallInstance ==
    ASSUME TInv, CallInv, NEW i \in Ids, InstanceTask(i) \/ InstanceProgress(i)
    PROVE  CallInv'
<1> USE DEF qvars, dvars, cvars, xvars, ivars
<1>1. CASE InstanceStart(i)
  <2>1. /\ UNCHANGED <<diagQ, dpc, dcall>> /\ pc[i] = "start"
        /\ reqOf'[i] = None /\ pc'[i] # "start"
        /\ \A j \in Ids \ {i} : reqOf'[j] = reqOf[j] /\ pc'[j] = pc[j]
        /\ Respond(reqOf[i])
    BY <1>1 DEF InstanceStart, Step, TInv, TypeOK
  <2>2. reqOf[i] # None /\ reqOf[i] \in Reqs /\ fate[reqOf[i]] = "queued"
    BY <2>1, WaitingType DEF CallInv
  <2>3. /\ \A q \in Reqs : q # reqOf[i] => fate'[q] = fate[q]
        /\ AnsweredOnce'
    BY <2>1, <2>2, RespondSettles, SettleOnce
  <2> QED
    <3>1. Waiting' = Waiting /\ diagQ' = diagQ /\ Holding' = Holding /\ dcall' = dcall
      BY <2>1 DEF Waiting, Holding
    <3>2. /\ \A k \in Waiting : diagQ[k].req # reqOf[i] /\ fate'[diagQ[k].req] = "queued"
          /\ Holding => dcall.req # reqOf[i] /\ fate'[dcall.req] = "queued"
      BY <2>2, <2>3, WaitingType DEF CallInv
    <3>3. ASSUME NEW j \in Ids, reqOf'[j] # None
          PROVE  j # i /\ reqOf'[j] = reqOf[j] /\ fate'[reqOf[j]] = "queued"
      BY <2>1, <2>2, <2>3, <3>3, WaitingType DEF CallInv
    <3>4. \A j \in Ids : reqOf'[j] # None =>
            /\ \A k \in Waiting : diagQ[k].req # reqOf'[j]
            /\ Holding => dcall.req # reqOf'[j]
            /\ \A l \in Ids : reqOf'[l] = reqOf'[j] => l = j
      BY <2>1, <3>3 DEF CallInv
    <3>5. \A j \in Ids : pc'[j] = "start" => reqOf'[j] # None
      BY <2>1 DEF CallInv
    <3> QED
      BY <2>3, <3>1, <3>2, <3>3, <3>4, <3>5 DEF CallInv
<1>2. CASE \/ InstanceProgress(i) \/ InstanceFinish(i) \/ InstanceEod(i)
           \/ InstancePost(i) \/ InstanceReturn(i)
  <2>1. /\ UNCHANGED <<diagQ, dpc, dcall, reqOf, fate>>
        /\ \A j \in Ids : pc'[j] = "start" => pc[j] = "start"
    BY <1>2 DEF InstanceProgress, InstanceFinish, InstanceEod, InstancePost, InstanceReturn,
                Step, TInv, TypeOK
  <2> QED
    BY <2>1, CallFrame DEF Holding
<1> QED
  BY <1>1, <1>2 DEF InstanceTask

LEMMA CallStep == TInv /\ CallInv /\ [Next]_vars => CallInv'
<1> SUFFICES ASSUME TInv, CallInv, [Next]_vars PROVE CallInv'
  OBVIOUS
<1> USE DEF qvars, dvars, cvars, xvars, ivars
<1>1. CASE UNCHANGED vars
  BY <1>1, CallFrame DEF vars, Holding
<1>2. CASE InstancesCollectorTask
  BY <1>2, CallFrame DEF InstancesCollectorTask, CollectorReceive, CollectorJoin,
     CollectorDestroy, CollectorCleanup, CleanupInstance, Holding
<1>3. CASE ExitStopDiag
  <2>1. /\ diagQ' = Append(diagQ, None) /\ UNCHANGED <<dpc, dcall, reqOf, fate, pc>>
    BY <1>3 DEF ExitStopDiag, ExitStep
  <2>2. \A k \in Waiting' : k \in Waiting /\ diagQ'[k].req = diagQ[k].req
    <3>1. None \notin Calls
      BY ConstAssumption DEF Messages
    <3> QED
      BY <2>1, <3>1, AppendProperties, LenProperties DEF Waiting, TInv, TypeOK
  <2>3. (Holding' => Holding) /\ AnsweredOnce'
    BY <2>1 DEF Holding, AnsweredOnce, CallInv
  <2>4. /\ \A k \in Waiting' : fate'[diagQ'[k].req] = "queued"
        /\ \A k, l \in Waiting' : diagQ'[k].req = diagQ'[l].req => k = l
    <3>1. ASSUME NEW k \in Waiting' PROVE fate'[diagQ'[k].req] = "queued"
      BY <2>1, <2>2 DEF CallInv
    <3>2. ASSUME NEW k \in Waiting', NEW l \in Waiting', diagQ'[k].req = diagQ'[l].req PROVE k = l
      <4>1. k \in Waiting /\ l \in Waiting /\ diagQ[k].req = diagQ[l].req
        BY <2>2, <3>2
      <4> QED
        BY <4>1 DEF CallInv
    <3> QED
      BY <3>1, <3>2
  <2>5. Holding' => fate'[dcall'.req] = "queued" /\ \A k \in Waiting' : diagQ'[k].req # dcall'.req
    BY <2>1, <2>2, <2>3 DEF CallInv
  <2>6. \A i \in Ids : reqOf'[i] # None =>
          /\ fate'[reqOf'[i]] = "queued"
          /\ \A k \in Waiting' : diagQ'[k].req # reqOf'[i]
          /\ Holding' => dcall'.req # reqOf'[i]
          /\ \A j \in Ids : reqOf'[j] = reqOf'[i] => j = i
    <3>1. ASSUME NEW i \in Ids, reqOf[i] # None, NEW k \in Waiting' PROVE diagQ'[k].req # reqOf[i]
      BY <2>2, <3>1 DEF CallInv
    <3> QED
      BY <2>1, <2>3, <3>1 DEF CallInv
  <2>7. \A i \in Ids : pc'[i] = "start" => reqOf'[i] # None
    BY <2>1 DEF CallInv
  <2> QED
    BY <2>3, <2>4, <2>5, <2>6, <2>7 DEF CallInv
<1>4. ASSUME NEW d \in Diags, NEW i \in Ids, ExitSignal(d, i) PROVE CallInv'
  BY <1>4, SignalStart, CallFrame DEF ExitSignal, ExitStep, Holding
<1>5. CASE \/ ExitBegin \/ ExitStopCollector \/ ExitJoinCollector \/ ExitJoin \/ ExitDestroy
           \/ ExitCleanup \/ ExitPurge \/ ExitJoinDiag \/ \E d \in Diags : ExitSkip(d)
  BY <1>5, CallFrame DEF ExitBegin, ExitStopCollector, ExitJoinCollector, ExitJoin, ExitDestroy,
     ExitCleanup, CleanupInstance, ExitPurge, ExitJoinDiag, ExitSkip, ExitStep, Holding
<1> QED
  BY <1>1, <1>2, <1>3, <1>4, <1>5, CallAgent, CallDiagTask, CallInstance DEF Next, WA_DIAG_Exit

\* No request is answered twice, lost and answered, or settled by two threads,
\* whatever fails and whenever the agent is told to exit.
THEOREM Answered_Once == Spec => []AnsweredOnce
<1>1. Init => TInv /\ CallInv
  BY TypeInit, CallInit
<1>2. TInv /\ CallInv /\ [Next]_vars => (TInv /\ CallInv)'
  BY TypeStep, CallStep
<1>3. TInv /\ CallInv => AnsweredOnce
  BY DEF CallInv
<1> QED
  BY <1>1, <1>2, <1>3, PTL DEF Spec
=============================================================================
