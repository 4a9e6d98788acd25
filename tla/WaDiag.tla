------------------------------- MODULE WaDiag -------------------------------
(***************************************************************************)
(* The diagnostics dispatcher of the agent (agent/core/wa_diag.c): the     *)
(* DiagTask that takes calls from its queue and creates one thread per     *)
(* procedure instance, the instance threads, the collector that joins them *)
(* and frees their ids, and WA_DIAG_Exit.  All queues are bounded POSIX    *)
(* queues: WA_OSA_QSend blocks on a full one, WA_OSA_QTimedRetrySend gives *)
(* up after a few milliseconds and the message is gone.                    *)
(*                                                                         *)
(* Only DiagTask holds diagProcedures.mutex over more than one of the      *)
(* steps below (from the creation of the thread to the store of its        *)
(* handle), so the mutex is free exactly when dpc # "store".               *)
(***************************************************************************)
EXTENDS Naturals, Sequences, FiniteSets

CONSTANTS Diags,          \* registered procedures (proceduresList)
          Ids,            \* instance ids WA_UTILS_ID_GenerateUnsafe can return
          Reqs,           \* bound: JSON-RPC ids clients use, again once settled
          DiagQDeep,      \* WA_DIAG_INCOME_Q_DEEP
          InitQDeep,      \* WA_INIT_INCOME_Q_DEEP
          CollectorQDeep, \* COLLECTOR_Q_DEEP
          MayFail,        \* malloc, list pool or pthread_create may fail
          MayExit,        \* the agent may be told to exit
          None            \* NULL, also the message of size 0 that stops a task

Calls == [kind : {"call"}, diag : Diags \cup {None}, req : Reqs]
Breaks == [kind : {"break"}, inst : Ids]
Locals == [kind : {"local"}]
Messages == Calls \cup Breaks \cup Locals
Outputs == {"response", "event"}    \* to a call; progress and eod of an instance

ASSUME ConstAssumption ==
    /\ DiagQDeep \in Nat \ {0}
    /\ InitQDeep \in Nat \ {0}
    /\ CollectorQDeep \in Nat \ {0}
    /\ MayFail \in BOOLEAN
    /\ MayExit \in BOOLEAN
    /\ None \notin Diags \cup Ids \cup Reqs
    /\ None \notin Messages

VARIABLES
    diagQ,       \* WA_DIAG_IncomingQ
    initQ,       \* WA_INIT_IncomingQ, where all replies and notifications go
    collectorQ,  \* instances whose thread is about to end
    dpc, dcall, dnew,  \* DiagTask: its step, the call it holds, the instance it creates
    cpc, cinst,  \* collector: its step and the instance it holds
    xpc, xtodo, xinst, \* WA_DIAG_Exit: its step, procedures to go, instance it destroys
    live,        \* instances in the instancesLists
    idUsed,      \* diagProcedures.idBox
    diagOf,      \* pContext of an instance
    reqOf,       \* the call of its startup message, while it has to answer it
    pc,          \* the instance thread
    handle,      \* pInstance->taskHandle
    fate         \* what became of each call (history)

qvars == <<diagQ, initQ, collectorQ>>
dvars == <<dpc, dcall, dnew>>
cvars == <<cpc, cinst>>
xvars == <<xpc, xtodo, xinst>>
ivars == <<live, idUsed, diagOf, reqOf, pc, handle>>
vars == <<qvars, dvars, cvars, xvars, ivars, fate>>

DiagSteps == {"receive", "create", "store", "reply", "ended"}
CollectorSteps == {"receive", "join", "destroy", "cleanup", "ended"}
ExitSteps == {"up", "joinAgent", "stopCollector", "joinCollector", "iterate",
              "join", "destroy", "cleanup", "stopDiag", "joinDiag", "done"}
InstanceSteps == {"none", "start", "run", "eod", "post", "posted", "ended"}
Handles == {"none", "unset", "valid", "joined", "freed"}
Fates == {"none", "queued", "answered", "lost", "silent", "twice"}

Init ==
    /\ diagQ = <<>> /\ initQ = <<>> /\ collectorQ = <<>>
    /\ dpc = "receive" /\ dcall = None /\ dnew = None
    /\ cpc = "receive" /\ cinst = None
    /\ xpc = "up" /\ xtodo = Diags /\ xinst = None
    /\ live = {} /\ idUsed = {}
    /\ diagOf = [i \in Ids |-> None] /\ reqOf = [i \in Ids |-> None]
    /\ pc = [i \in Ids |-> "none"] /\ handle = [i \in Ids |-> "none"]
    /\ fate = [r \in Reqs |-> "none"]

-----------------------------------------------------------------------------
(* Sending on the queue of the agent.                                      *)

\* WA_OSA_QTimedRetrySend on WA_INIT_IncomingQ: queued, or lost while it is full.
Queued(m) == Len(initQ) < InitQDeep /\ initQ' = Append(initQ, m)
TimedOut == Len(initQ) = InitQDeep /\ UNCHANGED initQ
Notify(m) == Queued(m) \/ TimedOut

Settle(r, how) ==
    fate' = [fate EXCEPT ![r] = IF @ = "queued" THEN how ELSE "twice"]

\* A response to call r, which the client sees or never sees.
Respond(r) ==
    \/ Queued("response") /\ Settle(r, "answered")
    \/ TimedOut /\ Settle(r, "lost")

\* AgentTask takes the head of its queue and forwards it to the client.
AgentTake ==
    /\ initQ # <<>> /\ Head(initQ) # None
    /\ xpc \in {"up", "joinAgent"}
    /\ initQ' = Tail(initQ)
    /\ UNCHANGED <<diagQ, collectorQ, dvars, cvars, xvars, ivars, fate>>

\* It ends on the empty message; WA_INIT_Exit joins it and frees the aggregator.
AgentStop ==
    /\ xpc = "joinAgent"
    /\ initQ # <<>> /\ Head(initQ) = None
    /\ initQ' = Tail(initQ)
    /\ xpc' = "stopCollector"
    /\ UNCHANGED <<diagQ, collectorQ, dvars, cvars, xtodo, xinst, ivars, fate>>

\* AgentTask forwards a client's message m to DiagTask, or drops it when the
\* queue stays full.  A client uses the id of a request again once it is settled.
AgentDeliver(m) ==
    /\ xpc \in {"up", "joinAgent"}
    /\ m \in Calls => fate[m.req] \notin {"queued", "twice"}
    /\ \/ /\ Len(diagQ) < DiagQDeep
          /\ diagQ' = Append(diagQ, m)
          /\ fate' = IF m \in Calls THEN [fate EXCEPT ![m.req] = "queued"] ELSE fate
       \/ /\ Len(diagQ) = DiagQDeep
          /\ fate' = IF m \in Calls THEN [fate EXCEPT ![m.req] = "lost"] ELSE fate
          /\ UNCHANGED diagQ
    /\ UNCHANGED <<initQ, collectorQ, dvars, cvars, xvars, ivars>>

-----------------------------------------------------------------------------
(* DiagTask.                                                               *)

DiagTaskHead(m) ==
    /\ dpc = "receive"
    /\ diagQ # <<>>
    /\ m = Head(diagQ)
    /\ diagQ' = Tail(diagQ)
    /\ UNCHANGED <<initQ, collectorQ, cvars, xvars>>

DiagTaskEmpty ==
    /\ DiagTaskHead(None)
    /\ dpc' = "ended"
    /\ UNCHANGED <<dcall, dnew, ivars, fate>>

\* The list of procedures is purged by WA_DIAG_Exit.
Procedures == IF xpc \in {"stopDiag", "joinDiag", "done"} THEN {} ELSE Diags
InstancesOf(d) == {i \in live : diagOf[i] = d}

\* Mutant: the instances are not counted.
DiagTaskCallUncounted(m) ==
    /\ m \in Calls
    /\ DiagTaskHead(m)
    /\ dcall' = m
    /\ dpc' = IF m.diag \in Procedures THEN "create" ELSE "reply"
    /\ UNCHANGED <<dnew, ivars, fate>>

\* Mutant: no response is built for a procedure that is in progress.
DiagTaskCallSilent(m) ==
    /\ m \in Calls
    /\ DiagTaskHead(m)
    /\ IF m.diag \in Procedures /\ InstancesOf(m.diag) # {}
       THEN UNCHANGED <<dpc, dcall>>
       ELSE dpc' = "create" /\ dcall' = m
    /\ UNCHANGED <<dnew, ivars, fate>>

\* A call: the procedure is looked up and its instances counted, without the
\* mutex.
DiagTaskCall(m) ==
    /\ m \in Calls
    /\ DiagTaskHead(m)
    /\ dcall' = m
    /\ dpc' = IF m.diag \in Procedures /\ InstancesOf(m.diag) = {}
              THEN "create" ELSE "reply"
    /\ UNCHANGED <<dnew, ivars, fate>>

\* LOG and TESTRUN, handled by other modules on the spot, and the
\* notifications that are dropped.
DiagTaskLocal(m) ==
    /\ m \in Locals
    /\ DiagTaskHead(m)
    /\ UNCHANGED <<dpc, dcall, dnew, ivars, fate>>

\* WA_OSA_TaskSignalQuit through the handle of instance i.  The flag it sets may
\* end the procedure early, which InstanceFinish allows at any time.  sa_flags is
\* never initialised, so a thread that is blocked on the collector's queue either
\* goes on waiting or gives up its post.
Signal(i) ==
    \/ UNCHANGED pc
    \/ /\ handle[i] = "valid" /\ pc[i] = "post"
       /\ Len(collectorQ) = CollectorQDeep
       /\ pc' = [pc EXCEPT ![i] = "posted"]

\* DIAG {"break": "#id"}: the instance with that id is signalled, if there is one.
DiagControl(m) ==
    /\ m \in Breaks
    /\ DiagTaskHead(m)
    /\ IF m.inst \in live THEN Signal(m.inst) ELSE UNCHANGED pc
    /\ UNCHANGED <<dpc, dcall, dnew, live, idUsed, diagOf, reqOf, handle, fate>>

\* "Already in progress", "Unknown method", "Cannot create instance".
DiagTaskReply ==
    /\ dpc = "reply"
    /\ Respond(dcall.req)
    /\ dpc' = "receive" /\ dcall' = None
    /\ UNCHANGED <<diagQ, collectorQ, dnew, cvars, xvars, ivars>>

\* CreateProcedureInstance up to the start of the thread.
CreateInstance(i) ==
    /\ dpc = "create"
    /\ dcall.diag \in Procedures
    /\ i \in Ids \ idUsed
    /\ idUsed' = idUsed \cup {i}
    /\ live' = live \cup {i}
    /\ diagOf' = [diagOf EXCEPT ![i] = dcall.diag]
    /\ reqOf' = [reqOf EXCEPT ![i] = dcall.req]
    /\ pc' = [pc EXCEPT ![i] = "start"]
    /\ handle' = [handle EXCEPT ![i] = "unset"]
    /\ dpc' = "store" /\ dcall' = None /\ dnew' = i
    /\ UNCHANGED <<qvars, cvars, xvars, fate>>

\* pInstance->taskHandle = ..., then the mutex is released.
StoreHandle ==
    /\ dpc = "store"
    /\ handle' = [handle EXCEPT ![dnew] = "valid"]
    /\ dpc' = "receive" /\ dnew' = None
    /\ UNCHANGED <<qvars, dcall, cvars, xvars, live, idUsed, diagOf, reqOf, pc, fate>>

\* No id is left: the caller is told so.
CreateNoId ==
    /\ dpc = "create"
    /\ dcall.diag \in Procedures
    /\ Ids \subseteq idUsed
    /\ dpc' = "reply"
    /\ UNCHANGED <<qvars, dcall, dnew, cvars, xvars, ivars, fate>>

\* The procedure is gone, or the list element or the thread cannot be made (the
\* id is released again): status is 0 by then, the call vanishes unanswered.
CreateFails ==
    /\ dpc = "create"
    /\ \/ dcall.diag \notin Procedures
       \/ MayFail /\ ~(Ids \subseteq idUsed)
    /\ Settle(dcall.req, "silent")
    /\ dpc' = "receive" /\ dcall' = None
    /\ UNCHANGED <<qvars, dnew, cvars, xvars, ivars>>

-----------------------------------------------------------------------------
(* InstanceTask of instance i.                                             *)

\* No thread outlives the process, which ends when WA_INIT_Exit returns.
Step(i, from, to) ==
    /\ xpc # "done"
    /\ pc[i] = from
    /\ pc' = [pc EXCEPT ![i] = to]
    /\ UNCHANGED <<diagQ, dvars, cvars, xvars, live, idUsed, diagOf, handle>>

\* Mutant: the goto after the error response is missing.
InstanceStartNoGoto(i) ==
    /\ \/ Step(i, "start", "run") /\ Respond(reqOf[i])
          /\ reqOf' = [reqOf EXCEPT ![i] = None]
       \/ MayFail /\ Step(i, "start", "start") /\ Respond(reqOf[i]) /\ UNCHANGED reqOf
    /\ UNCHANGED collectorQ

\* The caller gets the instance id, or an error when its params cannot be copied.
InstanceStart(i) ==
    /\ \/ Step(i, "start", "run") /\ Respond(reqOf[i])
       \/ MayFail /\ Step(i, "start", "post") /\ Respond(reqOf[i])
    /\ reqOf' = [reqOf EXCEPT ![i] = None]
    /\ UNCHANGED collectorQ

\* WA_DIAG_Send and WA_DIAG_SendProgress from the running procedure.
InstanceProgress(i) ==
    /\ Step(i, "run", "run")
    /\ Notify("event")
    /\ UNCHANGED <<collectorQ, reqOf, fate>>

\* Mutant: the instance is handed to the collector before its eod is sent.
InstanceFinishHandsOver(i) ==
    /\ Step(i, "run", "eod")
    /\ Len(collectorQ) < CollectorQDeep
    /\ collectorQ' = Append(collectorQ, i)
    /\ UNCHANGED <<initQ, reqOf, fate>>

\* The procedure returns; its result goes to the aggregator, which WA_INIT_Exit
\* tears down before it calls WA_DIAG_Exit.
InstanceFinish(i) ==
    /\ Step(i, "run", "eod")
    /\ UNCHANGED <<initQ, collectorQ, reqOf, fate>>

InstanceEod(i) ==
    /\ Step(i, "eod", "post")
    /\ Notify("event")
    /\ UNCHANGED <<collectorQ, reqOf, fate>>

\* Mutant: the queue of the collector has no limit.
InstancePostUnbounded(i) ==
    /\ Step(i, "post", "posted")
    /\ collectorQ' = Append(collectorQ, i)
    /\ UNCHANGED <<initQ, reqOf, fate>>

\* WA_OSA_QSend(collectorQ): blocks while the queue is full.
InstancePost(i) ==
    /\ Step(i, "post", "posted")
    /\ Len(collectorQ) < CollectorQDeep
    /\ collectorQ' = Append(collectorQ, i)
    /\ UNCHANGED <<initQ, reqOf, fate>>

InstanceReturn(i) ==
    /\ Step(i, "posted", "ended")
    /\ UNCHANGED <<initQ, collectorQ, reqOf, fate>>

-----------------------------------------------------------------------------
(* The end of an instance: the collector's, or that of WA_DIAG_Exit.       *)

\* WA_OSA_TaskJoin.  The handle is read without the mutex: if it is not stored
\* yet the call fails (or worse) and the thread is never joined.
Join(i) ==
    \/ /\ handle[i] = "valid" /\ pc[i] = "ended"
       /\ handle' = [handle EXCEPT ![i] = "joined"]
    \/ /\ handle[i] \notin {"valid", "joined"}
       /\ UNCHANGED handle

\* WA_OSA_TaskDestroy.  The handle is read again, and may have come in between.
Destroy(i) ==
    handle' = IF handle[i] = "unset" THEN handle ELSE [handle EXCEPT ![i] = "freed"]

\* CleanupInstance, under the mutex.
CleanupInstance(i) ==
    /\ dpc # "store"
    /\ idUsed' = idUsed \ {i}
    /\ live' = live \ {i}
    /\ diagOf' = [diagOf EXCEPT ![i] = None]
    /\ UNCHANGED reqOf

CollectorReceive ==
    /\ cpc = "receive"
    /\ collectorQ # <<>>
    /\ collectorQ' = Tail(collectorQ)
    /\ cinst' = Head(collectorQ)
    /\ cpc' = IF Head(collectorQ) = None THEN "ended" ELSE "join"
    /\ UNCHANGED <<diagQ, initQ, dvars, xvars, ivars, fate>>

CollectorJoin ==
    /\ cpc = "join" /\ cpc' = "destroy"
    /\ Join(cinst)
    /\ UNCHANGED <<qvars, dvars, cinst, xvars, live, idUsed, diagOf, reqOf, pc, fate>>

\* Mutant: the loop goes on before CleanupInstance.
CollectorDestroyContinues ==
    /\ cpc = "destroy" /\ cpc' = "receive"
    /\ Destroy(cinst)
    /\ cinst' = None
    /\ UNCHANGED <<qvars, dvars, xvars, live, idUsed, diagOf, reqOf, pc, fate>>

CollectorDestroy ==
    /\ cpc = "destroy" /\ cpc' = "cleanup"
    /\ Destroy(cinst)
    /\ UNCHANGED <<qvars, dvars, cinst, xvars, live, idUsed, diagOf, reqOf, pc, fate>>

CollectorCleanup ==
    /\ cpc = "cleanup" /\ cpc' = "receive"
    /\ CleanupInstance(cinst)
    /\ cinst' = None
    /\ UNCHANGED <<qvars, dvars, xvars, pc, handle, fate>>

-----------------------------------------------------------------------------
(* WA_INIT_Exit and WA_DIAG_Exit.                                          *)

ExitStep(from, to) ==
    /\ xpc = from
    /\ xpc' = to
    /\ UNCHANGED <<dvars, cvars>>

\* WA_INIT_Exit: the empty message to AgentTask.
ExitBegin ==
    /\ MayExit /\ Len(initQ) < InitQDeep
    /\ ExitStep("up", "joinAgent")
    /\ initQ' = Append(initQ, None)
    /\ UNCHANGED <<diagQ, collectorQ, xtodo, xinst, ivars, fate>>

ExitStopCollector ==
    /\ ExitStep("stopCollector", "joinCollector")
    /\ Len(collectorQ) < CollectorQDeep
    /\ collectorQ' = Append(collectorQ, None)
    /\ UNCHANGED <<diagQ, initQ, xtodo, xinst, ivars, fate>>

\* Mutant: the collector is not waited for.
ExitJoinCollectorNot ==
    /\ ExitStep("joinCollector", "iterate")
    /\ UNCHANGED <<qvars, xtodo, xinst, ivars, fate>>

ExitJoinCollector ==
    /\ ExitStep("joinCollector", "iterate")
    /\ cpc = "ended"
    /\ UNCHANGED <<qvars, xtodo, xinst, ivars, fate>>

\* The next procedure d: DestroyProcedureInstance signals, joins and cleans up
\* its first instance.  The list element of a freed instance has no successor,
\* so the loop goes to the next procedure.  The lists are read without the mutex.
ExitSignal(d, i) ==
    /\ ExitStep("iterate", "join")
    /\ d \in xtodo /\ i \in InstancesOf(d)
    /\ Signal(i)
    /\ xinst' = i /\ xtodo' = xtodo \ {d}
    /\ UNCHANGED <<qvars, live, idUsed, diagOf, reqOf, handle, fate>>

ExitSkip(d) ==
    /\ ExitStep("iterate", "iterate")
    /\ d \in xtodo /\ InstancesOf(d) = {}
    /\ xtodo' = xtodo \ {d}
    /\ UNCHANGED <<qvars, xinst, ivars, fate>>

ExitJoin ==
    /\ ExitStep("join", "destroy")
    /\ Join(xinst)
    /\ UNCHANGED <<qvars, xtodo, xinst, live, idUsed, diagOf, reqOf, pc, fate>>

ExitDestroy ==
    /\ ExitStep("destroy", "cleanup")
    /\ Destroy(xinst)
    /\ UNCHANGED <<qvars, xtodo, xinst, live, idUsed, diagOf, reqOf, pc, fate>>

ExitCleanup ==
    /\ ExitStep("cleanup", "iterate")
    /\ CleanupInstance(xinst)
    /\ xinst' = None
    /\ UNCHANGED <<qvars, xtodo, pc, handle, fate>>

\* WA_UTILS_LIST_AllocPurge: the procedures and the instance lists in them are
\* freed, whatever DiagTask has put there meanwhile.
ExitPurge ==
    /\ ExitStep("iterate", "stopDiag")
    /\ xtodo = {}
    /\ live' = {}
    /\ UNCHANGED <<qvars, xtodo, xinst, idUsed, diagOf, reqOf, pc, handle, fate>>

\* Mutant: DiagTask is signalled, but gets no empty message.
ExitStopDiagSignalOnly ==
    /\ ExitStep("stopDiag", "joinDiag")
    /\ UNCHANGED <<qvars, xtodo, xinst, ivars, fate>>

\* The empty message to DiagTask, which is signalled as well: no step of its own
\* but a blocked receive is cut short by that, and this message wakes it anyway.
ExitStopDiag ==
    /\ ExitStep("stopDiag", "joinDiag")
    /\ Len(diagQ) < DiagQDeep
    /\ diagQ' = Append(diagQ, None)
    /\ UNCHANGED <<initQ, collectorQ, xtodo, xinst, ivars, fate>>

ExitJoinDiag ==
    /\ ExitStep("joinDiag", "done")
    /\ dpc = "ended"
    /\ UNCHANGED <<qvars, xtodo, xinst, ivars, fate>>

-----------------------------------------------------------------------------
AgentTask == AgentTake \/ AgentStop

DiagTask ==
    \/ DiagTaskEmpty \/ DiagTaskReply \/ StoreHandle \/ CreateNoId \/ CreateFails
    \/ \E m \in Messages : DiagTaskCall(m) \/ DiagTaskLocal(m) \/ DiagControl(m)
    \/ \E i \in Ids : CreateInstance(i)

InstanceTask(i) ==
    \/ InstanceStart(i) \/ InstanceFinish(i) \/ InstanceEod(i)
    \/ InstancePost(i) \/ InstanceReturn(i)

InstancesCollectorTask ==
    CollectorReceive \/ CollectorJoin \/ CollectorDestroy \/ CollectorCleanup

WA_DIAG_Exit ==
    \/ ExitStopCollector \/ ExitJoinCollector
    \/ \E d \in Diags : ExitSkip(d) \/ (\E i \in Ids : ExitSignal(d, i))
    \/ ExitJoin \/ ExitDestroy \/ ExitCleanup
    \/ ExitPurge \/ ExitStopDiag \/ ExitJoinDiag

Next ==
    \/ AgentTask
    \/ \E m \in Messages : AgentDeliver(m)
    \/ DiagTask
    \/ \E i \in Ids : InstanceTask(i) \/ InstanceProgress(i)
    \/ InstancesCollectorTask
    \/ ExitBegin
    \/ WA_DIAG_Exit

Spec == Init /\ [][Next]_vars

\* Every thread that can run does run, AgentTask included; procedures return.
\* The clients and the decision to exit are free.
Fairness ==
    /\ WF_vars(AgentTask)
    /\ WF_vars(DiagTask)
    /\ WF_vars(InstancesCollectorTask)
    /\ WF_vars(WA_DIAG_Exit)
    /\ \A i \in Ids : WF_vars(InstanceTask(i))

FairSpec == Spec /\ Fairness

-----------------------------------------------------------------------------
(* Properties.                                                             *)

TypeOK ==
    /\ diagQ \in Seq(Messages \cup {None}) /\ Len(diagQ) <= DiagQDeep
    /\ initQ \in Seq(Outputs \cup {None}) /\ Len(initQ) <= InitQDeep
    /\ collectorQ \in Seq(Ids \cup {None}) /\ Len(collectorQ) <= CollectorQDeep
    /\ dpc \in DiagSteps /\ dcall \in Calls \cup {None} /\ dnew \in Ids \cup {None}
    /\ cpc \in CollectorSteps /\ cinst \in Ids \cup {None}
    /\ xpc \in ExitSteps /\ xtodo \subseteq Diags /\ xinst \in Ids \cup {None}
    /\ live \subseteq Ids /\ idUsed \subseteq Ids
    /\ diagOf \in [Ids -> Diags \cup {None}] /\ reqOf \in [Ids -> Reqs \cup {None}]
    /\ pc \in [Ids -> InstanceSteps] /\ handle \in [Ids -> Handles]
    /\ fate \in [Reqs -> Fates]

\* A procedure never has two instances at a time, although DiagTask looks the
\* procedure up and counts its instances without the mutex (wa_diag.c:733-736)
\* while the collector and WA_DIAG_Exit remove some.
AtMostOneInstance ==
    \A i, j \in live : diagOf[i] = diagOf[j] => i = j

\* The id of an instance goes back to the id box only when its thread is past its
\* last message: no late message of one instance carries the id of another.  (Until
\* WA_DIAG_Exit destroys instances: it may not wait for one whose handle is unset.)
IdHeldWhileRunning ==
    xpc \in {"up", "joinAgent", "stopCollector", "joinCollector"} =>
        \A i \in Ids : pc[i] \in {"start", "run", "eod", "post"} => i \in idUsed

\* The instances the collector has been handed, and not cleaned up.
Handed == {k \in DOMAIN collectorQ : collectorQ[k] # None}

\* A pointer to an instance in the collector's queue, in the collector's hands or
\* in those of WA_DIAG_Exit is to one that exists, its thread has done with it,
\* and no two of them are to the same: nothing is freed twice or used once freed.
NoDanglingInstance ==
    /\ cpc # "ended" =>
         /\ \A k \in Handed : /\ collectorQ[k] \in live \ {cinst}
                              /\ pc[collectorQ[k]] \in {"posted", "ended"}
         /\ \A k, l \in Handed : collectorQ[k] = collectorQ[l] => k = l
         /\ cinst # None => cinst \in live /\ pc[cinst] \in {"posted", "ended"}
    /\ xinst # None => xinst \in live /\ cpc = "ended"

\* A request is settled once, by DiagTask or by the instance it started, whatever
\* fails and whenever the agent exits.
AnsweredOnce == \A r \in Reqs : fate[r] # "twice"

\* Every instance ends up joined, freed and off its list, so that its procedure
\* can be run again, unless the agent is told to exit.
InstancesCollected == \A i \in Ids : i \in live ~> i \notin live \/ xpc # "up"

\* Every call that reaches DiagTask gets a response, or had one that AgentTask's
\* queue would not take, unless the agent is told to exit.
CallsSettled ==
    \A r \in Reqs : fate[r] = "queued" ~>
        fate[r] \in {"answered", "lost"} \/ xpc # "up"

\* WA_DIAG_Exit returns, whatever the tasks and the procedures are doing.
ExitCompletes == xpc # "up" ~> xpc = "done"

\* The structure of a task is freed once its thread has been joined, and never
\* under a thread that may still run (wa_osa.h:201, the note on
\* WA_OSA_TaskDestroy: "Must be called on inactive task, after WA_OSA_TaskJoin()").
DestroyedAfterJoin ==
    [][\A i \in Ids : handle'[i] = "freed" => handle[i] \in {"joined", "freed"}]_vars

\* A result reaches the aggregator before WA_AGG_Exit "Frees internal aggregator
\* structures" (wa_agg.h:91), the mutex it is guarded by among them.
AggregatorAliveWhenUsed ==
    [][\A i \in Ids : pc[i] = "run" /\ pc'[i] = "eod" => xpc \in {"up", "joinAgent"}]_vars
=============================================================================
