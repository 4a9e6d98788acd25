------------------------- MODULE HwstClient_proofs -------------------------
(***************************************************************************)
(* What the test client guarantees for any number of diags and any jobs.   *)
(***************************************************************************)
EXTENDS HwstClient, TLAPS

-----------------------------------------------------------------------------
(* The invariant.                                                          *)

\* Steps of the worker in which it works on a run.
AtWork == {"collect", "next", "scan", "insert", "issue", "send", "alldone", "report", "reset"}

Open == conn \in {"open", "dropped"}

NoneActive == \A e \in Elem : dstate[e] \in {"disabled", "enabled"}

\* The caller and the worker: the caller takes the connection down only after it
\* has joined the worker, and the worker acts only on a connection that was made.
Control ==
    /\ apc \in {"reset", "lock", "join", "init", "gone"} => wpc = "none"
    /\ wpc \in AtWork => comm
    /\ wpc = "wait" /\ connected => comm
    /\ apc = "connect" => wpc = "wait" /\ ~cbHappened /\ ~connected /\ comm
    /\ apc \in {"init", "lock", "join"} => ~comm
    /\ holder = "worker" => wpc = "join"

\* The state of the scheduler as the caller sees it.
Phases ==
    /\ wpc \notin {"none", "ended"} => hstate = "running"
    /\ hstate = "idle" => ~comm /\ wpc = "none"
    /\ apc = "init" => hstate = "idle"
    /\ apc \in {"stop", "reset", "lock", "join"} =>
          /\ why = "issue" => hstate = "finished"
          /\ why = "failed" =>
                /\ wpc \in {"wait", "ended", "none"} /\ ~connected
                /\ wpc # "wait" => hstate = "finished"

\* The connection: a looper only while there is one, and a message only in its hands.
Connection ==
    /\ conn = "none" => lpc = "none" /\ \A e \in Elem : agent[e] = "none"
    /\ conn = "closed" => lpc # "lock"
    /\ lpc = "lock" <=> lmsg # NoMsg
    /\ ~comm => byId = {} /\ byInst = {}
    /\ ~comm /\ wpc \notin {"lock", "join"} /\ apc \notin {"lock", "join"} => conn = "none"
    /\ apc = "connect" => conn = "none" /\ NoneActive

\* What the agent has done about a diag, and what the client knows of it.
Agreed ==
    comm /\ Open =>
        /\ \A e \in Elem : agent[e] # "none" => dstate[e] \in Active \cup Done
        /\ \A e \in Elem : dstate[e] \in Done => agent[e] = "over"
        /\ lmsg # NoMsg => /\ lmsg.e \in Elem /\ dstate[lmsg.e] \in Active
                           /\ lmsg.k \in {"null", "error", "eod"} => agent[lmsg.e] = "over"
        /\ wpc = "send" => dstate[wnext] = "issued" /\ agent[wnext] = "none" /\ lmsg.e # wnext

\* The maps: an instance is known of diags that run or ran, and what is issued next
\* is in the map unless the connection has gone.
Mapped ==
    /\ \A e \in byInst : dstate[e] \in {"running"} \cup Done
    /\ lmsg.k = "error" => lmsg.e \in mute
    /\ wpc = "issue" => wnext \in byId \/ ~Open
    /\ \A e \in Elem : dstate[e] \in Active => e \in byId \cup byInst \cup mute \/ ~Open

\* The worker issues what was ready, and until the capabilities have come nothing
\* else is.
Ready ==
    /\ wpc \in {"insert", "issue"} => dstate[wnext] = "enabled" /\ DependenciesDone(wnext)
    /\ AllJobs /\ ~retrieved => \A e \in Elem \ {Caps} : dstate[e] = "disabled"
    /\ DependencyFirst

\* At the end of a run nothing is left for the agent to say.
Ending ==
    wpc \in {"report", "reset", "lock", "join"} =>
        /\ lmsg = NoMsg
        /\ conn = "open" => \A e \in Elem : agent[e] \in {"none", "over"}

\* The threads on the one hand, the diags on the other.
Threading == Control /\ Phases /\ Connection

Diagnosing == Agreed /\ Mapped /\ Ready /\ Ending

HInv == HwstTypeOK /\ Threading /\ Diagnosing

-----------------------------------------------------------------------------
(* Types.                                                                  *)

LEMMA InitTypes == HwstInit => HwstTypeOK
<1> SUFFICES ASSUME HwstInit PROVE HwstTypeOK
  OBVIOUS
<1>1. {Caps} \in SUBSET Elem /\ 1 \in Elem
  BY HwstAssumption DEF Elem, Caps
<1>2. summary \in Seq(Elem)
  BY DEF HwstInit
<1>3. dstate \in [Elem -> DiagStates] /\ modified \in [Elem -> BOOLEAN]
      /\ agent \in [Elem -> {"none", "asked", "started", "progressed", "over"}]
  BY DEF HwstInit, DiagStates
<1>4. lmsg \in MessagesToClient /\ wpc \in WorkerSteps /\ apc \in CallerSteps
  BY DEF HwstInit, MessagesToClient, WorkerSteps, CallerSteps
<1> QED
  BY <1>1, <1>2, <1>3, <1>4 DEF HwstInit, HwstTypeOK

\* The diag keeps a state and a mark whatever is done to it.
LEMMA SetTypes ==
    ASSUME HwstTypeOK, NEW e \in Elem,
           SetIssued(e) \/ SetError(e) \/ SetFinished(e) \/ SetProgress(e)
    PROVE  dstate' \in [Elem -> DiagStates] /\ modified' \in [Elem -> BOOLEAN]
BY DEF HwstTypeOK, SetIssued, SetError, SetFinished, SetProgress, SetState, DiagStates, Active, Done

LEMMA FailTypes ==
    ASSUME HwstTypeOK, FailAll
    PROVE  /\ dstate' \in [Elem -> DiagStates] /\ modified' \in [Elem -> BOOLEAN]
           /\ fresh' \in SUBSET Elem /\ byId' = {} /\ byInst' = {}
           /\ connected' = FALSE /\ cbHappened' = TRUE
BY DEF HwstTypeOK, FailAll, CbDisconnected, DiagStates, Done

LEMMA CommResetTypes ==
    ASSUME HwstTypeOK, CommReset, wpc' \in WorkerSteps, apc' \in CallerSteps
    PROVE  HwstTypeOK'
<1>1. /\ dstate' \in [Elem -> DiagStates] /\ modified' \in [Elem -> BOOLEAN]
      /\ fresh' \in SUBSET Elem /\ byId' = {} /\ byInst' = {}
      /\ connected' = FALSE /\ cbHappened' = TRUE
  BY FailTypes DEF CommReset
<1>2. byId' \in SUBSET Elem /\ byInst' \in SUBSET Elem /\ comm' \in BOOLEAN
      /\ connected' \in BOOLEAN /\ cbHappened' \in BOOLEAN
  BY <1>1 DEF CommReset
<1> QED
  BY <1>1, <1>2 DEF HwstTypeOK, CommReset

LEMMA DisconnectTypes ==
    ASSUME HwstTypeOK, NEW t \in Threads, DisconnectLock(t) \/ DisconnectJoin(t),
           wpc' \in WorkerSteps, apc' \in CallerSteps,
           hstate' \in {"idle", "running", "finished"}, why' \in {"issue", "failed", "destroy"}
    PROVE  HwstTypeOK'
BY DEF HwstTypeOK, DisconnectLock, DisconnectJoin, hflags, hdiags, hhist, CbDisconnected

LEMMA LooperTypes ==
    ASSUME HwstTypeOK,
           \/ \E e \in Elem, k \in Kinds : LooperTake(e, k)
           \/ \E e \in Elem : AgentMute(e)
           \/ AgentDrop
           \/ Looper
    PROVE  HwstTypeOK'
<1>1. CASE \E e \in Elem, k \in Kinds : LooperTake(e, k)
  BY <1>1 DEF HwstTypeOK, LooperTake, AgentAfter, MessagesToClient, hflags, hdiags
<1>2. CASE \E e \in Elem : AgentMute(e)
  BY <1>2 DEF HwstTypeOK, AgentMute, hflags, hdiags
<1>3. CASE AgentDrop
  BY <1>3 DEF HwstTypeOK, AgentDrop, hflags, hdiags, hhist
<1>4. CASE LooperHandle
  <2>1. /\ dstate' \in [Elem -> DiagStates] /\ modified' \in [Elem -> BOOLEAN]
        /\ byId' \in SUBSET Elem /\ byInst' \in SUBSET Elem
    BY <1>4, SetTypes DEF HwstTypeOK, LooperHandle, HandleResult, HandleNull, HandleError,
       HandleProgress, HandleEod, hdiags
  <2> QED
    BY <1>4, <2>1 DEF HwstTypeOK, LooperHandle, hflags, MessagesToClient, Threads
<1>5. CASE LooperNotify
  BY <1>5 DEF HwstTypeOK, LooperNotify, CbUpdate, hdiags, hhist
<1>6. CASE LooperClosed
  BY <1>6, FailTypes DEF HwstTypeOK, LooperClosed
<1>7. CASE LooperEnd
  BY <1>7 DEF HwstTypeOK, LooperEnd, hflags, hdiags, hhist
<1> QED
  BY <1>1, <1>2, <1>3, <1>4, <1>5, <1>6, <1>7 DEF Looper

\* One step of the worker to another.
LEMMA LoopedTypes == ASSUME Looped PROVE wpc' \in WorkerSteps
BY DEF Looped, WorkerSteps

LEMMA WorkerResetTypes == ASSUME HwstTypeOK, WorkerReset PROVE HwstTypeOK'
<1>1. CASE ~crashed /\ wpc = "reset" /\ CommReset /\ wpc' = "lock" /\ UNCHANGED apc
  <2>1. wpc' \in WorkerSteps /\ apc' \in CallerSteps
    BY <1>1 DEF HwstTypeOK, WorkerSteps
  <2> QED
    BY <1>1, <2>1, CommResetTypes
<1>2. CASE ~crashed /\ wpc = "lock" /\ DisconnectLock("worker") /\ wpc' = "join" /\ UNCHANGED apc
  <2>1. /\ wpc' \in WorkerSteps /\ apc' \in CallerSteps /\ "worker" \in Threads
        /\ hstate' \in {"idle", "running", "finished"} /\ why' \in {"issue", "failed", "destroy"}
    BY <1>2 DEF HwstTypeOK, WorkerSteps, Threads, DisconnectLock
  <2> QED
    BY <1>2, <2>1, DisconnectTypes
<1>3. CASE ~crashed /\ wpc = "join" /\ DisconnectJoin("worker") /\ Looped
           /\ UNCHANGED <<hstate, apc, why>>
  <2>1. /\ wpc' \in WorkerSteps /\ apc' \in CallerSteps /\ "worker" \in Threads
        /\ hstate' \in {"idle", "running", "finished"} /\ why' \in {"issue", "failed", "destroy"}
    BY <1>3, LoopedTypes DEF HwstTypeOK, Threads
  <2> QED
    BY <1>3, <2>1, DisconnectTypes
<1> QED
  BY <1>1, <1>2, <1>3 DEF WorkerReset

LEMMA WorkerTypes == ASSUME HwstTypeOK, Worker PROVE HwstTypeOK'
<1> USE DEF WorkerSteps
<1>1. CASE WorkerWait
  <2>1. wnext' \in Elem /\ fresh' \in SUBSET Elem
    <3>1. 1 \in Elem
      BY HwstAssumption DEF Elem
    <3>2. wnext' \in {wnext, 1} /\ fresh' \in {fresh, {}}
      BY <1>1 DEF WorkerWait
    <3> QED
      BY <3>1, <3>2 DEF HwstTypeOK
  <2>2. wpc' \in WorkerSteps
    BY <1>1, LoopedTypes DEF WorkerWait
  <2> QED
    BY <1>1, <2>1, <2>2 DEF HwstTypeOK, WorkerWait, hdiags
<1>2. CASE WorkerCollect
  <2>1. wnext' \in Elem
    BY <1>2, HwstAssumption DEF HwstTypeOK, WorkerCollect, LastElement, Elem
  <2>2. summary' \in Seq(Elem)
    BY <1>2 DEF HwstTypeOK, WorkerCollect
  <2> QED
    BY <1>2, <2>1, <2>2 DEF HwstTypeOK, WorkerCollect, hflags, hhist
<1>3. ASSUME NEW named \in SUBSET Elem, EnableCapable(named) PROVE HwstTypeOK'
  <2>1. dstate' \in [Elem -> DiagStates]
    BY <1>3 DEF HwstTypeOK, EnableCapable, DiagStates
  <2>2. wnext' \in Elem
    BY <1>3, HwstAssumption DEF EnableCapable, ScanFromFirst, Elem
  <2> QED
    BY <1>3, <2>1, <2>2 DEF HwstTypeOK, EnableCapable, ScanFromFirst, hflags, hhist
<1>4. CASE WorkerNext
  BY <1>4, HwstAssumption DEF HwstTypeOK, WorkerNext, ScanFromFirst, hflags, hdiags, hhist, Elem
<1>11. CASE WorkerScan
  <2>1. wnext' \in Elem
    BY <1>11, HwstAssumption DEF HwstTypeOK, WorkerScan, LastElement, Elem
  <2>2. wpc' \in WorkerSteps
    BY <1>11, LoopedTypes DEF WorkerScan
  <2> QED
    BY <1>11, <2>1, <2>2 DEF HwstTypeOK, WorkerScan, hflags, hdiags, hhist
<1>12. CASE WorkerAllDone
  <2>1. wpc' \in WorkerSteps
    BY <1>12, LoopedTypes DEF WorkerAllDone
  <2> QED
    BY <1>12, <2>1 DEF HwstTypeOK, WorkerAllDone, hflags, hdiags, hhist
<1>5. CASE WorkerInsert
  BY <1>5 DEF HwstTypeOK, WorkerInsert, hflags, hhist
<1>6. CASE WorkerIssue
  BY <1>6, SetTypes DEF HwstTypeOK, WorkerIssue, hflags, hhist
<1>7. CASE WorkerSend
  BY <1>7, HwstAssumption DEF HwstTypeOK, WorkerSend, hflags, hdiags, hhist, Elem
<1>8. CASE WorkerSendFails
  BY <1>8 DEF HwstTypeOK, WorkerSendFails, Crash, hflags, hdiags, hhist
<1>9. CASE WorkerReport
  <2>1. modified' \in [Elem -> BOOLEAN]
    BY <1>9 DEF HwstTypeOK, WorkerReport, TelemetryLog
  <2> QED
    BY <1>9, <2>1 DEF HwstTypeOK, WorkerReport, hflags, hhist
<1>10. CASE WorkerReset
  BY <1>10, WorkerResetTypes
<1> QED
  BY <1>1, <1>2, <1>3, <1>4, <1>5, <1>6, <1>7, <1>8, <1>9, <1>10, <1>11, <1>12 DEF Worker

LEMMA AfterResetTypes ==
    ASSUME HwstTypeOK, AfterReset
    PROVE  /\ apc' \in {"init", "ready", "gone"} /\ why' \in {"issue", "failed", "destroy"}
           /\ hstate' \in {"idle", "running", "finished"}
BY DEF HwstTypeOK, AfterReset

\* ~Comm by the caller, step by step.
CallerResetNone ==
    /\ ~crashed /\ apc = "reset" /\ ~comm
    /\ AfterReset
    /\ UNCHANGED <<hflags, summary, jobs, retrieved, hdiags, comm, conn, holder,
                   lpc, lmsg, wpc, wnext, agent, crashed, hhist>>

CallerResetStarts == ~crashed /\ apc = "reset" /\ comm /\ CommReset /\ apc' = "lock" /\ UNCHANGED wpc

CallerResetIdle ==
    /\ ~crashed /\ apc = "lock" /\ conn = "none" /\ holder = "none"
    /\ AfterReset
    /\ UNCHANGED <<hflags, summary, jobs, retrieved, hdiags, comm, conn, holder,
                   lpc, lmsg, wpc, wnext, agent, crashed, hhist>>

CallerResetLocks == ~crashed /\ apc = "lock" /\ DisconnectLock("caller") /\ apc' = "join" /\ UNCHANGED wpc

CallerResetJoins == ~crashed /\ apc = "join" /\ DisconnectJoin("caller") /\ AfterReset /\ UNCHANGED wpc

LEMMA CallerResetCases ==
    CallerReset <=> \/ CallerResetNone \/ CallerResetStarts \/ CallerResetIdle
                    \/ CallerResetLocks \/ CallerResetJoins
BY DEF CallerReset, CallerResetNone, CallerResetStarts, CallerResetIdle, CallerResetLocks,
   CallerResetJoins

LEMMA CallerResetTypes == ASSUME HwstTypeOK, CallerReset PROVE HwstTypeOK'
<1> USE DEF CallerSteps
<1>1. CASE CallerResetNone
  BY <1>1, AfterResetTypes DEF HwstTypeOK, CallerResetNone, hflags, hdiags, hhist
<1>2. CASE CallerResetStarts
  <2>1. wpc' \in WorkerSteps /\ apc' \in CallerSteps
    BY <1>2 DEF HwstTypeOK, CallerResetStarts
  <2> QED
    BY <1>2, <2>1, CommResetTypes DEF CallerResetStarts
<1>3. CASE CallerResetIdle
  BY <1>3, AfterResetTypes DEF HwstTypeOK, CallerResetIdle, hflags, hdiags, hhist
<1>4. CASE CallerResetLocks
  <2>1. /\ wpc' \in WorkerSteps /\ apc' \in CallerSteps /\ "caller" \in Threads
        /\ hstate' \in {"idle", "running", "finished"} /\ why' \in {"issue", "failed", "destroy"}
    BY <1>4 DEF HwstTypeOK, CallerResetLocks, Threads, DisconnectLock
  <2> QED
    BY <1>4, <2>1, DisconnectTypes DEF CallerResetLocks
<1>5. CASE CallerResetJoins
  <2>1. /\ wpc' \in WorkerSteps /\ apc' \in CallerSteps /\ "caller" \in Threads
        /\ hstate' \in {"idle", "running", "finished"} /\ why' \in {"issue", "failed", "destroy"}
    BY <1>5, AfterResetTypes DEF HwstTypeOK, CallerResetJoins, Threads
  <2> QED
    BY <1>5, <2>1, DisconnectTypes DEF CallerResetJoins
<1> QED
  BY <1>1, <1>2, <1>3, <1>4, <1>5, CallerResetCases

LEMMA CallerTypes == ASSUME HwstTypeOK, IssueCall \/ Destroy \/ Caller PROVE HwstTypeOK'
<1> USE DEF CallerSteps
<1>1. CASE IssueCall
  BY <1>1 DEF HwstTypeOK, IssueCall, StopWorker, hdiags, hhist
<1>2. CASE Destroy
  <2>1. working' \in BOOLEAN /\ cbHappened' \in BOOLEAN /\ apc' \in CallerSteps
    BY <1>2 DEF HwstTypeOK, Destroy, StopWorker
  <2> QED
    BY <1>2, <2>1 DEF HwstTypeOK, Destroy, hdiags, hhist
<1>3. CASE CallerJoinsWorker
  BY <1>3 DEF HwstTypeOK, CallerJoinsWorker, hflags, hdiags, hhist, WorkerSteps
<1>4. CASE CallerReset
  BY <1>4, CallerResetTypes
<1>5. ASSUME NEW js \in JobSets, IssueInit(js) PROVE HwstTypeOK'
  <2>1. dstate' \in [Elem -> DiagStates] /\ modified' \in [Elem -> BOOLEAN] /\ jobs' \in SUBSET Elem
    BY <1>5, HwstAssumption DEF IssueInit, FirstEnabled, DiagStates
  <2> QED
    BY <1>5, <2>1 DEF HwstTypeOK, IssueInit, WorkerSteps
<1>6. CASE IssueConnect
  BY <1>6 DEF HwstTypeOK, IssueConnect, CbConnected, hdiags, hhist
<1>7. CASE IssueConnectFails
  BY <1>7 DEF HwstTypeOK, IssueConnectFails, StopWorker, hdiags, hhist
<1>8. CASE IssueClear
  BY <1>8 DEF HwstTypeOK, IssueClear, ToSet, hflags, hdiags
<1>9. CASE IssueAnnounce
  BY <1>9 DEF HwstTypeOK, IssueAnnounce, hflags, hdiags, hhist
<1>10. CASE IssueAnnounceCrashes
  BY <1>10 DEF HwstTypeOK, IssueAnnounceCrashes, Crash, hflags, hdiags, hhist
<1> QED
  BY <1>1, <1>2, <1>3, <1>4, <1>5, <1>6, <1>7, <1>8, <1>9, <1>10 DEF Caller

LEMMA StutterTypes == ASSUME HwstTypeOK, UNCHANGED hvars PROVE HwstTypeOK'
BY DEF HwstTypeOK, hvars, hflags, hdiags, hhist

LEMMA NextTypes == ASSUME HwstTypeOK, [HwstNext]_hvars PROVE HwstTypeOK'
BY LooperTypes, WorkerTypes, CallerTypes, StutterTypes DEF HwstNext

\* Every variable keeps to its type, for any number of diags.
THEOREM HwstTypes == HwstSpec => []HwstTypeOK
BY InitTypes, NextTypes, PTL DEF HwstSpec

-----------------------------------------------------------------------------
(* Threads, phases and the connection.                                     *)

LEMMA InitThreading == HwstInit => Threading
BY DEF HwstInit, Threading, Control, Phases, Connection, AtWork, NoMsg

LEMMA NoMsgIsNone == ASSUME NEW e \in Elem, NEW k \in Kinds PROVE [e |-> e, k |-> k] # NoMsg
BY HwstAssumption DEF NoMsg, Kinds, Elem

LEMMA LooperThreading ==
    ASSUME HwstTypeOK, Threading,
           \/ \E e \in Elem, k \in Kinds : LooperTake(e, k)
           \/ \E e \in Elem : AgentMute(e)
           \/ AgentDrop
           \/ Looper
    PROVE  Threading'
<1> USE DEF Threading, Control, Phases, Connection, AtWork, NoneActive
<1>1. CASE \E e \in Elem, k \in Kinds : LooperTake(e, k)
  BY <1>1, NoMsgIsNone DEF LooperTake, hflags, hdiags
<1>2. CASE \E e \in Elem : AgentMute(e)
  BY <1>2 DEF AgentMute, hflags, hdiags
<1>3. CASE AgentDrop
  BY <1>3 DEF AgentDrop, hflags, hdiags, hhist
<1>4. CASE LooperHandle
  <2>1. apc # "connect"
    BY <1>4 DEF LooperHandle
  <2>2. byId = {} /\ byInst = {} => byId' = {} /\ byInst' = {}
    BY <1>4 DEF LooperHandle, HandleResult, HandleNull, HandleError, HandleProgress, HandleEod, hdiags
  <2> QED
    BY <1>4, <2>1, <2>2 DEF LooperHandle, hflags
<1>5. CASE LooperNotify
  BY <1>5 DEF LooperNotify, CbUpdate, hdiags, hhist
<1>6. CASE LooperClosed
  <2>1. apc # "connect"
    BY <1>6 DEF LooperClosed
  <2> QED
    BY <1>6, <2>1, FailTypes DEF LooperClosed
<1>7. CASE LooperEnd
  BY <1>7 DEF LooperEnd, hflags, hdiags, hhist
<1> QED
  BY <1>1, <1>2, <1>3, <1>4, <1>5, <1>6, <1>7 DEF Looper

LEMMA WorkerThreading == ASSUME HwstTypeOK, Threading, Worker PROVE Threading'
<1> USE DEF Threading, Control, Phases, Connection, AtWork
<1>0. wpc \notin {"none", "ended"} /\ wpc # "wait" => apc # "connect"
  OBVIOUS
<1>1. CASE WorkerWait
  BY <1>1 DEF WorkerWait, Looped, hdiags, NoneActive
<1>2. CASE WorkerCollect
  BY <1>0, <1>2 DEF WorkerCollect, hflags, hhist
<1>3. ASSUME NEW named \in SUBSET Elem, EnableCapable(named) PROVE Threading'
  BY <1>0, <1>3 DEF EnableCapable, ScanFromFirst, hflags, hhist
<1>4. CASE WorkerNext
  BY <1>0, <1>4 DEF WorkerNext, ScanFromFirst, hflags, hdiags, hhist
<1>13. CASE WorkerScan
  BY <1>0, <1>13 DEF WorkerScan, Looped, hflags, hdiags, hhist
<1>14. CASE WorkerAllDone
  BY <1>0, <1>14 DEF WorkerAllDone, Looped, hflags, hdiags, hhist
<1>5. CASE WorkerInsert
  BY <1>0, <1>5 DEF WorkerInsert, hflags, hhist
<1>6. CASE WorkerIssue
  BY <1>0, <1>6 DEF WorkerIssue, hflags, hhist
<1>7. CASE WorkerSend
  BY <1>0, <1>7 DEF WorkerSend, hflags, hdiags, hhist
<1>8. CASE WorkerSendFails
  BY <1>8 DEF WorkerSendFails, Crash, hflags, hdiags, hhist, NoneActive
<1>9. CASE WorkerReport
  BY <1>0, <1>9 DEF WorkerReport, hflags, hhist
<1>10. CASE ~crashed /\ wpc = "reset" /\ CommReset /\ wpc' = "lock" /\ UNCHANGED apc
  BY <1>0, <1>10, FailTypes DEF CommReset
<1>11. CASE ~crashed /\ wpc = "lock" /\ DisconnectLock("worker") /\ wpc' = "join" /\ UNCHANGED apc
  BY <1>0, <1>11 DEF DisconnectLock, hflags, hdiags, hhist
<1>12. CASE ~crashed /\ wpc = "join" /\ DisconnectJoin("worker") /\ Looped
            /\ UNCHANGED <<hstate, apc, why>>
  BY <1>0, <1>12 DEF DisconnectJoin, Looped, CbDisconnected, hdiags, hhist
<1> QED
  BY <1>1, <1>2, <1>3, <1>4, <1>5, <1>6, <1>7, <1>8, <1>9, <1>10, <1>11, <1>12, <1>13, <1>14
     DEF Worker, WorkerReset

LEMMA CallerThreading ==
    ASSUME HwstTypeOK, Threading, IssueCall \/ Destroy \/ Caller
    PROVE  Threading'
<1> USE DEF Threading, Control, Phases, Connection, AtWork
<1>1. CASE IssueCall
  BY <1>1 DEF IssueCall, StopWorker, hdiags, hhist
<1>2. CASE Destroy
  BY <1>2 DEF Destroy, StopWorker, hdiags, hhist
<1>3. CASE CallerJoinsWorker
  BY <1>3 DEF CallerJoinsWorker, hflags, hdiags, hhist
<1>4. CASE CallerResetNone
  BY <1>4 DEF CallerResetNone, AfterReset, HwstTypeOK, hflags, hdiags, hhist
<1>5. CASE CallerResetStarts
  BY <1>5, FailTypes DEF CallerResetStarts, CommReset
<1>6. CASE CallerResetIdle
  BY <1>6 DEF CallerResetIdle, AfterReset, HwstTypeOK, hflags, hdiags, hhist
<1>7. CASE CallerResetLocks
  BY <1>7 DEF CallerResetLocks, DisconnectLock, hflags, hdiags, hhist
<1>8. CASE CallerResetJoins
  BY <1>8 DEF CallerResetJoins, DisconnectJoin, AfterReset, CbDisconnected, HwstTypeOK, hdiags, hhist
<1>9. ASSUME NEW js \in JobSets, IssueInit(js) PROVE Threading'
  <2>1. NoneActive'
    BY <1>9 DEF IssueInit, FirstEnabled, NoneActive
  <2> QED
    BY <1>9, <2>1 DEF IssueInit
<1>10. CASE IssueConnect
  BY <1>10 DEF IssueConnect, CbConnected, hdiags, hhist
<1>11. CASE IssueConnectFails
  BY <1>11 DEF IssueConnectFails, StopWorker, hdiags, hhist
<1>12. CASE IssueClear
  BY <1>12 DEF IssueClear, hflags, hdiags
<1>13. CASE IssueAnnounce
  BY <1>13 DEF IssueAnnounce, hflags, hdiags, hhist
<1>14. CASE IssueAnnounceCrashes
  BY <1>14 DEF IssueAnnounceCrashes, Crash, hflags, hdiags, hhist
<1> QED
  BY <1>1, <1>2, <1>3, <1>4, <1>5, <1>6, <1>7, <1>8, <1>9, <1>10, <1>11, <1>12, <1>13, <1>14,
     CallerResetCases DEF Caller

LEMMA NextThreading == ASSUME HwstTypeOK, Threading, [HwstNext]_hvars PROVE Threading'
<1>1. CASE UNCHANGED hvars
  BY <1>1 DEF Threading, Control, Phases, Connection, NoneActive, hvars, hflags, hdiags, hhist
<1> QED
  BY <1>1, LooperThreading, WorkerThreading, CallerThreading DEF HwstNext

-----------------------------------------------------------------------------
(* What becomes of the diags.                                              *)

\* Nothing but what runs, or is issued, changes on its own: it runs, or is done.
Evolves ==
    \A e \in Elem :
        \/ dstate'[e] = dstate[e]
        \/ dstate[e] \in Active /\ dstate'[e] \in {"running"} \cup Done

LEMMA FailEvolves == ASSUME HwstTypeOK, FailAll PROVE Evolves
BY DEF HwstTypeOK, FailAll, Evolves, Done

\* What is ready stays ready, and no dependency is lost.
LEMMA EvolvesReady ==
    ASSUME HwstTypeOK, HwstTypeOK', Ready, Evolves,
           wpc' \in {"insert", "issue"} => wpc \in {"insert", "issue"} /\ wnext' = wnext,
           UNCHANGED <<jobs, retrieved>>
    PROVE  Ready'
<1>1. AllJobs' = AllJobs /\ \A e \in Elem : Dependencies(e)' = Dependencies(e)
  BY DEF AllJobs, Dependencies
<1>2. ASSUME NEW e \in Elem, DependenciesDone(e) PROVE DependenciesDone(e)'
  <2>1. Dependencies(e) \subseteq Elem
    BY HwstAssumption DEF Dependencies, Caps, Elem
  <2> QED
    BY <1>1, <1>2, <2>1 DEF DependenciesDone, Evolves, Active
<1>3. wpc' \in {"insert", "issue"} => dstate'[wnext'] = "enabled" /\ DependenciesDone(wnext)'
  BY <1>2 DEF Ready, Evolves, HwstTypeOK, Active
<1>4. AllJobs' /\ ~retrieved' => \A e \in Elem \ {Caps} : dstate'[e] = "disabled"
  BY <1>1 DEF Ready, Evolves, Active
<1>5. DependencyFirst'
  BY <1>2 DEF Ready, DependencyFirst, Evolves
<1> QED
  BY <1>3, <1>4, <1>5 DEF Ready, DependenciesDone, Dependencies

\* Steps that leave the diags alone.
LEMMA StillReady ==
    ASSUME HwstTypeOK, HwstTypeOK', Ready,
           wpc' \in {"insert", "issue"} => wpc \in {"insert", "issue"} /\ wnext' = wnext,
           UNCHANGED <<dstate, jobs, retrieved>>
    PROVE  Ready'
BY EvolvesReady DEF Evolves

LEMMA InitDiagnosing == HwstInit => Diagnosing
<1> SUFFICES ASSUME HwstInit PROVE Diagnosing
  OBVIOUS
<1>1. \A e \in Elem : dstate[e] = "disabled" /\ agent[e] = "none"
  BY DEF HwstInit
<1> QED
  BY <1>1 DEF HwstInit, Diagnosing, Agreed, Mapped, Ready, Ending, DependencyFirst, NoMsg, Open,
     Active, Done

\* The message the looper holds: about a diag that waits for the agent.
LEMMA Held ==
    ASSUME HInv, lpc = "lock"
    PROVE  /\ Open /\ lmsg # NoMsg
           /\ comm => /\ lmsg.e \in Elem /\ dstate[lmsg.e] \in Active
                      /\ lmsg.k \in {"null", "error", "eod"} => agent[lmsg.e] = "over"
           /\ ~comm => byId = {} /\ byInst = {}
BY DEF HInv, Threading, Diagnosing, Connection, Agreed, Open, HwstTypeOK

\* What a message does to the diag it is about.
LEMMA Handled ==
    ASSUME HInv, LooperHandle
    PROVE  /\ Evolves
           /\ \A x \in Elem : x # lmsg.e => dstate'[x] = dstate[x]
           /\ \A x \in Elem : dstate'[x] \in Done /\ dstate[x] \notin Done =>
                 x = lmsg.e /\ lmsg.k \in {"null", "eod"}
           /\ ~comm => UNCHANGED <<dstate, byInst>> /\ byId' = {}
           /\ \A x \in byId : x # lmsg.e => x \in byId'
           /\ \A x \in byInst : x # lmsg.e => x \in byInst'
           /\ \A x \in byInst' : x \in byInst \/ dstate'[x] = "running"
           /\ lmsg.e \in byId \cup byInst /\ lmsg.e \in Elem =>
                 lmsg.e \in byId' \cup byInst' \/ lmsg.k = "error" \/ dstate'[lmsg.e] \notin Active
<1> DEFINE e == lmsg.e
<1>1. lpc = "lock" /\ byId \subseteq Elem /\ byInst \subseteq Elem
  BY DEF LooperHandle, HInv, HwstTypeOK
<1>2. comm => e \in Elem /\ dstate[e] \in Active
  BY <1>1, Held
<1>3. ~comm => byId = {} /\ byInst = {}
  BY <1>1, Held
<1>4. byInst \subseteq {x \in Elem : dstate[x] \in {"running"} \cup Done}
  BY <1>1 DEF HInv, Diagnosing, Mapped
<1>5. HwstTypeOK
  BY DEF HInv
<1>6. CASE lmsg.k = "result" /\ HandleResult(e)
  BY <1>1, <1>2, <1>3, <1>4, <1>5, <1>6 DEF HandleResult, SetProgress, Evolves, Active, Done, HwstTypeOK, hdiags
<1>7. CASE lmsg.k = "null" /\ HandleNull(e)
  BY <1>1, <1>2, <1>3, <1>4, <1>5, <1>7 DEF HandleNull, SetError, SetState, Evolves, Active, Done, HwstTypeOK, hdiags
<1>8. CASE lmsg.k = "error" /\ HandleError(e)
  BY <1>1, <1>2, <1>3, <1>4, <1>5, <1>8 DEF HandleError, Evolves, Active, Done, HwstTypeOK
<1>9. CASE lmsg.k = "progress" /\ HandleProgress
  BY <1>1, <1>2, <1>3, <1>4, <1>5, <1>9 DEF HandleProgress, Evolves, Active, Done, HwstTypeOK, hdiags
<1>10. CASE lmsg.k = "eod" /\ HandleEod(e)
  BY <1>1, <1>2, <1>3, <1>4, <1>5, <1>10 DEF HandleEod, SetFinished, SetState, Evolves, Active, Done, HwstTypeOK, hdiags
<1> QED
  BY <1>6, <1>7, <1>8, <1>9, <1>10 DEF LooperHandle

-----------------------------------------------------------------------------
(* Diags, maps and agent: what the looper, the agent and the worker do.    *)

LEMMA TakeDiagnosing ==
    ASSUME HInv, HwstTypeOK', NEW e \in Elem, NEW k \in Kinds, LooperTake(e, k)
    PROVE  Diagnosing'
<1> USE DEF Diagnosing, HInv
<1>1. /\ UNCHANGED <<dstate, byId, byInst, comm, conn, wpc, wnext, jobs, retrieved>>
      /\ lmsg' = [e |-> e, k |-> k] /\ conn = "open" /\ lpc = "loop"
      /\ mute' = (IF k = "error" THEN mute \cup {e} ELSE mute)
  BY DEF LooperTake, hdiags
<1>2. /\ agent[e] \in {"asked", "started", "progressed"}
      /\ agent' = [agent EXCEPT ![e] = AgentAfter(k)]
      /\ k \in {"null", "error", "eod"} => AgentAfter(k) = "over"
  BY DEF LooperTake, Sendable, AgentAfter
<1>3. Agreed'
  BY <1>1, <1>2 DEF Agreed, Open, HwstTypeOK
<1>4. Mapped'
  BY <1>1 DEF Mapped, Open
<1>5. Ready'
  BY <1>1, StillReady
<1>6. Ending'
  BY <1>1, <1>2 DEF Ending
<1> QED
  BY <1>3, <1>4, <1>5, <1>6

LEMMA MuteDiagnosing ==
    ASSUME HInv, HwstTypeOK', NEW e \in Elem, AgentMute(e)
    PROVE  Diagnosing'
<1> USE DEF Diagnosing, HInv
<1>1. /\ UNCHANGED <<dstate, byId, byInst, comm, conn, lmsg, wpc, wnext, jobs, retrieved>>
      /\ mute' = mute \cup {e} /\ conn = "open"
  BY DEF AgentMute, hdiags
<1>2. /\ agent[e] \in {"asked", "started", "progressed"}
      /\ \A x \in Elem : x # e => agent'[x] = agent[x]
      /\ agent'[e] \in {"started", "over"} /\ wnext \in Elem
  BY DEF AgentMute, HwstTypeOK
<1>3. Agreed'
  BY <1>1, <1>2 DEF Agreed, Open
<1>4. Mapped'
  BY <1>1 DEF Mapped, Open
<1>5. Ready'
  BY <1>1, StillReady
<1>6. Ending'
  BY <1>1, <1>2 DEF Ending
<1> QED
  BY <1>3, <1>4, <1>5, <1>6

LEMMA HandleDiagnosing == ASSUME HInv, HwstTypeOK', LooperHandle PROVE Diagnosing'
<1> USE DEF Diagnosing, HInv
<1>1. /\ UNCHANGED <<comm, conn, wpc, wnext, jobs, retrieved, agent, mute>>
      /\ lmsg' = NoMsg /\ lpc = "lock"
  BY DEF LooperHandle
<1>2. Agreed'
  <2>1. ASSUME comm, Open, NEW x \in Elem PROVE agent[x] # "none" => dstate'[x] \in Active \cup Done
    BY <2>1, Handled DEF Agreed, Evolves, Active
  <2>2. ASSUME comm, Open, NEW x \in Elem, dstate'[x] \in Done PROVE agent[x] = "over"
    BY <2>2, Held, Handled, <1>1 DEF Agreed
  <2>3. ASSUME comm, Open, wpc = "send" PROVE dstate'[wnext] = "issued" /\ agent[wnext] = "none"
    BY <2>3, Handled DEF Agreed, HwstTypeOK
  <2>4. lmsg'.e = 0 /\ 0 \notin Elem
    BY <1>1, HwstAssumption DEF NoMsg, Elem
  <2> QED
    BY <1>1, <2>1, <2>2, <2>3, <2>4 DEF Agreed, Open, HwstTypeOK
<1>3. Mapped'
  <2>1. \A x \in byInst' : dstate'[x] \in {"running"} \cup Done
    BY Handled DEF Mapped, Evolves, HwstTypeOK, Active
  <2>2. wpc = "issue" => wnext \in byId' \/ ~Open
    BY <1>1, Held, Handled DEF Mapped, Ready, Active, Threading, Control, AtWork
  <2>3. ASSUME NEW x \in Elem, dstate'[x] \in Active
        PROVE  x \in byId' \cup byInst' \cup mute \/ ~Open
    <3>1. dstate[x] \in Active
      BY <2>3, Handled DEF Evolves
    <3>2. CASE comm /\ x = lmsg.e
      BY <1>1, <2>3, <3>1, <3>2, Handled DEF Mapped
    <3>3. CASE comm /\ x # lmsg.e
      BY <2>3, <3>1, <3>3, Handled DEF Mapped
    <3>4. CASE ~comm
      BY <1>1, <3>1, <3>4, Held, Handled DEF Mapped
    <3> QED
      BY <3>2, <3>3, <3>4 DEF HwstTypeOK
  <2>4. lmsg'.k # "error"
    BY <1>1 DEF NoMsg
  <2> QED
    BY <1>1, <2>1, <2>2, <2>3, <2>4 DEF Mapped, Open
<1>4. Ready'
  BY <1>1, Handled, EvolvesReady
<1>5. Ending'
  BY <1>1 DEF Ending
<1> QED
  BY <1>2, <1>3, <1>4, <1>5

\* The connection is lost, or closed.
Lost ==
    /\ FailAll
    /\ ~comm' \/ conn' = "closed"
    /\ wpc' = wpc \/ (wpc = "reset" /\ wpc' = "lock")
    /\ conn' = conn \/ conn' = "closed"
    /\ wpc \in {"insert", "issue", "send"} => conn' = "closed"
    /\ UNCHANGED <<lmsg, wnext, agent, jobs, retrieved, mute>>

LEMMA FailDiagnosing == ASSUME HInv, HwstTypeOK', Lost PROVE Diagnosing'
<1> USE DEF Diagnosing, HInv, Lost
<1>1. Agreed'
  BY DEF Agreed, Open
<1>2. Mapped'
  <2>1. byInst' = {} /\ byId' = {}
    BY DEF FailAll
  <2>2. \A e \in Elem : dstate'[e] \in Active => e \notin byId \cup byInst /\ dstate'[e] = dstate[e]
    BY DEF FailAll, Active, HwstTypeOK
  <2> QED
    BY <2>1, <2>2 DEF Mapped, Open
<1>3. Ready'
  BY FailEvolves, EvolvesReady
<1>4. Ending'
  BY DEF Ending
<1> QED
  BY <1>1, <1>2, <1>3, <1>4

\* A step that touches neither the diags nor what is known of them.
Untouched ==
    /\ UNCHANGED <<dstate, byId, byInst, comm, jobs, retrieved, lmsg, agent, mute>>
    /\ conn' = conn \/ (conn = "open" /\ conn' = "dropped")
    /\ wpc' \in {"insert", "issue", "send"} => wpc' = wpc /\ wnext' = wnext
    /\ wpc' \in {"report", "reset", "lock", "join"} => wpc \in {"report", "reset", "lock", "join"}

LEMMA StillDiagnosing == ASSUME HInv, HwstTypeOK', Untouched PROVE Diagnosing'
<1> USE DEF Diagnosing, HInv, Untouched
<1>1. Agreed'
  BY DEF Agreed, Open
<1>2. Mapped'
  BY DEF Mapped, Open
<1>3. Ready'
  BY StillReady
<1>4. Ending'
  BY DEF Ending
<1> QED
  BY <1>1, <1>2, <1>3, <1>4

LEMMA LooperDiagnosing ==
    ASSUME HInv, HwstTypeOK',
           \/ \E e \in Elem, k \in Kinds : LooperTake(e, k)
           \/ \E e \in Elem : AgentMute(e)
           \/ AgentDrop
           \/ Looper
    PROVE  Diagnosing'
<1>1. AgentDrop => Untouched
  BY DEF AgentDrop, Untouched, hdiags, hhist
<1>2. LooperNotify => Untouched
  BY DEF LooperNotify, Untouched, hdiags, hhist
<1>3. LooperClosed => Lost
  BY DEF LooperClosed, Lost
<1>4. LooperEnd => Untouched
  BY DEF LooperEnd, Untouched, hdiags, hhist
<1> QED
  BY <1>1, <1>2, <1>3, <1>4, TakeDiagnosing, MuteDiagnosing, HandleDiagnosing,
     StillDiagnosing, FailDiagnosing DEF Looper

\* The connection is closed and waited for: nothing is known of the agent then.
LEMMA JoinDiagnosing ==
    ASSUME HInv, HwstTypeOK', NEW t, DisconnectJoin(t), wpc' \in {"wait", "ended", "none"}
    PROVE  Diagnosing'
<1> USE DEF Diagnosing, HInv
<1>1. UNCHANGED <<dstate, byId, byInst, jobs, retrieved, lmsg, wnext, mute>> /\ conn' = "none"
  BY DEF DisconnectJoin, hdiags, hhist
<1>2. Agreed' /\ Mapped' /\ Ending'
  BY <1>1 DEF Agreed, Mapped, Ending, Open
<1>3. Ready'
  BY <1>1, StillReady
<1> QED
  BY <1>2, <1>3

\* The worker finds everything done: the agent has nothing more to say.
LEMMA DoneEnding ==
    ASSUME HInv, wpc = "alldone", CheckAllDone
    PROVE  lmsg = NoMsg /\ (conn = "open" => \A e \in Elem : agent[e] \in {"none", "over"})
<1>1. comm
  BY DEF HInv, Threading, Control, AtWork
<1>2. lmsg = NoMsg
  BY <1>1, Held DEF CheckAllDone, HInv, Threading, Connection
<1>3. ASSUME conn = "open", NEW e \in Elem PROVE agent[e] \in {"none", "over"}
  BY <1>1, <1>3 DEF HInv, Diagnosing, Agreed, Open, CheckAllDone
<1> QED
  BY <1>2, <1>3

\* The worker looks for the next diag: what it takes is ready, and it stays so.
LEMMA ScanDiagnosing == ASSUME HInv, HwstTypeOK', WorkerScan PROVE Diagnosing'
<1> USE DEF Diagnosing, HInv
<1>1. UNCHANGED <<dstate, byId, byInst, comm, jobs, retrieved, lmsg, agent, mute, conn>>
  BY DEF WorkerScan, hdiags, hhist
<1>2. CASE wpc' = "insert"
  <2>1. ReadyToRun(wnext) /\ wnext' = wnext
    BY <1>2 DEF WorkerScan, Looped
  <2>2. dstate'[wnext'] = "enabled" /\ DependenciesDone(wnext')
    BY <1>1, <2>1 DEF ReadyToRun
  <2>3. AllJobs' = AllJobs /\ \A e \in Elem : DependenciesDone(e)' = DependenciesDone(e)
    BY <1>1 DEF AllJobs, DependenciesDone, Dependencies
  <2>4. Ready'
    BY <1>1, <1>2, <2>1, <2>2, <2>3 DEF Ready, DependencyFirst, DependenciesDone, Dependencies, AllJobs
  <2> QED
    BY <1>1, <1>2, <2>4 DEF Agreed, Mapped, Ending, Open
<1>3. CASE wpc' # "insert"
  <2>1. Untouched
    BY <1>1, <1>3 DEF WorkerScan, Looped, Untouched
  <2> QED
    BY <2>1, StillDiagnosing
<1> QED
  BY <1>2, <1>3

LEMMA AllDoneDiagnosing == ASSUME HInv, HwstTypeOK', WorkerAllDone PROVE Diagnosing'
<1> USE DEF Diagnosing, HInv
<1>1. UNCHANGED <<dstate, byId, byInst, comm, jobs, retrieved, lmsg, agent, mute, conn>>
  BY DEF WorkerAllDone, hdiags, hhist
<1>2. wpc' \in {"report", "wait", "ended"} /\ (wpc' = "report" => CheckAllDone) /\ wpc = "alldone"
  BY DEF WorkerAllDone, Looped
<1>3. Ready'
  BY <1>1, <1>2, StillReady
<1>4. Ending'
  BY <1>1, <1>2, DoneEnding DEF Ending
<1> QED
  BY <1>1, <1>2, <1>3, <1>4 DEF Agreed, Mapped, Open

LEMMA InsertDiagnosing == ASSUME HInv, HwstTypeOK', WorkerInsert PROVE Diagnosing'
<1> USE DEF Diagnosing, HInv
<1>1. /\ UNCHANGED <<dstate, byInst, comm, jobs, retrieved, lmsg, agent, mute, conn, wnext>>
      /\ byId' = byId \cup {wnext} /\ wpc = "insert" /\ wpc' = "issue"
  BY DEF WorkerInsert, hhist
<1>2. Ready'
  BY <1>1, StillReady
<1> QED
  BY <1>1, <1>2 DEF Agreed, Mapped, Ending, Open

LEMMA IssueDiagnosing == ASSUME HInv, HwstTypeOK', WorkerIssue PROVE Diagnosing'
<1> USE DEF Diagnosing, HInv
<1>1. /\ UNCHANGED <<byId, byInst, comm, jobs, retrieved, lmsg, agent, mute, conn, wnext>>
      /\ wpc = "issue" /\ wpc' = "send" /\ wnext \in Elem
  BY DEF WorkerIssue, hhist, HwstTypeOK
<1>2. dstate[wnext] = "enabled" /\ DependenciesDone(wnext)
  BY <1>1 DEF Ready
<1>3. dstate'[wnext] = "issued" /\ \A e \in Elem : e # wnext => dstate'[e] = dstate[e]
  BY <1>1, <1>2 DEF WorkerIssue, SetIssued, SetState, HwstTypeOK
<1>4. Agreed'
  <2>1. ASSUME comm, Open PROVE agent[wnext] = "none" /\ lmsg.e # wnext
    <3>1. agent[wnext] = "none"
      BY <1>1, <1>2, <2>1 DEF Agreed, Active, Done
    <3>2. lmsg # NoMsg => lmsg.e # wnext
      BY <1>1, <1>2, <2>1 DEF Agreed, Active
    <3>3. NoMsg.e = 0 /\ 0 \notin Elem
      BY HwstAssumption DEF NoMsg, Elem
    <3> QED
      BY <1>1, <3>1, <3>2, <3>3
  <2> QED
    BY <1>1, <1>3, <2>1 DEF Agreed, Open, Active, Done
<1>5. Mapped'
  <2>1. wnext \notin byInst
    BY <1>2 DEF Mapped, Done
  <2>2. wnext \in byId \/ ~Open
    BY <1>1 DEF Mapped
  <2>3. byInst \subseteq Elem
    BY DEF HwstTypeOK
  <2> QED
    BY <1>1, <1>3, <2>1, <2>2, <2>3 DEF Mapped, Open
<1>6. Ready'
  <2>1. AllJobs' = AllJobs /\ \A e \in Elem : Dependencies(e)' = Dependencies(e)
    BY <1>1 DEF AllJobs, Dependencies
  <2>2. ASSUME NEW e \in Elem, dstate'[e] \in Active PROVE DependenciesDone(e)'
    <3>1. DependenciesDone(e)
      BY <1>2, <1>3, <2>2 DEF Ready, DependencyFirst
    <3>2. wnext \notin Dependencies(e)
      BY <1>2, <3>1 DEF DependenciesDone
    <3>3. Dependencies(e) \subseteq Elem
      BY HwstAssumption DEF Dependencies, Caps, Elem
    <3> QED
      BY <1>3, <2>1, <3>1, <3>2, <3>3 DEF DependenciesDone
  <2>3. ASSUME AllJobs, ~retrieved, NEW e \in Elem \ {Caps} PROVE dstate'[e] = "disabled"
    BY <1>2, <1>3, <2>3 DEF Ready
  <2> QED
    BY <1>1, <2>1, <2>2, <2>3 DEF Ready, DependencyFirst
<1>7. Ending'
  BY <1>1 DEF Ending
<1> QED
  BY <1>4, <1>5, <1>6, <1>7

LEMMA SendDiagnosing == ASSUME HInv, HwstTypeOK', WorkerSend PROVE Diagnosing'
<1> USE DEF Diagnosing, HInv
<1>1. /\ UNCHANGED <<dstate, byId, byInst, comm, jobs, retrieved, lmsg, mute, conn>>
      /\ wpc = "send" /\ wpc' = "next" /\ wnext \in Elem
      /\ agent'[wnext] = "asked" /\ \A e \in Elem : e # wnext => agent'[e] = agent[e]
  BY DEF WorkerSend, hdiags, hhist, HwstTypeOK
<1>2. Agreed'
  BY <1>1 DEF Agreed, Open, Active, Done
<1>3. Ready'
  BY <1>1, StillReady
<1> QED
  BY <1>1, <1>2, <1>3 DEF Mapped, Ending, Open

LEMMA CapableDiagnosing ==
    ASSUME HInv, HwstTypeOK', NEW named \in SUBSET Elem, EnableCapable(named)
    PROVE  Diagnosing'
<1> USE DEF Diagnosing, HInv
<1>1. /\ UNCHANGED <<byId, byInst, comm, jobs, lmsg, agent, mute, conn>>
      /\ wpc = "next" /\ wpc' = "scan"
      /\ retrieved' /\ AllJobs /\ ~retrieved /\ dstate[Caps] = "finished"
  BY DEF EnableCapable, CapsToOffer, ScanFromFirst, hhist
<1>2. \A e \in Elem : dstate'[e] = dstate[e] \/ (dstate[e] = "disabled" /\ dstate'[e] = "enabled")
  BY DEF EnableCapable, Capable, HwstTypeOK
<1>3. Agreed'
  <2>1. ASSUME comm, Open, lmsg # NoMsg PROVE dstate'[lmsg.e] \in Active
    BY <1>2, <2>1 DEF Agreed, Active
  <2> QED
    BY <1>1, <1>2, <2>1 DEF Agreed, Open, Active, Done
<1>4. Mapped'
  <2>1. \A e \in byInst : dstate'[e] = dstate[e]
    BY <1>2 DEF Mapped, Done, HwstTypeOK
  <2> QED
    BY <1>1, <1>2, <2>1 DEF Mapped, Open, Active
<1>5. Ready'
  <2>1. \A e \in Elem : dstate'[e] \notin Active
    BY <1>1, <1>2 DEF Ready, Active, Caps
  <2> QED
    BY <1>1, <2>1 DEF Ready, DependencyFirst
<1>6. Ending'
  BY <1>1 DEF Ending
<1> QED
  BY <1>3, <1>4, <1>5, <1>6

LEMMA WorkerDiagnosing == ASSUME HInv, HwstTypeOK', Worker PROVE Diagnosing'
<1>1. WorkerWait => Untouched
  BY DEF WorkerWait, Looped, Untouched, hdiags
<1>2. WorkerCollect => Untouched
  BY DEF WorkerCollect, Untouched, hhist
<1>3. WorkerSendFails => Untouched
  BY DEF WorkerSendFails, Crash, Untouched, hdiags, hhist
<1>4. WorkerReport => Untouched
  BY DEF WorkerReport, Untouched, hhist
<1>8. WorkerNext => Untouched
  BY DEF WorkerNext, ScanFromFirst, Untouched, hdiags, hhist
<1>5. CASE ~crashed /\ wpc = "reset" /\ CommReset /\ wpc' = "lock" /\ UNCHANGED apc
  <2>1. Lost
    BY <1>5 DEF CommReset, Lost
  <2> QED
    BY <2>1, FailDiagnosing
<1>6. CASE ~crashed /\ wpc = "lock" /\ DisconnectLock("worker") /\ wpc' = "join" /\ UNCHANGED apc
  <2>1. Untouched
    BY <1>6 DEF DisconnectLock, Untouched, hdiags, hhist
  <2> QED
    BY <2>1, StillDiagnosing
<1>7. CASE ~crashed /\ wpc = "join" /\ DisconnectJoin("worker") /\ Looped
           /\ UNCHANGED <<hstate, apc, why>>
  <2>1. wpc' \in {"wait", "ended", "none"}
    BY <1>7 DEF Looped
  <2> QED
    BY <1>7, <2>1, JoinDiagnosing
<1> QED
  BY <1>1, <1>2, <1>3, <1>4, <1>5, <1>6, <1>7, <1>8, StillDiagnosing, CapableDiagnosing,
     ScanDiagnosing, AllDoneDiagnosing, InsertDiagnosing, IssueDiagnosing, SendDiagnosing DEF Worker, WorkerReset

-----------------------------------------------------------------------------
(* ... and the caller.                                                     *)

LEMMA InitRunDiagnosing ==
    ASSUME HInv, HwstTypeOK', NEW js \in JobSets, IssueInit(js)
    PROVE  Diagnosing'
<1> USE DEF Diagnosing, HInv, Threading
<1>1. /\ UNCHANGED <<byId, byInst, lmsg, agent, conn>>
      /\ conn = "none" /\ byId = {} /\ byInst = {} /\ lmsg = NoMsg /\ wpc' = "wait"
      /\ dstate' = FirstEnabled(js) /\ jobs' = js
  <2>1. /\ UNCHANGED <<byId, byInst, lmsg, agent, conn>>
        /\ wpc' = "wait" /\ dstate' = FirstEnabled(js) /\ jobs' = js /\ apc = "init"
    BY DEF IssueInit
  <2>2. ~comm /\ conn = "none" /\ lpc = "none"
    BY <2>1 DEF Control, Connection
  <2> QED
    BY <2>1, <2>2 DEF Connection
<1>2. \A e \in Elem : dstate'[e] \in {"disabled", "enabled"}
  BY <1>1 DEF FirstEnabled
<1>3. Agreed' /\ Mapped' /\ Ending'
  BY <1>1, <1>2 DEF Agreed, Mapped, Ending, Open, Active, NoMsg
<1>4. Ready'
  <2>1. ASSUME js = {}, NEW e \in Elem \ {Caps} PROVE dstate'[e] = "disabled"
    BY <1>1, <2>1 DEF FirstEnabled
  <2> QED
    BY <1>1, <1>2, <2>1 DEF Ready, DependencyFirst, Active, AllJobs
<1> QED
  BY <1>3, <1>4

\* A connection is made when nothing has been asked.
LEMMA ConnectDiagnosing ==
    ASSUME HInv, HwstTypeOK', IssueConnect \/ IssueConnectFails
    PROVE  Diagnosing'
<1> USE DEF Diagnosing, HInv, Threading
<1>1. /\ UNCHANGED <<dstate, byId, byInst, comm, jobs, retrieved, lmsg, agent, mute, wpc, wnext>>
      /\ apc = "connect"
  BY DEF IssueConnect, IssueConnectFails, hdiags, hhist
<1>2. /\ wpc = "wait" /\ NoneActive /\ lmsg = NoMsg
      /\ \A e \in Elem : agent[e] = "none"
  BY <1>1 DEF Control, Connection
<1>3. Agreed' /\ Mapped' /\ Ending'
  BY <1>1, <1>2 DEF Agreed, Mapped, Ending, NoneActive, Active, Done
<1>4. Ready'
  BY <1>1, <1>2, StillReady
<1> QED
  BY <1>3, <1>4

LEMMA CallerDiagnosing ==
    ASSUME HInv, HwstTypeOK', IssueCall \/ Destroy \/ Caller
    PROVE  Diagnosing'
<1>1. IssueCall => Untouched
  BY DEF IssueCall, Untouched, hdiags, hhist
<1>2. Destroy => Untouched
  BY DEF Destroy, Untouched, hdiags, hhist
<1>3. CallerJoinsWorker => Untouched
  BY DEF CallerJoinsWorker, Untouched, hdiags, hhist
<1>4. CallerResetNone => Untouched
  BY DEF CallerResetNone, Untouched, hdiags, hhist
<1>5. CallerResetIdle => Untouched
  BY DEF CallerResetIdle, Untouched, hdiags, hhist
<1>6. CallerResetLocks => Untouched
  BY DEF CallerResetLocks, DisconnectLock, Untouched, hdiags, hhist
<1>7. IssueClear => Untouched
  BY DEF IssueClear, Untouched, hdiags
<1>8. IssueAnnounce => Untouched
  BY DEF IssueAnnounce, Untouched, hdiags, hhist
<1>9. IssueAnnounceCrashes => Untouched
  BY DEF IssueAnnounceCrashes, Crash, Untouched, hdiags, hhist
<1>10. CallerResetStarts => Lost
  BY DEF CallerResetStarts, CommReset, Lost, HInv, Threading, Control
<1>11. CASE CallerResetJoins
  <2>1. DisconnectJoin("caller") /\ wpc' \in {"wait", "ended", "none"}
    BY <1>11 DEF CallerResetJoins, HInv, Threading, Control
  <2> QED
    BY <2>1, JoinDiagnosing
<1> QED
  BY <1>1, <1>2, <1>3, <1>4, <1>5, <1>6, <1>7, <1>8, <1>9, <1>10, <1>11, StillDiagnosing,
     FailDiagnosing, InitRunDiagnosing, ConnectDiagnosing, CallerResetCases DEF Caller

-----------------------------------------------------------------------------
(* The theorems.                                                           *)

LEMMA NextDiagnosed == ASSUME HInv, HwstTypeOK', [HwstNext]_hvars PROVE Diagnosing'
<1>1. UNCHANGED hvars => Untouched
  BY DEF hvars, hdiags, hhist, Untouched
<1> QED
  BY <1>1, StillDiagnosing, LooperDiagnosing, WorkerDiagnosing, CallerDiagnosing DEF HwstNext

\* The invariant, from which the properties follow.
THEOREM HwstInvariant == HwstSpec => []HInv
<1>1. HwstInit => HInv
  BY InitTypes, InitThreading, InitDiagnosing DEF HInv
<1>2. HInv /\ [HwstNext]_hvars => HInv'
  BY NextTypes, NextThreading, NextDiagnosed DEF HInv
<1> QED
  BY <1>1, <1>2, PTL DEF HwstSpec

\* No diag is asked of the agent before those it depends on are done.
THEOREM Dependencies_First == HwstSpec => []DependencyFirst
<1>1. HInv => DependencyFirst
  BY DEF HInv, Diagnosing, Ready
<1> QED
  BY <1>1, HwstInvariant, PTL

\* No diag that waits for the agent is lost from Comm's maps.
THEOREM Nothing_Forgotten == HwstSpec => []NothingForgotten
<1>1. HInv => NothingForgotten
  BY DEF HInv, HwstTypeOK, Diagnosing, Mapped, Open, NothingForgotten
<1> QED
  BY <1>1, HwstInvariant, PTL

\* The worker that closes the connection never waits for a looper that waits for it.
THEOREM Orderly_End == HwstSpec => []OrderlyEndNeverBlocks
<1>1. HInv => OrderlyEndNeverBlocks
  BY DEF HInv, Threading, Control, Connection, Diagnosing, Ending, OrderlyEndNeverBlocks
<1> QED
  BY <1>1, HwstInvariant, PTL

-----------------------------------------------------------------------------
(* The summary.                                                            *)

\* The worker is at work on a run that it can gather results of.
Gathers ==
    /\ wpc \in {"wait", "collect", "next", "scan", "insert", "issue", "send", "alldone", "report"}
    /\ wpc = "wait" => connected

\* It has passed e in its last look at the diags.
PassedBy(e) ==
    \/ wpc = "collect" /\ e < wnext
    \/ wpc \in {"next", "scan", "insert", "issue", "send", "alldone", "report"}

\* A result that is no news any more is in the summary, or was cleared from it.
Gathered ==
    Gathers => \A e \in Elem : dstate[e] \in Done /\ ~modified[e] => e \in ToSet(summary) \cup cleared

\* News of a diag that was passed came after that.
Late == \A e \in Elem : PassedBy(e) /\ dstate[e] \in Done /\ modified[e] => e \in fresh

\* Once the summary of the run before is cleared it has what is no news, once.
Once ==
    Gathers /\ apc # "clear" =>
        /\ \A e \in ToSet(summary) : dstate[e] \in Done /\ ~modified[e]
        /\ \A i, j \in 1..Len(summary) : summary[i] = summary[j] => i = j

SumInv == Gathered /\ Late /\ Once

LEMMA InitSum == HwstInit => SumInv
BY DEF HwstInit, SumInv, Gathered, Late, Once, Gathers, PassedBy

LEMMA ReportSum == HInv /\ SumInv => SummaryComplete
<1> SUFFICES ASSUME HInv, SumInv, wpc = "report", apc # "clear" PROVE SummaryComplete
  BY DEF SummaryComplete
<1>1. Gathers
  BY DEF Gathers
<1>2. ASSUME NEW e \in Elem, dstate[e] \in Done PROVE e \in ToSet(summary) \cup fresh \cup cleared
  BY <1>1, <1>2, Zenon DEF SumInv, Gathered, Late, PassedBy
<1>3. \A i, j \in 1..Len(summary) : summary[i] = summary[j] => i = j
  BY <1>1 DEF SumInv, Once
<1> QED
  BY <1>2, <1>3, Zenon DEF SummaryComplete

\* What is done stays done, and what gets done is news.
Settles ==
    /\ \A e \in Elem : dstate[e] \in Done => dstate'[e] = dstate[e] /\ modified'[e] = modified[e]
    /\ \A e \in Elem : dstate'[e] \in Done /\ dstate[e] \notin Done => modified'[e] /\ e \in fresh'
    /\ fresh \subseteq fresh'

\* The worker passes no diag and starts nothing.
Onward ==
    /\ Gathers' => Gathers /\ (apc' # "clear" => apc # "clear")
    /\ \A e \in Elem : PassedBy(e)' => PassedBy(e)

LEMMA SumFrame ==
    ASSUME HwstTypeOK, SumInv, Settles, Onward, UNCHANGED <<summary, cleared>>
    PROVE  SumInv'
<1>1. ToSet(summary) \subseteq Elem /\ ToSet(summary)' = ToSet(summary)
  <2>1. summary \in Seq(Elem)
    BY DEF HwstTypeOK
  <2> QED
    BY <2>1 DEF ToSet
<1>2. Gathered'
  <2> SUFFICES ASSUME Gathers', NEW e \in Elem, dstate'[e] \in Done, ~modified'[e]
               PROVE  e \in ToSet(summary) \cup cleared
    BY <1>1, Zenon DEF Gathered
  <2> QED
    BY Zenon DEF SumInv, Gathered, Settles, Onward
<1>3. Late'
  <2> SUFFICES ASSUME NEW e \in Elem, PassedBy(e)', dstate'[e] \in Done, modified'[e]
               PROVE  e \in fresh'
    BY Zenon DEF Late
  <2>1. PassedBy(e)
    BY DEF Onward
  <2>2. CASE dstate[e] \in Done
    <3>1. modified[e] = modified'[e]
      BY <2>2 DEF Settles
    <3>2. e \in fresh
      BY <2>1, <2>2, <3>1, Zenon DEF SumInv, Late
    <3> QED
      BY <3>2 DEF Settles
  <2>3. CASE dstate[e] \notin Done
    BY <2>3, Zenon DEF Settles
  <2> QED
    BY <2>2, <2>3
<1>4. Once'
  <2> SUFFICES ASSUME Gathers', apc' # "clear"
               PROVE  /\ \A e \in ToSet(summary) : dstate'[e] \in Done /\ ~modified'[e]
                      /\ \A i, j \in 1..Len(summary) : summary[i] = summary[j] => i = j
    BY <1>1, Zenon DEF Once
  <2>1. Gathers /\ apc # "clear"
    BY DEF Onward
  <2>2. /\ \A e \in ToSet(summary) : dstate[e] \in Done /\ ~modified[e]
        /\ \A i, j \in 1..Len(summary) : summary[i] = summary[j] => i = j
    BY <2>1, Zenon DEF SumInv, Once
  <2> QED
    BY <1>1, <2>2, Zenon DEF Settles
<1> QED
  BY <1>2, <1>3, <1>4 DEF SumInv

LEMMA FailSum == ASSUME HwstTypeOK, FailAll PROVE Settles
<1>1. \A e \in Elem : e \in byId \cup byInst /\ dstate[e] \in Active => dstate[e] \notin Done
  BY DEF Active, Done
<1> DEFINE failed == {e \in byId \cup byInst : dstate[e] \in Active}
<1>2. /\ dstate' = [e \in Elem |-> IF e \in failed THEN "error" ELSE dstate[e]]
      /\ modified' = [e \in Elem |-> modified[e] \/ e \in failed]
      /\ fresh' = fresh \cup failed
  BY Zenon DEF FailAll
<1>3. ASSUME NEW e \in Elem, dstate[e] \in Done PROVE dstate'[e] = dstate[e] /\ modified'[e] = modified[e]
  <2>1. e \notin failed
    BY <1>1, <1>3
  <2>2. modified \in [Elem -> BOOLEAN]
    BY DEF HwstTypeOK
  <2> HIDE DEF failed
  <2>3. dstate'[e] = dstate[e]
    BY <1>2, <2>1
  <2>4. modified'[e] = (modified[e] \/ e \in failed) /\ modified[e] \in BOOLEAN
    BY <1>2, <2>2, Zenon
  <2> QED
    BY <2>1, <2>3, <2>4, Zenon
<1>4. ASSUME NEW e \in Elem, dstate'[e] \in Done, dstate[e] \notin Done PROVE modified'[e] /\ e \in fresh'
  <2> HIDE DEF failed
  <2>1. e \in failed
    BY <1>2, <1>4
  <2> QED
    BY <1>2, <2>1, Zenon
<1> QED
  BY <1>2, <1>3, <1>4 DEF Settles

\* A change of state is news.
LEMMA HandleSum == ASSUME HInv, HwstTypeOK', LooperHandle PROVE Settles
<1>1. lmsg.e \in Elem /\ lmsg.k \in Kinds
  BY HwstAssumption DEF HInv, HwstTypeOK, Threading, Connection, LooperHandle, MessagesToClient, NoMsg
<1> DEFINE e == lmsg.e
<1>2. \/ UNCHANGED <<dstate, modified>>
      \/ SetProgress(e) \/ SetError(e) \/ SetFinished(e)
  BY Zenon DEF LooperHandle, HandleResult, HandleNull, HandleError, HandleProgress, HandleEod, hdiags
<1> DEFINE News == /\ \A x \in Elem \ {e} : dstate'[x] = dstate[x] /\ modified'[x] = modified[x]
                   /\ dstate[e] \in Done => dstate'[e] = dstate[e] /\ modified'[e] = modified[e]
                   /\ dstate'[e] = dstate[e] \/ modified'[e] = TRUE
<1>3. News
  <2>1. dstate \in [Elem -> DiagStates] /\ modified \in [Elem -> BOOLEAN] /\ e \in Elem
    BY <1>1 DEF HInv, HwstTypeOK
  <2> HIDE DEF e
  <2>2. CASE UNCHANGED <<dstate, modified>>
    BY <2>2
  <2>3. CASE SetProgress(e)
    BY <2>1, <2>3 DEF SetProgress, Active, Done
  <2>4. ASSUME NEW s, SetState(e, s), dstate[e] \in Active PROVE News
    BY <2>1, <2>4 DEF SetState, Active, Done
  <2>5. CASE SetError(e)
    BY <2>2, <2>4, <2>5 DEF SetError
  <2>6. CASE SetFinished(e)
    BY <2>2, <2>4, <2>6 DEF SetFinished, Active
  <2> QED
    BY <1>2, <2>2, <2>3, <2>5, <2>6
<1>4. fresh' = fresh \cup {x \in Elem : dstate'[x] \in Done /\ dstate[x] \notin Done}
  BY DEF LooperHandle
<1> HIDE DEF e
<1> QED
  BY <1>1, <1>3, <1>4 DEF Settles, e

\* A step that leaves the diags alone.
LEMMA SameSum ==
    ASSUME HwstTypeOK, SumInv, Onward, UNCHANGED <<summary, cleared, fresh, dstate, modified>>
    PROVE  SumInv'
<1>1. Settles
  BY Zenon DEF Settles
<1> QED
  BY <1>1, SumFrame

LEMMA LooperSum ==
    ASSUME HInv, HwstTypeOK', SumInv,
           \/ \E e \in Elem, k \in Kinds : LooperTake(e, k)
           \/ \E e \in Elem : AgentMute(e)
           \/ AgentDrop
           \/ Looper
    PROVE  SumInv'
<1> USE DEF HInv, Onward, Gathers, PassedBy
<1>1. CASE \E e \in Elem, k \in Kinds : LooperTake(e, k)
  BY <1>1, SameSum DEF LooperTake, hflags, hdiags
<1>2. CASE \E e \in Elem : AgentMute(e)
  BY <1>2, SameSum DEF AgentMute, hflags, hdiags
<1>3. CASE AgentDrop
  BY <1>3, SameSum DEF AgentDrop, hflags, hdiags, hhist
<1>4. CASE LooperHandle
  <2>1. Onward /\ UNCHANGED <<summary, cleared>>
    BY <1>4 DEF LooperHandle, hflags
  <2> QED
    BY <1>4, <2>1, HandleSum, SumFrame
<1>5. CASE LooperNotify
  BY <1>5, SameSum DEF LooperNotify, hdiags, hhist
<1>6. CASE LooperClosed
  <2>1. Onward /\ UNCHANGED <<summary, cleared>>
    BY <1>6 DEF LooperClosed, FailAll, CbDisconnected
  <2>2. Settles
    BY <1>6, FailSum DEF LooperClosed
  <2> QED
    BY <2>1, <2>2, SumFrame
<1>7. CASE LooperEnd
  BY <1>7, SameSum DEF LooperEnd, hflags, hdiags, hhist
<1> QED
  BY <1>1, <1>2, <1>3, <1>4, <1>5, <1>6, <1>7 DEF Looper

\* A new look at the diags: nothing is passed, and nothing is late.
LEMMA WaitSum == ASSUME HInv, SumInv, WorkerWait PROVE SumInv'
<1>1. UNCHANGED <<summary, cleared, dstate, modified, apc, connected>>
  BY DEF WorkerWait, hdiags
<1>2. ASSUME NEW e \in Elem PROVE ~PassedBy(e)'
  <2>1. wpc' \in {"ended", "wait"} \/ (wpc' = "collect" /\ wnext' = 1)
    BY DEF WorkerWait, Looped
  <2> QED
    BY <2>1 DEF PassedBy, Elem
<1>3. Gathers' => Gathers
  BY DEF WorkerWait, Looped, Gathers
<1> QED
  BY <1>1, <1>2, <1>3, Zenon DEF SumInv, Gathered, Late, Once

LEMMA ToSetAppend ==
    ASSUME NEW s \in Seq(Elem), NEW e \in Elem
    PROVE  ToSet(Append(s, e)) = ToSet(s) \cup {e}
<1> DEFINE t == Append(s, e)
<1>1. /\ DOMAIN s = 1..Len(s) /\ DOMAIN t = 1..(Len(s) + 1) /\ Len(s) \in Nat
      /\ \A i \in 1..Len(s) : t[i] = s[i]
      /\ t[Len(s) + 1] = e
  OBVIOUS
<1> HIDE DEF t
<1>2. ASSUME NEW x \in ToSet(t) PROVE x \in ToSet(s) \cup {e}
  <2>1. PICK i \in 1..(Len(s) + 1) : x = t[i]
    BY <1>1 DEF ToSet
  <2>2. i \in 1..Len(s) \/ i = Len(s) + 1
    BY <1>1
  <2> QED
    BY <1>1, <2>1, <2>2 DEF ToSet
<1>3. ASSUME NEW x \in ToSet(s) \cup {e} PROVE x \in ToSet(t)
  <2>1. CASE x \in ToSet(s)
    <3>1. PICK i \in 1..Len(s) : x = s[i]
      BY <1>1, <2>1 DEF ToSet
    <3>2. i \in 1..(Len(s) + 1)
      BY <1>1
    <3> QED
      BY <1>1, <3>1, <3>2 DEF ToSet
  <2>2. CASE x = e
    BY <1>1, <2>2 DEF ToSet
  <2> QED
    BY <2>1, <2>2
<1> QED
  BY <1>2, <1>3 DEF t

\* A result that is news goes to the end of the summary, and is no news any more.
LEMMA CollectSum == ASSUME HInv, HwstTypeOK', SumInv, WorkerCollect PROVE SumInv'
<1> DEFINE e == wnext
           again == dstate[e] \in Done /\ modified[e]
<1>1. /\ summary \in Seq(Elem) /\ e \in Elem /\ Elem \subseteq Nat /\ Elements \in Nat
      /\ modified \in [Elem -> BOOLEAN]
  BY HwstAssumption DEF HInv, HwstTypeOK, Elem
<1>2. /\ wpc = "collect" /\ UNCHANGED <<dstate, fresh, cleared, apc, connected>>
      /\ modified' = [modified EXCEPT ![e] = FALSE]
      /\ (wpc' = "next" /\ e = Elements) \/ (wpc' = "collect" /\ wnext' = e + 1)
  BY DEF WorkerCollect, LastElement, hflags, hhist
<1>3. (again => summary' = Append(summary, e)) /\ (~again => summary' = summary)
  BY Zenon DEF WorkerCollect, Reportable
<1>4. ~modified'[e] /\ \A x \in Elem \ {e} : modified'[x] = modified[x]
  BY <1>1, <1>2
<1>5. Gathers
  BY <1>2 DEF Gathers
<1>6. /\ again => ToSet(summary') = ToSet(summary) \cup {e}
      /\ ~again => ToSet(summary') = ToSet(summary)
  BY <1>1, <1>3, ToSetAppend
<1>7. Gathered'
  <2> SUFFICES ASSUME NEW x \in Elem, dstate[x] \in Done, ~modified'[x]
               PROVE  x \in ToSet(summary') \cup cleared
    BY <1>2, Zenon DEF Gathered
  <2>1. ~modified[x] => x \in ToSet(summary) \cup cleared
    BY <1>5, Zenon DEF SumInv, Gathered
  <2>2. modified[x] => x = e
    BY <1>4, Zenon
  <2>3. modified[x] => again /\ x = e
    BY <2>2, Zenon
  <2> HIDE DEF again, e
  <2> QED
    BY <1>6, <2>1, <2>3, Zenon
<1>8. Late'
  <2> SUFFICES ASSUME NEW x \in Elem, PassedBy(x)', dstate[x] \in Done, modified'[x]
               PROVE  x \in fresh
    BY <1>2, Zenon DEF Late
  <2>1. x # e /\ modified[x]
    BY <1>4, Zenon
  <2>2. x \in 1..Elements /\ e \in 1..Elements /\ (x < e + 1 => x < e \/ x = e)
    BY <1>1 DEF Elem
  <2>3. PassedBy(x)
    <3>1. CASE wpc' = "next" /\ e = Elements
      <4>1. x < e
        BY <3>1, <2>1, <2>2
      <4> QED
        BY <4>1, <1>2 DEF PassedBy
    <3>2. CASE wpc' = "collect" /\ wnext' = e + 1
      <4>1. x < e
        BY <3>2, <2>1, <2>2 DEF PassedBy
      <4> QED
        BY <4>1, <1>2 DEF PassedBy
    <3> QED
      BY <1>2, <3>1, <3>2
  <2> QED
    BY <2>1, <2>3, Zenon DEF SumInv, Late
<1>9. Once'
  <2> SUFFICES ASSUME apc # "clear"
               PROVE  /\ \A x \in ToSet(summary') : dstate[x] \in Done /\ ~modified'[x]
                      /\ \A i, j \in 1..Len(summary') : summary'[i] = summary'[j] => i = j
    BY <1>2, Zenon DEF Once
  <2>1. /\ \A x \in ToSet(summary) : dstate[x] \in Done /\ ~modified[x]
        /\ \A i, j \in 1..Len(summary) : summary[i] = summary[j] => i = j
    BY <1>5, Zenon DEF SumInv, Once
  <2>2. ToSet(summary) \subseteq Elem /\ \A i \in 1..Len(summary) : summary[i] \in ToSet(summary)
    BY <1>1 DEF ToSet
  <2>3. \A x \in ToSet(summary) : dstate[x] \in Done /\ ~modified'[x]
    BY <1>4, <2>1, <2>2, Zenon
  <2>4. again => e \notin ToSet(summary)
    BY <2>1, Zenon
  <2>5. again => dstate[e] \in Done
    OBVIOUS
  <2> HIDE DEF again, e
  <2>6. \A x \in ToSet(summary') : dstate[x] \in Done /\ ~modified'[x]
    BY <1>4, <1>6, <2>3, <2>5, Zenon
  <2>7. \A i, j \in 1..Len(summary') : summary'[i] = summary'[j] => i = j
    <3>1. CASE again
      BY <1>1, <1>3, <2>1, <2>2, <2>4, <3>1
    <3>2. CASE ~again
      BY <1>3, <2>1, <3>2
    <3> QED
      BY <3>1, <3>2
  <2> QED
    BY <2>6, <2>7
<1> QED
  BY <1>7, <1>8, <1>9 DEF SumInv

\* The capabilities enable what was not: no result is touched.
LEMMA CapableSum ==
    ASSUME HInv, SumInv, NEW named \in SUBSET Elem, EnableCapable(named)
    PROVE  SumInv'
<1>1. /\ dstate \in [Elem -> DiagStates] /\ modified \in [Elem -> BOOLEAN]
      /\ dstate' = [e \in Elem |-> IF e \in Capable(named) THEN "enabled" ELSE dstate[e]]
      /\ modified' = [e \in Elem |-> modified[e] \/ e \in Capable(named)]
      /\ UNCHANGED <<fresh, summary, cleared, apc, connected>> /\ wpc = "next" /\ wpc' = "scan"
  BY DEF HInv, HwstTypeOK, EnableCapable, ScanFromFirst, hflags, hhist
<1>2. ASSUME NEW e \in Elem, dstate[e] \in Done PROVE dstate'[e] = dstate[e] /\ modified'[e] = modified[e]
  <2>1. e \notin Capable(named)
    BY <1>2 DEF Capable, Done
  <2>2. dstate'[e] = dstate[e]
    BY <1>1, <2>1
  <2>3. modified'[e] = (modified[e] \/ e \in Capable(named)) /\ modified[e] \in BOOLEAN
    BY <1>1, Zenon
  <2> QED
    BY <2>1, <2>2, <2>3, Zenon
<1>3. ASSUME NEW e \in Elem, dstate'[e] \in Done PROVE dstate[e] \in Done
  BY <1>1, <1>3 DEF Done
<1>4. Settles
  BY <1>1, <1>2, <1>3, Zenon DEF Settles
<1>5. Onward
  BY <1>1 DEF Onward, Gathers, PassedBy
<1> QED
  BY <1>1, <1>4, <1>5, SumFrame DEF HInv

LEMMA IssueSum == ASSUME HInv, SumInv, WorkerIssue PROVE SumInv'
<1>1. /\ dstate \in [Elem -> DiagStates] /\ modified \in [Elem -> BOOLEAN] /\ wnext \in Elem
      /\ UNCHANGED <<fresh, summary, cleared, wnext, apc, connected>> /\ wpc = "issue" /\ wpc' = "send"
      /\ dstate[wnext] = "enabled" /\ SetState(wnext, "issued")
  BY DEF HInv, HwstTypeOK, WorkerIssue, Diagnosing, Ready, SetIssued, hflags, hhist
<1>2. Settles
  BY <1>1 DEF Settles, SetState, Done
<1>3. Onward
  BY <1>1 DEF Onward, Gathers, PassedBy
<1> QED
  BY <1>1, <1>2, <1>3, SumFrame DEF HInv

LEMMA WorkerSum == ASSUME HInv, HwstTypeOK', SumInv, Worker PROVE SumInv'
<1> USE DEF HInv, Onward, Gathers, PassedBy
<1>1. CASE WorkerNext
  BY <1>1, SameSum DEF WorkerNext, ScanFromFirst, hflags, hdiags, hhist
<1>6. CASE WorkerScan
  BY <1>6, SameSum DEF WorkerScan, Looped, hflags, hdiags, hhist
<1>7. CASE WorkerAllDone
  BY <1>7, SameSum DEF WorkerAllDone, Looped, hflags, hdiags, hhist
<1>2. CASE WorkerInsert
  BY <1>2, SameSum DEF WorkerInsert, hflags, hhist
<1>3. CASE WorkerSend
  BY <1>3, SameSum DEF WorkerSend, hflags, hdiags, hhist
<1>4. CASE WorkerSendFails
  BY <1>4, SameSum DEF WorkerSendFails, Crash, hflags, hdiags, hhist
<1>5. CASE WorkerReport \/ WorkerReset
  <2>1. ~Gathers' /\ \A e \in Elem : ~PassedBy(e)'
    <3>1. CASE WorkerReport
      BY <3>1 DEF WorkerReport
    <3>2. CASE WorkerReset
      BY <3>2 DEF WorkerReset, DisconnectJoin, Looped, CbDisconnected
    <3> QED
      BY <1>5, <3>1, <3>2
  <2> QED
    BY <2>1, Zenon DEF SumInv, Gathered, Late, Once
<1> QED
  BY <1>1, <1>2, <1>3, <1>4, <1>5, <1>6, <1>7, WaitSum, CollectSum, CapableSum, IssueSum
     DEF Worker

LEMMA CallerSum == ASSUME HInv, HwstTypeOK', SumInv, IssueCall \/ Destroy \/ Caller PROVE SumInv'
<1> USE DEF HInv, Onward, Gathers, PassedBy
<1>1. CASE IssueCall
  BY <1>1, SameSum DEF IssueCall, hdiags, hhist
<1>2. CASE Destroy
  BY <1>2, SameSum DEF Destroy, hdiags, hhist
<1>3. CASE CallerJoinsWorker
  BY <1>3, SameSum DEF CallerJoinsWorker, hflags, hdiags, hhist
<1>4. CASE CallerReset
  <2>1. wpc = "none" /\ wpc' = "none"
    <3>1. wpc = "none"
      BY <1>4 DEF Threading, Control, CallerReset
    <3> QED
      BY <1>4, <3>1 DEF CallerReset
  <2> QED
    BY <2>1, Zenon DEF SumInv, Gathered, Late, Once
<1>5. ASSUME NEW js \in JobSets, IssueInit(js) PROVE SumInv'
  <2>1. ~Gathers' /\ \A e \in Elem : ~PassedBy(e)'
    BY <1>5 DEF IssueInit
  <2> QED
    BY <2>1, Zenon DEF SumInv, Gathered, Late, Once
<1>6. CASE IssueConnect
  <2>1. /\ wpc' = "wait" /\ apc' = "clear" /\ UNCHANGED dstate
        /\ \A e \in Elem : dstate[e] \notin Done
    BY <1>6 DEF IssueConnect, Threading, Control, Connection, NoneActive, Done, hdiags
  <2> QED
    BY <2>1 DEF SumInv, Gathered, Late, Once
<1>7. CASE IssueConnectFails
  BY <1>7, SameSum DEF IssueConnectFails, hdiags, hhist
<1>8. CASE IssueClear
  <2>1. /\ summary' = <<>> /\ cleared' = cleared \cup ToSet(summary)
        /\ UNCHANGED <<dstate, modified, fresh, wpc, wnext, connected>>
    BY <1>8 DEF IssueClear, hflags, hdiags
  <2>2. ToSet(<<>>) = {} /\ Len(<<>>) = 0 /\ 1..0 = {}
    BY DEF ToSet
  <2>3. Gathered'
    BY <2>1, Zenon DEF SumInv, Gathered
  <2>4. Late'
    BY <2>1, Zenon DEF SumInv, Late
  <2>5. Once'
    BY <2>1, <2>2, Zenon DEF Once
  <2> QED
    BY <2>3, <2>4, <2>5 DEF SumInv
<1>9. CASE IssueAnnounce
  BY <1>9, SameSum DEF IssueAnnounce, hflags, hdiags, hhist
<1>10. CASE IssueAnnounceCrashes
  BY <1>10, SameSum DEF IssueAnnounceCrashes, Crash, hflags, hdiags, hhist
<1> QED
  BY <1>1, <1>2, <1>3, <1>4, <1>5, <1>6, <1>7, <1>8, <1>9, <1>10 DEF Caller

LEMMA NextSum == ASSUME HInv, HwstTypeOK', SumInv, [HwstNext]_hvars PROVE SumInv'
<1>1. CASE UNCHANGED hvars
  BY <1>1, SameSum DEF HInv, Onward, Gathers, PassedBy, hvars, hflags, hdiags, hhist
<1> QED
  BY <1>1, LooperSum, WorkerSum, CallerSum DEF HwstNext

\* When the worker reports the end of a run, every result is in the summary once, save
\* what came while it looked for the last time and what issue cleared (hwst_sched.cpp).
THEOREM Summary_Complete == HwstSpec => []SummaryComplete
<1>1. HInv /\ [HwstNext]_hvars => HwstTypeOK'
  BY NextTypes DEF HInv
<1>2. HInv /\ HInv' /\ SumInv /\ [HwstNext]_hvars => SumInv'
  BY <1>1, NextSum
<1> QED
  BY <1>2, InitSum, ReportSum, HwstInvariant, PTL DEF HwstSpec

-----------------------------------------------------------------------------
(* The offer of the capabilities.                                          *)

\* Steps in which the worker has looked at capabilities_info for the last time.
LookedAtCaps == {"scan", "insert", "issue", "send", "alldone", "report"}

\* It looked too early if they are done and still not offered: they got done since.
OfferInv ==
    wpc \in LookedAtCaps /\ AllJobs /\ ~retrieved /\ dstate[Caps] = "finished" => Caps \in fresh

LEMMA OfferFrame ==
    ASSUME OfferInv, UNCHANGED <<jobs, retrieved>>,
           wpc' \in LookedAtCaps => wpc \in LookedAtCaps,
           dstate'[Caps] = "finished" => dstate[Caps] = "finished" \/ Caps \in fresh',
           fresh \subseteq fresh'
    PROVE  OfferInv'
BY Zenon DEF OfferInv, AllJobs

\* What changes no diag makes none of them done.
LEMMA OfferSame ==
    ASSUME OfferInv, UNCHANGED <<jobs, retrieved, dstate, fresh>>,
           wpc' \in LookedAtCaps => wpc \in LookedAtCaps
    PROVE  OfferInv'
BY Zenon DEF OfferInv, AllJobs

LEMMA OfferSettles ==
    ASSUME OfferInv, UNCHANGED <<jobs, retrieved>>, Settles,
           wpc' \in LookedAtCaps => wpc \in LookedAtCaps
    PROVE  OfferInv'
<1>1. Caps \in Elem
  BY HwstAssumption DEF Elem, Caps
<1>2. dstate'[Caps] = "finished" => dstate[Caps] = "finished" \/ Caps \in fresh'
  BY <1>1 DEF Settles, Done
<1> QED
  BY <1>2, OfferFrame DEF Settles

LEMMA LooperOffer ==
    ASSUME HInv, HwstTypeOK', OfferInv,
           \/ \E e \in Elem, k \in Kinds : LooperTake(e, k)
           \/ \E e \in Elem : AgentMute(e)
           \/ AgentDrop
           \/ Looper
    PROVE  OfferInv'
<1>1. CASE \E e \in Elem, k \in Kinds : LooperTake(e, k)
  BY <1>1, OfferSame DEF LooperTake, hdiags
<1>2. CASE \E e \in Elem : AgentMute(e)
  BY <1>2, OfferSame DEF AgentMute, hdiags
<1>3. CASE AgentDrop
  BY <1>3, OfferSame DEF AgentDrop, hdiags, hhist
<1>4. CASE LooperHandle
  BY <1>4, HandleSum, OfferSettles DEF LooperHandle
<1>5. CASE LooperNotify
  BY <1>5, OfferSame DEF LooperNotify, hdiags, hhist
<1>6. CASE LooperClosed
  BY <1>6, FailSum, OfferSettles DEF LooperClosed, HInv
<1>7. CASE LooperEnd
  BY <1>7, OfferSame DEF LooperEnd, hdiags, hhist
<1> QED
  BY <1>1, <1>2, <1>3, <1>4, <1>5, <1>6, <1>7 DEF Looper

LEMMA WorkerOffer == ASSUME HInv, HwstTypeOK', OfferInv, Worker PROVE OfferInv'
<1> USE DEF LookedAtCaps
<1>1. CASE WorkerWait \/ WorkerCollect \/ WorkerSend \/ WorkerReset
  <2>1. wpc' \notin LookedAtCaps
    BY <1>1 DEF WorkerWait, Looped, WorkerCollect, WorkerSend, WorkerReset
  <2> QED
    BY <2>1 DEF OfferInv
<1>2. ASSUME NEW named \in SUBSET Elem, EnableCapable(named) PROVE OfferInv'
  BY <1>2 DEF EnableCapable, OfferInv
<1>3. CASE WorkerNext
  BY <1>3 DEF WorkerNext, CapsToOffer, OfferInv, AllJobs, hdiags
<1>4. CASE WorkerScan
  BY <1>4, OfferSame DEF WorkerScan, hdiags, hhist
<1>5. CASE WorkerAllDone
  BY <1>5, OfferSame DEF WorkerAllDone, hdiags, hhist
<1>6. CASE WorkerInsert
  BY <1>6, OfferSame DEF WorkerInsert, hhist
<1>7. CASE WorkerIssue
  <2>1. wnext \in Elem /\ Caps \in Elem
    BY HwstAssumption DEF HInv, HwstTypeOK, Elem, Caps
  <2>2. dstate'[Caps] = "finished" => dstate[Caps] = "finished"
    BY <1>7, <2>1 DEF WorkerIssue, SetIssued, SetState, HInv, HwstTypeOK
  <2> QED
    BY <1>7, <2>2, OfferFrame DEF WorkerIssue, hhist
<1>8. CASE WorkerSendFails
  BY <1>8, OfferSame DEF WorkerSendFails, Crash, hdiags, hhist
<1>9. CASE WorkerReport
  BY <1>9 DEF WorkerReport, OfferInv
<1> QED
  BY <1>1, <1>2, <1>3, <1>4, <1>5, <1>6, <1>7, <1>8, <1>9 DEF Worker

LEMMA CallerOffer == ASSUME HInv, OfferInv, IssueCall \/ Destroy \/ Caller PROVE OfferInv'
<1> USE DEF LookedAtCaps
<1>1. CASE IssueCall \/ Destroy \/ CallerJoinsWorker
  BY <1>1, OfferSame DEF IssueCall, Destroy, CallerJoinsWorker, hdiags, hhist
<1>2. CASE CallerReset
  <2>1. wpc' = "none"
    BY <1>2 DEF CallerReset, HInv, Threading, Control
  <2> QED
    BY <2>1 DEF OfferInv
<1>3. ASSUME NEW js \in JobSets, IssueInit(js) PROVE OfferInv'
  BY <1>3 DEF IssueInit, OfferInv
<1>4. CASE IssueConnect \/ IssueConnectFails \/ IssueAnnounce \/ IssueAnnounceCrashes
  BY <1>4, OfferSame DEF IssueConnect, IssueConnectFails, IssueAnnounce, IssueAnnounceCrashes, Crash,
     hdiags, hhist
<1>5. CASE IssueClear
  BY <1>5, OfferSame DEF IssueClear, hdiags
<1> QED
  BY <1>1, <1>2, <1>3, <1>4, <1>5 DEF Caller

\* A run of all diags does not end with the capabilities known and not offered, unless
\* they came after the worker had looked for them (hwst_scenario_auto.cpp:82): the look,
\* the scan and checkAllDone are steps of their own between which messages are handled.
THEOREM Offered_Unless_Late == HwstSpec => []OfferedUnlessLate
<1>1. HwstInit => OfferInv
  BY DEF HwstInit, OfferInv, LookedAtCaps
<1>2. HInv /\ OfferInv /\ [HwstNext]_hvars => OfferInv'
  <2> SUFFICES ASSUME HInv, OfferInv, [HwstNext]_hvars PROVE OfferInv'
    OBVIOUS
  <2>1. HwstTypeOK'
    BY NextTypes DEF HInv
  <2>2. UNCHANGED hvars => OfferInv'
    BY OfferSame DEF hvars, hdiags, hhist
  <2> QED
    BY <2>1, <2>2, LooperOffer, WorkerOffer, CallerOffer DEF HwstNext
<1>3. OfferInv => OfferedUnlessLate
  BY DEF OfferInv, OfferedUnlessLate, LookedAtCaps
<1> QED
  BY <1>1, <1>2, <1>3, HwstInvariant, PTL DEF HwstSpec

-----------------------------------------------------------------------------
(* The refinement: each step is one of the run its caller sees, or none.   *)

Abstract == [e \in Elem |-> Stage(e)]

LEMMA StageOf ==
    ASSUME HwstTypeOK, NEW e \in Elem
    PROVE  /\ Stage(e) = "off" <=> dstate[e] = "disabled"
           /\ Stage(e) = "todo" <=> dstate[e] = "enabled"
           /\ Stage(e) = "asked" <=> dstate[e] \in Active
           /\ Stage(e) = "done" <=> dstate[e] \in Done
           /\ Stage(e) \in {"off", "todo", "asked", "done"}
BY DEF HwstTypeOK, Stage, DiagStates, Active, Done

\* Nothing is seen of a step that leaves the scheduler and the diags alone.
LEMMA Unseen == ASSUME UNCHANGED <<hstate, dstate>> PROVE UNCHANGED <<hstate, Abstract>>
BY DEF Abstract, Stage

\* What evolves on its own is settled.
LEMMA EvolvesSettles ==
    ASSUME HInv, HwstTypeOK', Evolves, UNCHANGED hstate, hstate = "idle" => UNCHANGED dstate
    PROVE  [Run!RunNext]_<<hstate, Abstract>>
<1> DEFINE some == {e \in Elem : dstate[e] \in Active /\ dstate'[e] \in Done}
<1>1. CASE hstate = "idle"
  BY <1>1, Unseen
<1>2. CASE hstate # "idle"
  <2>1. \A e \in Elem : Stage(e)' = IF e \in some THEN "done" ELSE Stage(e)
    <3> SUFFICES ASSUME NEW e \in Elem PROVE Stage(e)' = IF e \in some THEN "done" ELSE Stage(e)
      OBVIOUS
    <3> QED
      BY DEF Evolves, Stage, HInv, HwstTypeOK, DiagStates, Active, Done
  <2>2. \A e \in some : Abstract[e] = "asked"
    BY StageOf DEF Abstract, HInv
  <2>3. Abstract' = [e \in Elem |-> IF e \in some THEN "done" ELSE Abstract[e]]
    BY <2>1 DEF Abstract
  <2>4. some \in SUBSET Elem
    OBVIOUS
  <2> HIDE DEF some
  <2>5. Run!Settle(some)
    BY <1>2, <2>2, <2>3 DEF Run!Settle, Abstract
  <2> QED
    BY <2>4, <2>5 DEF Run!RunNext
<1> QED
  BY <1>1, <1>2

\* A connection that is lost settles what waited for an answer.
LEMMA FailSettles ==
    ASSUME HInv, HwstTypeOK', FailAll, UNCHANGED hstate
    PROVE  [Run!RunNext]_<<hstate, Abstract>>
<1>1. hstate = "idle" => UNCHANGED dstate
  <2> SUFFICES ASSUME hstate = "idle" PROVE dstate' = dstate
    OBVIOUS
  <2>1. byId = {} /\ byInst = {}
    BY DEF HInv, Threading, Phases, Connection
  <2> QED
    BY <2>1 DEF FailAll, HInv, HwstTypeOK
<1> QED
  BY <1>1, FailEvolves, EvolvesSettles DEF HInv

LEMMA LooperRefines ==
    ASSUME HInv, HwstTypeOK',
           \/ \E e \in Elem, k \in Kinds : LooperTake(e, k)
           \/ \E e \in Elem : AgentMute(e)
           \/ AgentDrop
           \/ Looper
    PROVE  [Run!RunNext]_<<hstate, Abstract>>
<1>1. (\E e \in Elem, k \in Kinds : LooperTake(e, k)) => UNCHANGED <<hstate, dstate>>
  BY DEF LooperTake, hdiags
<1>2. (\E e \in Elem : AgentMute(e)) => UNCHANGED <<hstate, dstate>>
  BY DEF AgentMute, hdiags
<1>3. AgentDrop \/ LooperNotify \/ LooperEnd => UNCHANGED <<hstate, dstate>>
  BY DEF AgentDrop, LooperNotify, LooperEnd, hdiags
<1>4. CASE LooperHandle
  <2>1. hstate = "idle" => UNCHANGED dstate
    BY <1>4, Handled DEF HInv, Threading, Phases
  <2> QED
    BY <1>4, <2>1, Handled, EvolvesSettles DEF LooperHandle
<1>5. CASE LooperClosed
  BY <1>5, FailSettles DEF LooperClosed
<1> QED
  BY <1>1, <1>2, <1>3, <1>4, <1>5, Unseen DEF Looper

LEMMA CapableRefines ==
    ASSUME HInv, HwstTypeOK', NEW named \in SUBSET Elem, EnableCapable(named)
    PROVE  [Run!RunNext]_<<hstate, Abstract>>
<1> DEFINE some == Capable(named)
<1>1. some \in SUBSET Elem /\ \A e \in some : dstate[e] = "disabled"
  BY DEF Capable
<1>2. hstate = "running" /\ UNCHANGED hstate
  BY DEF EnableCapable, HInv, Threading, Phases
<1>3. dstate' = [e \in Elem |-> IF e \in some THEN "enabled" ELSE dstate[e]]
  BY DEF EnableCapable
<1> HIDE DEF some
<1>4. \A e \in some : Abstract[e] = "off"
  BY <1>1, StageOf DEF Abstract, HInv
<1>5. Abstract' = [e \in Elem |-> IF e \in some THEN "todo" ELSE Abstract[e]]
  BY <1>3 DEF Abstract, Stage, Active
<1>6. Run!Offer(some)
  BY <1>2, <1>4, <1>5 DEF Run!Offer, Abstract
<1> QED
  BY <1>1, <1>6 DEF Run!RunNext

LEMMA IssueRefines ==
    ASSUME HInv, HwstTypeOK', WorkerIssue
    PROVE  [Run!RunNext]_<<hstate, Abstract>>
<1>1. wnext \in Elem /\ hstate = "running" /\ UNCHANGED hstate /\ dstate[wnext] = "enabled"
  BY DEF WorkerIssue, HInv, HwstTypeOK, Threading, Phases, Diagnosing, Ready
<1>2. dstate' = [dstate EXCEPT ![wnext] = "issued"]
  BY <1>1 DEF WorkerIssue, SetIssued, SetState
<1>3. Abstract' = [Abstract EXCEPT ![wnext] = "asked"]
  <2>1. \A e \in Elem : Stage(e)' = IF e = wnext THEN "asked" ELSE Stage(e)
    BY <1>1, <1>2 DEF Stage, Active, HInv, HwstTypeOK
  <2> QED
    BY <1>1, <2>1 DEF Abstract
<1>4. Abstract[wnext] = "todo"
  BY <1>1, StageOf DEF Abstract, HInv
<1>5. Run!Ask(wnext)
  BY <1>1, <1>3, <1>4 DEF Run!Ask, Abstract
<1> QED
  BY <1>1, <1>5 DEF Run!RunNext

LEMMA WorkerRefines ==
    ASSUME HInv, HwstTypeOK', Worker
    PROVE  [Run!RunNext]_<<hstate, Abstract>>
<1>1. CASE WorkerWait
  <2>1. hstate = "running" /\ UNCHANGED dstate /\ hstate' \in {"running", "finished"}
    BY <1>1 DEF WorkerWait, hdiags, HInv, Threading, Phases
  <2>2. CASE hstate' = "finished"
    <3>1. UNCHANGED Abstract
      BY <2>1 DEF Abstract, Stage
    <3>2. Run!End
      BY <2>1, <2>2, <3>1 DEF Run!End, Abstract
    <3> QED
      BY <3>2 DEF Run!RunNext
  <2> QED
    BY <2>1, <2>2, Unseen
<1>2. WorkerCollect \/ WorkerNext \/ WorkerScan \/ WorkerAllDone \/ WorkerInsert \/ WorkerSend
        \/ WorkerSendFails \/ WorkerReport => UNCHANGED <<hstate, dstate>>
  BY DEF WorkerCollect, WorkerNext, WorkerScan, WorkerAllDone, WorkerInsert, WorkerSend, WorkerSendFails, Crash, WorkerReport, hdiags
<1>3. CASE CommReset
  BY <1>3, FailSettles DEF CommReset
<1>4. DisconnectLock("worker") \/ (DisconnectJoin("worker") /\ UNCHANGED hstate)
        => UNCHANGED <<hstate, dstate>>
  BY DEF DisconnectLock, DisconnectJoin, hdiags
<1> QED
  BY <1>1, <1>2, <1>3, <1>4, CapableRefines, IssueRefines, Unseen DEF Worker, WorkerReset

LEMMA StartRefines ==
    ASSUME HInv, HwstTypeOK', NEW js \in JobSets, IssueInit(js)
    PROVE  [Run!RunNext]_<<hstate, Abstract>>
<1>1. hstate = "idle" /\ hstate' = "running" /\ dstate' = FirstEnabled(js)
  BY DEF IssueInit, HInv, Threading, Phases
<1>2. \A e \in Elem : Stage(e)' \in {"off", "todo"}
  BY <1>1 DEF FirstEnabled, Stage, Active
<1>3. Abstract' \in [Elem -> {"off", "todo"}]
  BY <1>2 DEF Abstract
<1>4. Run!Start
  BY <1>1, <1>3 DEF Run!Start, Abstract
<1> QED
  BY <1>4 DEF Run!RunNext

\* Once the client is closed the scheduler is idle again, or gone.
LEMMA RecycleRefines ==
    ASSUME HInv, HwstTypeOK', AfterReset, apc \in {"reset", "lock", "join"}, UNCHANGED dstate
    PROVE  [Run!RunNext]_<<hstate, Abstract>>
<1>1. CASE why = "destroy"
  BY <1>1, Unseen DEF AfterReset
<1>2. CASE why # "destroy"
  <2>1. hstate = "finished" /\ hstate' = "idle"
    BY <1>2 DEF AfterReset, HInv, HwstTypeOK, Threading, Control, Phases
  <2>2. UNCHANGED Abstract
    BY DEF Abstract, Stage
  <2>3. Run!Recycle
    BY <2>1, <2>2 DEF Run!Recycle, Abstract
  <2> QED
    BY <2>3 DEF Run!RunNext
<1> QED
  BY <1>1, <1>2

LEMMA CallerRefines ==
    ASSUME HInv, HwstTypeOK', IssueCall \/ Destroy \/ Caller
    PROVE  [Run!RunNext]_<<hstate, Abstract>>
<1>1. IssueCall \/ Destroy \/ CallerJoinsWorker => UNCHANGED <<hstate, dstate>>
  BY DEF IssueCall, Destroy, CallerJoinsWorker, hdiags
<1>2. IssueConnect \/ IssueConnectFails \/ IssueClear \/ IssueAnnounce \/ IssueAnnounceCrashes
        => UNCHANGED <<hstate, dstate>>
  BY DEF IssueConnect, IssueConnectFails, IssueClear, IssueAnnounce, IssueAnnounceCrashes, Crash, hdiags
<1>3. CASE CallerResetNone \/ CallerResetIdle
  BY <1>3, RecycleRefines DEF CallerResetNone, CallerResetIdle, hdiags
<1>4. CASE CallerResetJoins
  <2>1. UNCHANGED dstate /\ AfterReset /\ apc = "join"
    BY <1>4 DEF CallerResetJoins, DisconnectJoin, hdiags
  <2> QED
    BY <2>1, RecycleRefines
<1>5. CallerResetLocks => UNCHANGED <<hstate, dstate>>
  BY DEF CallerResetLocks, DisconnectLock, hdiags
<1>6. CASE CallerResetStarts
  BY <1>6, FailSettles DEF CallerResetStarts, CommReset
<1> QED
  BY <1>1, <1>2, <1>3, <1>4, <1>5, <1>6, StartRefines, Unseen, CallerResetCases DEF Caller

\* Scheduler, scenario and connection implement runs as their caller expects them:
\* each diag is asked at most once, only what was asked gets a result.
THEOREM Implements_Run == HwstSpec => ImplementsRun
<1>1. HwstInit => Run!RunInit
  <2> SUFFICES ASSUME HwstInit PROVE Run!RunInit
    OBVIOUS
  <2>1. \A e \in Elem : Stage(e) = "off"
    BY DEF HwstInit, Stage, Active
  <2> QED
    BY <2>1 DEF HwstInit, Run!RunInit
<1>2. HInv /\ HInv' /\ [HwstNext]_hvars => [Run!RunNext]_<<hstate, Abstract>>
  <2> SUFFICES ASSUME HInv, HInv', [HwstNext]_hvars PROVE [Run!RunNext]_<<hstate, Abstract>>
    OBVIOUS
  <2>1. UNCHANGED hvars => UNCHANGED <<hstate, dstate>>
    BY DEF hvars, hdiags
  <2>2. HwstTypeOK'
    BY DEF HInv
  <2> QED
    BY <2>1, <2>2, Unseen, LooperRefines, WorkerRefines, CallerRefines DEF HwstNext
<1> QED
  BY <1>1, <1>2, HwstInvariant, PTL DEF HwstSpec, ImplementsRun, Run!RunSpec, Abstract
=============================================================================
