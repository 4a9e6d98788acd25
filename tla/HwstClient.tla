----------------------------- MODULE HwstClient -----------------------------
(***************************************************************************)
(* The test client of the TR-69 profile and of the command line tool       *)
(* (tr69profile/hwst_sched, hwst_scenario*, hwst_comm, hwst_ws, hwst_diag):*)
(* a caller that issues test runs, the worker thread that asks the agent   *)
(* for one diag after the other, and the looper thread that receives the   *)
(* answers.  Worker and caller hold Ws::apiMutex while they close the      *)
(* connection and wait for the looper; the looper holds it in a callback.  *)
(*                                                                         *)
(* The diags of a scenario are its elements 1..Elements, the first one is  *)
(* capabilities_info.  A scenario without one of them has it disabled: an  *)
(* element that is disabled and one that is missing are never looked at.   *)
(***************************************************************************)
EXTENDS Naturals, Sequences, FiniteSets, SequencesExt, FiniteSetsExt

CONSTANTS Elements,     \* number of diags
          Av, Tuner,    \* positions of avdecoder_qam_status and tuner_status
          JobSets,      \* jobs a caller issues; {} asks for all (ScenarioAuto)
          MayDrop,      \* the agent may close the connection
          MayMute,      \* a message of the agent may be lost, or be an error
          MayDestroy    \* the caller may exit during a run

Elem == 1..Elements
Caps == 1

ASSUME HwstAssumption ==
    /\ Elements \in Nat \ {0}
    /\ Av \in Elem /\ Tuner \in Elem /\ Av # Tuner /\ Av # Caps /\ Tuner # Caps
    /\ JobSets \subseteq SUBSET Elem
    /\ MayDrop \in BOOLEAN /\ MayMute \in BOOLEAN /\ MayDestroy \in BOOLEAN

VARIABLES
    hstate,      \* Sched::state
    working, update, connected, cbHappened,  \* Sched's flags, under cbMutex
    summary,     \* elements whose result is in Sched::summary
    jobs, retrieved,    \* the scenario and ScenarioAuto::caps_retrieved
    dstate, modified,   \* Diag::status of each element
    byId, byInst,       \* byIdMap and byHInstanceMap
    comm,        \* Sched::comm is not null
    conn,        \* Ws::conn as the client and the agent see it
    holder,      \* thread that holds Ws::apiMutex over more than one step
    lpc, lmsg,   \* the looper and the message it holds
    wpc, wnext,  \* the worker and the element it looks at
    apc, why,    \* the caller of Sched, and what it destroys comm for
    agent,       \* what the agent has done about each element
    crashed,     \* the process is gone
    mute, fresh, cleared   \* history, see NothingForgotten, SummaryComplete

hflags == <<working, update, connected, cbHappened>>
hdiags == <<dstate, modified, byId, byInst>>
hhist == <<mute, fresh, cleared>>
hvars == <<hstate, hflags, summary, jobs, retrieved, hdiags, comm, conn, holder,
           lpc, lmsg, wpc, wnext, apc, why, agent, crashed, hhist>>

Active == {"issued", "running"}
Done == {"finished", "error"}
DiagStates == {"disabled", "enabled"} \cup Active \cup Done
Kinds == {"result", "null", "error", "progress", "eod"}
Threads == {"worker", "caller", "looper"}
NoMsg == [e |-> 0, k |-> "none"]
MessagesToClient == [e : Elem, k : Kinds] \cup {NoMsg}
WorkerSteps == {"none", "wait", "collect", "next", "scan", "insert", "issue", "send",
                "alldone", "report", "reset", "lock", "join", "ended"}
CallerSteps == {"ready", "stop", "init", "connect", "clear", "announce",
                "reset", "lock", "join", "gone"}

HwstInit ==
    /\ hstate = "idle"
    /\ working = FALSE /\ update = FALSE /\ connected = FALSE /\ cbHappened = FALSE
    /\ summary = <<>> /\ jobs = {Caps} /\ retrieved = FALSE
    /\ dstate = [e \in Elem |-> "disabled"] /\ modified = [e \in Elem |-> FALSE]
    /\ byId = {} /\ byInst = {}
    /\ comm = FALSE /\ conn = "none" /\ holder = "none"
    /\ lpc = "none" /\ lmsg = NoMsg
    /\ wpc = "none" /\ wnext = 1
    /\ apc = "ready" /\ why = "issue"
    /\ agent = [e \in Elem |-> "none"]
    /\ crashed = FALSE
    /\ mute = {} /\ fresh = {} /\ cleared = {}

-----------------------------------------------------------------------------
(* Diag: every change of state is legal from some states only.             *)

SetState(e, s) ==
    /\ dstate' = [dstate EXCEPT ![e] = s]
    /\ modified' = [modified EXCEPT ![e] = @ \/ dstate[e] # s]

SetIssued(e) ==
    IF dstate[e] = "enabled" THEN SetState(e, "issued") ELSE UNCHANGED <<dstate, modified>>

\* Mutant: the error is not marked as news.
SetErrorSilent(e) ==
    /\ dstate' = IF dstate[e] \in Active THEN [dstate EXCEPT ![e] = "error"] ELSE dstate
    /\ UNCHANGED modified

SetError(e) ==
    IF dstate[e] \in Active THEN SetState(e, "error") ELSE UNCHANGED <<dstate, modified>>

SetFinished(e) ==
    IF dstate[e] = "running" THEN SetState(e, "finished") ELSE UNCHANGED <<dstate, modified>>

SetProgress(e) ==
    IF dstate[e] \in Active
    THEN /\ dstate' = [dstate EXCEPT ![e] = "running"]
         /\ modified' = [modified EXCEPT ![e] = TRUE]
    ELSE UNCHANGED <<dstate, modified>>

-----------------------------------------------------------------------------
(* Scenario: ScenarioSet for given jobs, ScenarioAuto for all.             *)

AllJobs == jobs = {}
Quiet == jobs = {Caps}      \* a single job that is no *_status

Dependencies(e) ==
    (IF AllJobs /\ e # Caps THEN {Caps} ELSE {})
    \cup (IF e = Tuner /\ (AllJobs \/ Av \in jobs) THEN {Av} ELSE {})

\* Scenario::init: the elements of the set enabled, or capabilities_info alone.
FirstEnabled(js) ==
    [e \in Elem |-> IF e \in js \/ (js = {} /\ e = Caps) THEN "enabled" ELSE "disabled"]

DependenciesDone(e) ==
    \A d \in Dependencies(e) : dstate[d] \notin Active \cup {"enabled"}

EnabledElems == {e \in Elem : dstate[e] = "enabled"}

\* Mutant: dependencies are not looked at.
ReadyToRunAny(e) == dstate[e] = "enabled"

ReadyToRun(e) == dstate[e] = "enabled" /\ DependenciesDone(e)

\* Mutant: a running diag is taken for done.
CheckAllDoneIssued == \A e \in Elem : dstate[e] \notin {"issued", "enabled"}

CheckAllDone == \A e \in Elem : dstate[e] \notin Active \cup {"enabled"}

-----------------------------------------------------------------------------
(* Comm and Ws.                                                            *)

\* What Sched notes for the worker.
CbConnected == connected' = TRUE /\ update' = TRUE /\ cbHappened' = TRUE
CbDisconnected == connected' = FALSE /\ cbHappened' = TRUE

\* Comm::cbDisconnected, with Sched::cbDisconnected.
FailAll ==
    LET failed == {e \in byId \cup byInst : dstate[e] \in Active}
    IN /\ dstate' = [e \in Elem |-> IF e \in failed THEN "error" ELSE dstate[e]]
       /\ modified' = [e \in Elem |-> modified[e] \/ e \in failed]
       /\ fresh' = fresh \cup failed
       /\ byId' = {} /\ byInst' = {}
       /\ CbDisconnected

\* ~Comm starts: the pointer is null already.
CommReset ==
    /\ comm' = FALSE
    /\ FailAll
    /\ UNCHANGED <<hstate, working, update, summary, jobs, retrieved, conn, holder,
                   lpc, lmsg, wnext, why, agent, crashed, mute, cleared>>

\* Ws::disconnect takes the mutex and stops the looper ...
DisconnectLock(t) ==
    /\ holder = "none" /\ conn # "none"
    /\ holder' = t
    /\ UNCHANGED <<hstate, hflags, summary, jobs, retrieved, hdiags, comm, conn,
                   lpc, lmsg, wnext, why, agent, crashed, hhist>>

\* ... joins it, closes the connection and waits for the callback of that.
DisconnectJoin(t) ==
    /\ holder = t
    /\ lpc \in {"none", "ended"}
    /\ lpc' = "none" /\ conn' = "none" /\ holder' = "none"
    /\ CbDisconnected
    /\ agent' = [e \in Elem |-> "none"]
    /\ UNCHANGED <<working, update, summary, jobs, retrieved, hdiags, comm,
                   lmsg, wnext, crashed, hhist>>

Crash ==
    /\ crashed' = TRUE
    /\ UNCHANGED <<hstate, hflags, summary, jobs, retrieved, hdiags, comm, conn, holder,
                   lpc, lmsg, wpc, wnext, apc, why, agent, hhist>>

-----------------------------------------------------------------------------
(* The looper, and the agent at the other end of the connection.           *)

\* What the agent may send next about e.
Sendable(e) ==
    CASE agent[e] = "asked" -> {"result", "null"} \cup (IF MayMute THEN {"error"} ELSE {})
      [] agent[e] = "started" -> {"progress", "eod"}
      [] agent[e] = "progressed" -> {"eod"}
      [] OTHER -> {}

AgentAfter(k) ==
    CASE k = "result" -> "started" [] k = "progress" -> "progressed" [] OTHER -> "over"

\* The looper reads a message and comes to Ws::cbReceived.
LooperTake(e, k) ==
    /\ ~crashed /\ lpc = "loop" /\ conn = "open"
    /\ k \in Sendable(e)
    /\ agent' = [agent EXCEPT ![e] = AgentAfter(k)]
    /\ lpc' = "lock" /\ lmsg' = [e |-> e, k |-> k]
    /\ mute' = IF k = "error" THEN mute \cup {e} ELSE mute
    /\ UNCHANGED <<hstate, hflags, summary, jobs, retrieved, hdiags, comm, conn, holder,
                   wpc, wnext, apc, why, crashed, fresh, cleared>>

\* The message stayed out: the agent could not queue it, or failed before it.
AgentMute(e) ==
    /\ MayMute /\ ~crashed /\ conn = "open"
    /\ \/ agent[e] = "asked" /\ \E a \in {"started", "over"} : agent' = [agent EXCEPT ![e] = a]
       \/ agent[e] \in {"started", "progressed"} /\ agent' = [agent EXCEPT ![e] = "over"]
    /\ mute' = mute \cup {e}
    /\ UNCHANGED <<hstate, hflags, summary, jobs, retrieved, hdiags, comm, conn, holder,
                   lpc, lmsg, wpc, wnext, apc, why, crashed, fresh, cleared>>

\* Mutant: the diag leaves one map and does not enter the other.
HandleResultDrop(e) ==
    IF e \in byId
    THEN SetProgress(e) /\ byId' = byId \ {e} /\ UNCHANGED byInst
    ELSE UNCHANGED hdiags

\* Comm::cbReceived: the maps and the diag change under Comm's own mutex.
HandleResult(e) ==
    IF e \in byId
    THEN /\ SetProgress(e)
         /\ byId' = byId \ {e} /\ byInst' = byInst \cup {e}
    ELSE UNCHANGED hdiags

HandleNull(e) ==
    IF e \in byId
    THEN SetError(e) /\ byId' = byId \ {e} /\ UNCHANGED byInst
    ELSE UNCHANGED hdiags

HandleError(e) ==
    byId' = byId \ {e} /\ UNCHANGED <<byInst, dstate, modified>>

\* The number is looked for beside "params", but the agent puts it inside: a
\* message about progress tells the client nothing.
HandleProgress == UNCHANGED hdiags

HandleEod(e) ==
    IF e \in byInst
    THEN SetFinished(e) /\ byInst' = byInst \ {e} /\ UNCHANGED byId
    ELSE UNCHANGED hdiags

LooperHandle ==
    /\ ~crashed /\ lpc = "lock" /\ holder = "none"
    /\ holder' = "looper" /\ lpc' = "notify"
    /\ LET e == lmsg.e
       IN \/ lmsg.k = "result" /\ HandleResult(e)
          \/ lmsg.k = "null" /\ HandleNull(e)
          \/ lmsg.k = "error" /\ HandleError(e)
          \/ lmsg.k = "progress" /\ HandleProgress
          \/ lmsg.k = "eod" /\ HandleEod(e)
    /\ fresh' = fresh \cup {e \in Elem : dstate'[e] \in Done /\ dstate[e] \notin Done}
    /\ lmsg' = NoMsg
    /\ UNCHANGED <<hstate, hflags, summary, jobs, retrieved, comm, conn,
                   wpc, wnext, apc, why, agent, crashed, mute, cleared>>

\* Mutant: the worker is not told to look.
CbUpdateSilent == update' = TRUE /\ UNCHANGED cbHappened

\* Sched::cbUpdate.
CbUpdate == update' = TRUE /\ cbHappened' = TRUE

\* Back to nopoll_loop_wait.
LooperNotify ==
    /\ ~crashed /\ lpc = "notify"
    /\ CbUpdate
    /\ lpc' = "loop" /\ holder' = "none"
    /\ UNCHANGED <<hstate, working, connected, summary, jobs, retrieved, hdiags, comm, conn,
                   lmsg, wpc, wnext, apc, why, agent, crashed, hhist>>

AgentDrop ==
    /\ MayDrop /\ ~crashed /\ conn = "open" /\ lpc # "none"
    /\ conn' = "dropped"
    /\ UNCHANGED <<hstate, hflags, summary, jobs, retrieved, hdiags, comm, holder,
                   lpc, lmsg, wpc, wnext, apc, why, agent, crashed, hhist>>

\* The looper sees the connection closed: Ws::cbDisconnected.
LooperClosed ==
    /\ ~crashed /\ lpc = "loop" /\ conn = "dropped"
    /\ conn' = "closed"
    /\ FailAll
    /\ UNCHANGED <<hstate, working, update, summary, jobs, retrieved, comm, holder,
                   lpc, lmsg, wpc, wnext, apc, why, agent, crashed, mute, cleared>>

\* nopoll_loop_stop, called by the thread that holds the mutex.
LooperEnd ==
    /\ ~crashed /\ lpc = "loop" /\ holder \in {"worker", "caller"}
    /\ lpc' = "ended"
    /\ UNCHANGED <<hstate, hflags, summary, jobs, retrieved, hdiags, comm, conn, holder,
                   lmsg, wpc, wnext, apc, why, agent, crashed, hhist>>

Looper ==
    \/ LooperHandle
    \/ LooperNotify
    \/ LooperClosed
    \/ LooperEnd

-----------------------------------------------------------------------------
(* Sched::worker.                                                          *)

Looped == wpc' = IF working THEN "wait" ELSE "ended"

WorkerWait ==
    /\ ~crashed /\ wpc = "wait" /\ cbHappened
    /\ cbHappened' = FALSE
    /\ \/ /\ ~connected
          /\ working' = FALSE /\ hstate' = "finished" /\ wpc' = "ended"
          /\ UNCHANGED <<wnext, fresh>>
       \/ /\ connected /\ update
          /\ wpc' = "collect" /\ wnext' = 1 /\ fresh' = {}
          /\ UNCHANGED <<working, hstate>>
       \/ /\ connected /\ ~update
          /\ Looped
          /\ UNCHANGED <<working, hstate, wnext, fresh>>
    /\ UNCHANGED <<update, connected, summary, jobs, retrieved, hdiags, comm, conn, holder,
                   lpc, lmsg, apc, why, agent, crashed, mute, cleared>>

\* One element of the loop over the results; a LOG goes out for a reported one.
Reportable(e) == modified[e] /\ dstate[e] \in Done

\* Mutant: off by one at the end of the elements.
LastElementPassed(e) == e > Elements

LastElement(e) == e = Elements

WorkerCollect ==
    LET e == wnext
    IN /\ ~crashed /\ wpc = "collect"
       /\ (Reportable(e) /\ ~Quiet) => holder = "none"
       /\ summary' = IF Reportable(e) THEN Append(summary, e) ELSE summary
       /\ modified' = [modified EXCEPT ![e] = FALSE]
       /\ IF LastElement(e) THEN wpc' = "next" /\ wnext' = 1
                         ELSE wnext' = e + 1 /\ UNCHANGED wpc
       /\ UNCHANGED <<hstate, hflags, jobs, retrieved, dstate, byId, byInst, comm, conn, holder,
                      lpc, lmsg, apc, why, agent, crashed, hhist>>

\* Mutant: a diag is enabled again whatever its state.
CapableAny(named) == named

\* setEnabled: only what is disabled.
Capable(named) == {e \in named : dstate[e] = "disabled"}

\* Mutant: the capabilities are waited for as if they had to fail.
CapsToOfferError == AllJobs /\ ~retrieved /\ dstate[Caps] = "error"

CapsToOffer == AllJobs /\ ~retrieved /\ dstate[Caps] = "finished"

(* A look for the next diag holds no lock the looper needs: capabilities_info   *)
(* is looked at once, then the elements one by one, then, if nothing is left to *)
(* run, all of them again; any of them may get done in between.                 *)

ScanFromFirst == wpc' = "scan" /\ wnext' = 1

\* ScenarioAuto::nextToRun once capabilities_info is done: its data names diags.
EnableCapable(named) ==
    /\ ~crashed /\ wpc = "next" /\ CapsToOffer
    /\ retrieved' = TRUE
    /\ dstate' = [e \in Elem |-> IF e \in Capable(named) THEN "enabled" ELSE dstate[e]]
    /\ modified' = [e \in Elem |-> modified[e] \/ e \in Capable(named)]
    /\ ScanFromFirst
    /\ UNCHANGED <<hstate, hflags, summary, jobs, byId, byInst, comm, conn, holder,
                   lpc, lmsg, apc, why, agent, crashed, hhist>>

\* ... and as long as it is not, or in another scenario.
WorkerNext ==
    /\ ~crashed /\ wpc = "next" /\ ~CapsToOffer
    /\ ScanFromFirst
    /\ UNCHANGED <<hstate, hflags, summary, jobs, retrieved, hdiags, comm, conn, holder,
                   lpc, lmsg, apc, why, agent, crashed, hhist>>

\* Scenario::nextToRun at one element: the first ready one is run; behind the last
\* it depends on whether one was seen that waits for another.
WorkerScan ==
    LET e == wnext
    IN /\ ~crashed /\ wpc = "scan"
       /\ \/ ReadyToRun(e) /\ wpc' = "insert" /\ UNCHANGED wnext
          \/ ~ReadyToRun(e) /\ ~LastElement(e) /\ wnext' = e + 1 /\ UNCHANGED wpc
          \/ /\ ~ReadyToRun(e) /\ LastElement(e) /\ wnext' = 1
             /\ IF EnabledElems = {} THEN wpc' = "alldone" ELSE Looped
       /\ UNCHANGED <<hstate, hflags, summary, jobs, retrieved, hdiags, comm, conn, holder,
                      lpc, lmsg, apc, why, agent, crashed, hhist>>

\* checkAllDone: what is done stays done, so its looks are as good as one.
WorkerAllDone ==
    /\ ~crashed /\ wpc = "alldone"
    /\ IF CheckAllDone THEN wpc' = "report" ELSE Looped
    /\ UNCHANGED <<hstate, hflags, summary, jobs, retrieved, hdiags, comm, conn, holder,
                   lpc, lmsg, wnext, apc, why, agent, crashed, hhist>>

\* Comm::send: into the map, issued, then to the agent.
WorkerInsert ==
    /\ ~crashed /\ wpc = "insert"
    /\ byId' = byId \cup {wnext}
    /\ wpc' = "issue"
    /\ UNCHANGED <<hstate, hflags, summary, jobs, retrieved, dstate, modified, byInst, comm, conn,
                   holder, lpc, lmsg, wnext, apc, why, agent, crashed, hhist>>

WorkerIssue ==
    /\ ~crashed /\ wpc = "issue"
    /\ SetIssued(wnext)
    /\ wpc' = "send"
    /\ UNCHANGED <<hstate, hflags, summary, jobs, retrieved, byId, byInst, comm, conn,
                   holder, lpc, lmsg, wnext, apc, why, agent, crashed, hhist>>

WorkerSend ==
    /\ ~crashed /\ wpc = "send" /\ holder = "none"
    /\ conn \in {"open", "dropped"}
    /\ agent' = [agent EXCEPT ![wnext] = "asked"]
    /\ wpc' = "next" /\ wnext' = 1
    /\ UNCHANGED <<hstate, hflags, summary, jobs, retrieved, hdiags, comm, conn,
                   holder, lpc, lmsg, apc, why, crashed, hhist>>

\* A failed send erases an iterator that was never set (hwst_comm.cpp:112).
WorkerSendFails ==
    /\ ~crashed /\ wpc = "send" /\ holder = "none"
    /\ conn # "open"
    /\ Crash

\* telemetryLog looks at every diag; a test of its own is not reported there.
TelemetryLog ==
    \/ ~Quiet /\ modified' = [e \in Elem |-> FALSE]
    \/ (Quiet \/ Cardinality(jobs) = 1) /\ UNCHANGED modified

\* The logs and TESTRUN finish, unless the run is quiet.
WorkerReport ==
    /\ ~crashed /\ wpc = "report"
    /\ ~Quiet => holder = "none"
    /\ TelemetryLog
    /\ wpc' = "reset"
    /\ UNCHANGED <<hstate, hflags, summary, jobs, retrieved, dstate, byId, byInst, comm, conn,
                   holder, lpc, lmsg, wnext, apc, why, agent, crashed, hhist>>

\* comm.reset(); the worker goes on to find itself disconnected.
WorkerReset ==
    \/ /\ ~crashed /\ wpc = "reset"
       /\ CommReset
       /\ wpc' = "lock"
       /\ UNCHANGED apc
    \/ /\ ~crashed /\ wpc = "lock"
       /\ DisconnectLock("worker")
       /\ wpc' = "join"
       /\ UNCHANGED apc
    \/ /\ ~crashed /\ wpc = "join"
       /\ DisconnectJoin("worker")
       /\ Looped
       /\ UNCHANGED <<hstate, apc, why>>

Worker ==
    \/ WorkerWait
    \/ WorkerCollect
    \/ \E named \in SUBSET Elem : EnableCapable(named)
    \/ WorkerNext
    \/ WorkerScan
    \/ WorkerAllDone
    \/ WorkerInsert
    \/ WorkerIssue
    \/ WorkerSend
    \/ WorkerSendFails
    \/ WorkerReport
    \/ WorkerReset

-----------------------------------------------------------------------------
(* Sched::issue, one call at a time, and ~Sched.                           *)

StopWorker == working' = FALSE /\ cbHappened' = TRUE

\* A call while a run is on returns at once and changes nothing.
IssueCall ==
    /\ ~crashed /\ apc = "ready"
    /\ \/ hstate = "idle" /\ apc' = "init" /\ UNCHANGED <<working, cbHappened>>
       \/ hstate = "finished" /\ StopWorker /\ apc' = "stop"
    /\ why' = "issue"
    /\ UNCHANGED <<hstate, update, connected, summary, jobs, retrieved, hdiags, comm, conn,
                   holder, lpc, lmsg, wpc, wnext, agent, crashed, hhist>>

\* The caller is the command line tool or the daemon, and exits.
Destroy ==
    /\ ~crashed /\ MayDestroy /\ apc = "ready"
    /\ why' = "destroy"
    /\ IF wpc = "none" THEN apc' = "reset" /\ UNCHANGED <<working, cbHappened>>
                       ELSE StopWorker /\ apc' = "stop"
    /\ UNCHANGED <<hstate, update, connected, summary, jobs, retrieved, hdiags, comm, conn,
                   holder, lpc, lmsg, wpc, wnext, agent, crashed, hhist>>

\* thd->join(), then comm.reset().
CallerJoinsWorker ==
    /\ ~crashed /\ apc = "stop" /\ wpc = "ended"
    /\ wpc' = "none" /\ apc' = "reset"
    /\ UNCHANGED <<hstate, hflags, summary, jobs, retrieved, hdiags, comm, conn,
                   holder, lpc, lmsg, wnext, why, agent, crashed, hhist>>

\* Once comm is gone a new run starts, the failed one returns, or the caller ends.
AfterReset ==
    /\ apc' = CASE why = "issue" -> "init" [] why = "failed" -> "ready" [] OTHER -> "gone"
    /\ why' = IF why = "failed" THEN "issue" ELSE why
    /\ hstate' = IF why = "destroy" THEN hstate ELSE "idle"

CallerReset ==
    \/ /\ ~crashed /\ apc = "reset" /\ ~comm
       /\ AfterReset
       /\ UNCHANGED <<hflags, summary, jobs, retrieved, hdiags, comm, conn, holder,
                      lpc, lmsg, wpc, wnext, agent, crashed, hhist>>
    \/ /\ ~crashed /\ apc = "reset" /\ comm
       /\ CommReset
       /\ apc' = "lock"
       /\ UNCHANGED wpc
    \/ /\ ~crashed /\ apc = "lock" /\ conn = "none" /\ holder = "none"
       /\ AfterReset
       /\ UNCHANGED <<hflags, summary, jobs, retrieved, hdiags, comm, conn, holder,
                      lpc, lmsg, wpc, wnext, agent, crashed, hhist>>
    \/ /\ ~crashed /\ apc = "lock"
       /\ DisconnectLock("caller")
       /\ apc' = "join"
       /\ UNCHANGED wpc
    \/ /\ ~crashed /\ apc = "join"
       /\ DisconnectJoin("caller")
       /\ AfterReset
       /\ UNCHANGED wpc

IssueInit(js) ==
    /\ ~crashed /\ apc = "init"
    /\ jobs' = js /\ retrieved' = FALSE
    /\ dstate' = FirstEnabled(js)
    /\ modified' = [e \in Elem |-> FirstEnabled(js)[e] = "enabled"]
    /\ connected' = FALSE /\ update' = FALSE /\ working' = TRUE /\ cbHappened' = FALSE
    /\ hstate' = "running"
    /\ wpc' = "wait" /\ comm' = TRUE
    /\ apc' = "connect"
    /\ mute' = {} /\ fresh' = {} /\ cleared' = {}
    /\ UNCHANGED <<summary, byId, byInst, conn, holder, lpc, lmsg, wnext, why, agent, crashed>>

\* Ws::connect, Ws::cbConnected and the looper started, under Ws::apiMutex.
IssueConnect ==
    /\ ~crashed /\ apc = "connect"
    /\ conn' = "open" /\ lpc' = "loop"
    /\ CbConnected
    /\ apc' = "clear"
    /\ UNCHANGED <<hstate, working, summary, jobs, retrieved, hdiags, comm, holder,
                   lmsg, wpc, wnext, why, agent, crashed, hhist>>

\* No connection at all, or one that does not get ready in time: cbConnected is
\* not called.
IssueConnectFails ==
    /\ ~crashed /\ apc = "connect"
    /\ conn' \in {"none", "open"}
    /\ StopWorker
    /\ why' = "failed" /\ apc' = "stop"
    /\ UNCHANGED <<hstate, update, connected, summary, jobs, retrieved, hdiags, comm, holder,
                   lpc, lmsg, wpc, wnext, agent, crashed, hhist>>

IssueClear ==
    /\ ~crashed /\ apc = "clear"
    /\ summary' = <<>> /\ cleared' = cleared \cup ToSet(summary)
    /\ apc' = "announce"
    /\ UNCHANGED <<hstate, hflags, jobs, retrieved, hdiags, comm, conn, holder,
                   lpc, lmsg, wpc, wnext, why, agent, crashed, mute, fresh>>

\* LOG and TESTRUN start through comm, which the worker may have reset.
IssueAnnounce ==
    /\ ~crashed /\ apc = "announce"
    /\ \/ Quiet \/ (comm /\ holder = "none")
    /\ apc' = "ready"
    /\ UNCHANGED <<hstate, hflags, summary, jobs, retrieved, hdiags, comm, conn, holder,
                   lpc, lmsg, wpc, wnext, why, agent, crashed, hhist>>

IssueAnnounceCrashes ==
    /\ ~crashed /\ apc = "announce" /\ ~Quiet /\ ~comm
    /\ Crash

\* What the caller does once it has called.
Caller ==
    \/ CallerJoinsWorker
    \/ CallerReset
    \/ \E js \in JobSets : IssueInit(js)
    \/ IssueConnect
    \/ IssueConnectFails
    \/ IssueClear
    \/ IssueAnnounce
    \/ IssueAnnounceCrashes

AgentAnswer(e) == \E k \in Kinds \ {"progress"} : LooperTake(e, k)

HwstNext ==
    \/ \E e \in Elem, k \in Kinds : LooperTake(e, k)
    \/ \E e \in Elem : AgentMute(e)
    \/ AgentDrop
    \/ Looper
    \/ Worker
    \/ IssueCall
    \/ Destroy
    \/ Caller

\* Every thread goes on; the agent ends and answers what it started.
HwstFairness ==
    /\ WF_hvars(Looper)
    /\ WF_hvars(Worker)
    /\ WF_hvars(Caller)
    /\ \A e \in Elem : WF_hvars(AgentAnswer(e))

HwstSpec == HwstInit /\ [][HwstNext]_hvars /\ HwstFairness
-----------------------------------------------------------------------------
(* Properties.                                                             *)

\* Every variable has its type.
HwstTypeOK ==
    /\ hstate \in {"idle", "running", "finished"}
    /\ working \in BOOLEAN /\ update \in BOOLEAN
    /\ connected \in BOOLEAN /\ cbHappened \in BOOLEAN
    /\ summary \in Seq(Elem) /\ jobs \in SUBSET Elem /\ retrieved \in BOOLEAN
    /\ dstate \in [Elem -> DiagStates] /\ modified \in [Elem -> BOOLEAN]
    /\ byId \in SUBSET Elem /\ byInst \in SUBSET Elem
    /\ comm \in BOOLEAN /\ conn \in {"none", "open", "dropped", "closed"}
    /\ holder \in {"none"} \cup Threads
    /\ lpc \in {"none", "loop", "lock", "notify", "ended"} /\ lmsg \in MessagesToClient
    /\ wpc \in WorkerSteps /\ wnext \in Elem
    /\ apc \in CallerSteps /\ why \in {"issue", "failed", "destroy"}
    /\ agent \in [Elem -> {"none", "asked", "started", "progressed", "over"}]
    /\ crashed \in BOOLEAN
    /\ mute \in SUBSET Elem /\ fresh \in SUBSET Elem /\ cleared \in SUBSET Elem

\* While a diag is with the agent no diag it depends on is still to run: the
\* tuner is tested when the decoder is free, everything after the capabilities.
DependencyFirst ==
    \A e \in Elem : dstate[e] \in Active => DependenciesDone(e)

\* A diag that waits for the agent is in one of Comm's maps, where an answer or
\* a disconnection finds it, unless the agent answered with an error.
NothingForgotten ==
    ~crashed => \A e \in Elem :
        dstate[e] \in Active => e \in byId \cup byInst \cup mute \/ conn \in {"none", "closed"}

\* When the worker reports the end of a run, the summary has every result once,
\* except those that came during its last pass over the diags, or that issue
\* wiped out when it cleared the summary of a run already under way.  Until then
\* it still has the results of the run before.
SummaryComplete ==
    wpc = "report" /\ apc # "clear" =>
        /\ \A e \in Elem : dstate[e] \in Done => e \in ToSet(summary) \cup fresh \cup cleared
        /\ \A i, j \in 1..Len(summary) : summary[i] = summary[j] => i = j

\* A run of all diags ends with the diags that the capabilities named offered to the
\* test, unless capabilities_info got done behind the back of the worker, during its
\* last pass: it then ends the run with nothing but capabilities_info tested.
OfferedUnlessLate ==
    wpc = "report" /\ AllJobs /\ dstate[Caps] = "finished" => retrieved \/ Caps \in fresh

\* What "re-enable diags that are present in capabililies info" (hwst_scenario_auto.cpp)
\* promises without that exception: no run of all diags ends with the capabilities
\* there and not looked at.
CapabilitiesOffered ==
    wpc = "report" /\ AllJobs /\ dstate[Caps] = "finished" => retrieved

\* The worker closes the connection only when no message can be on its way: it
\* never waits for a looper that waits for the mutex the worker holds.
OrderlyEndNeverBlocks ==
    holder = "worker" => lpc # "lock"

\* A run comes to its end if the agent answers, and the call that started it
\* returns: no notification is lost between the looper, the flags and the worker.
RunEnds ==
    /\ hstate = "running" ~> hstate # "running" \/ mute # {} \/ crashed \/ why = "destroy"
    /\ apc # "ready" ~> apc = "ready" \/ crashed \/ why = "destroy"

\* A run as its caller sees it: each diag is asked for at most once, and only
\* what was asked for gets a result.
Stage(e) ==
    CASE dstate[e] = "disabled" -> "off"
      [] dstate[e] = "enabled" -> "todo"
      [] dstate[e] \in Active -> "asked"
      [] OTHER -> "done"

Run == INSTANCE TestRun WITH Diags <- Elem, phase <- hstate,
                             stage <- [e \in Elem |-> Stage(e)]

\* Scheduler, scenario and connection together implement such runs.
ImplementsRun == Run!RunSpec
=============================================================================
