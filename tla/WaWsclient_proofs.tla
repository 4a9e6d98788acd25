------------------------- MODULE WaWsclient_proofs -------------------------
(***************************************************************************)
(* What the settings of the periodic run guarantee for any processes and   *)
(* any values asked for.                                                   *)
(***************************************************************************)
EXTENDS WaWsclient, TLAPS

-----------------------------------------------------------------------------
(* The invariant.                                                          *)

StopSteps == {"exists", "start", "uptime", "runner", "unstop"}

\* Each step belongs to some of the handlers only.
Fits(p) ==
    /\ tpc[p] = "create" => top[p] = "enable"
    /\ tpc[p] = "check" => top[p] \notin {"none", "enable"}
    /\ tpc[p] = "set" => top[p] \in {"freq", "cpu", "dram"}
    /\ tpc[p] \in {"rewrite", "status"} => top[p] = "freq"
    /\ tpc[p] = "stop" => top[p] \in StopsTimer \cup {"freq"}
    /\ tpc[p] \in StopSteps => SwitchOn(p)
    /\ tpc[p] \in {"destroy", "unlink"} => top[p] = "disable"

TrInv == TrTypeOK /\ \A p \in Processes : Fits(p)

Stopped == ~timerOn \/ stopFailed

\* Requests that have not overlapped: one at most is under way.
OneBusy == \A p, q \in Processes : tpc[p] # "idle" /\ tpc[q] # "idle" => p = q

\* What a handler has done to the timer before each of its steps.
TimerAt(p) ==
    /\ tpc[p] \in {"exists", "start", "destroy", "unlink"} => Stopped
    /\ tpc[p] \in {"uptime", "runner", "unstop"} => timerOn
    /\ ~enabled => tpc[p] \in {"idle", "create", "check"}

Orderly ==
    ~raced => OneBusy /\ (\A p \in Processes : TimerAt(p)) /\ (~enabled => Stopped)

\* A running timer has a file, and the file has the frequency that is saved,
\* except between the two writes of a request that changes it.
InStep ==
    ~raced =>
        /\ timerOn /\ timerFile = Missing => stopFailed
        /\ ~stale =>
              /\ timerFile # Missing =>
                    timerFile = disk.freq \/ \E p \in Processes : tpc[p] = "rewrite"
              /\ \A p \in Processes : tpc[p] = "rewrite" => disk.freq = Wanted(p)

\* A running timer has the frequency of its file, except between the writing of the
\* file and the stop that precedes the new start.
Running ==
    ~raced /\ timerOn /\ ~unapplied /\ ~stopFailed =>
        timerFreq = timerFile \/ \E p \in Processes : tpc[p] \in {"status", "stop"}

WsInv == TrInv /\ Orderly /\ InStep /\ Running

-----------------------------------------------------------------------------
(* Types.                                                                  *)

LEMMA TrInit_TrInv == TrInit => TrInv
<1> SUFFICES ASSUME TrInit PROVE TrInv
  OBVIOUS
<1>1. TrTypeOK
  <2>1. disk \in Settings /\ Defaults \in Settings
    BY DEF TrInit, Settings, Defaults, Missing
  <2>2. mem \in [Processes -> Settings]
    BY <2>1 DEF TrInit
  <2>3. tpc \in [Processes -> Steps] /\ top \in [Processes -> Ops] /\ tval \in [Processes -> Nat]
    BY DEF TrInit, Steps, Ops
  <2> QED
    BY <2>1, <2>2, <2>3 DEF TrInit, TrTypeOK, Missing
<1>2. \A p \in Processes : Fits(p)
  BY DEF TrInit, Fits, StopSteps
<1> QED
  BY <1>1, <1>2 DEF TrInv

\* Settings are settings again once they are repaired.
LEMMA RepairedType == ASSUME NEW s \in Settings PROVE Repaired(s) \in Settings
BY DEF Repaired, Settings, Defaults

\* What is asked for is a number of its kind.
LEMMA WantedType ==
    ASSUME TrTypeOK, NEW p \in Processes, top[p] \in {"freq", "cpu", "dram"}
    PROVE  Wanted(p) \in Nat \ {0}
BY DEF TrTypeOK, Wanted, Defaults

LEMMA StartProcessType ==
    ASSUME TrInv, NEW p \in Processes, StartProcess(p)
    PROVE  TrInv'
<1>1. Repaired(disk) \in Settings
  BY RepairedType DEF TrInv, TrTypeOK
<1> QED
  BY <1>1 DEF TrInv, TrTypeOK, StartProcess, Fits, SwitchOn, ttimer, thist

LEMMA RequestType ==
    ASSUME TrInv, NEW p \in Processes, NEW o \in Ops \ {"none"}, NEW v \in Nat, Begin(p, o, v)
    PROVE  TrInv'
<1>1. TrTypeOK'
  BY DEF TrInv, TrTypeOK, Begin, tfiles, ttimer, Steps
<1>2. \A q \in Processes : Fits(q)'
  <2> SUFFICES ASSUME NEW q \in Processes PROVE Fits(q)'
    OBVIOUS
  <2> QED
    BY DEF TrInv, TrTypeOK, Begin, Fits, SwitchOn, StopSteps
<1> QED
  BY <1>1, <1>2 DEF TrInv

\* A step that only moves on.
LEMMA GotoType ==
    ASSUME TrInv, NEW p \in Processes, NEW s \in Steps, Goto(p, s)
    PROVE  /\ tpc' \in [Processes -> Steps] /\ top' = top /\ tval' = tval /\ treply' = "none"
           /\ tpc'[p] = s
           /\ \A q \in Processes \ {p} : tpc'[q] = tpc[q]
BY DEF TrInv, TrTypeOK, Goto

\* One that answers.
LEMMA AnswerType ==
    ASSUME TrInv, NEW p \in Processes, NEW r, Answer(p, r)
    PROVE  /\ tpc' \in [Processes -> Steps] /\ top' \in [Processes -> Ops]
           /\ tval' \in [Processes -> Nat] /\ treply' = r
           /\ tpc'[p] = "idle"
           /\ \A q \in Processes \ {p} : tpc'[q] = tpc[q] /\ top'[q] = top[q]
BY DEF TrInv, TrTypeOK, Answer, Steps, Ops

\* The steps of a process that stay where they are keep to their handlers.
LEMMA FitsFrame ==
    ASSUME TrInv, NEW p \in Processes, Fits(p)',
           \A q \in Processes \ {p} : tpc'[q] = tpc[q] /\ top'[q] = top[q]
    PROVE  \A q \in Processes : Fits(q)'
BY DEF TrInv, Fits, SwitchOn

\* A handler that moves on to a step of its own.
LEMMA GotoFits ==
    ASSUME TrInv, NEW p \in Processes, NEW s \in Steps, Goto(p, s),
           /\ s # "create" /\ s # "check"
           /\ s = "set" => top[p] \in {"freq", "cpu", "dram"}
           /\ s \in {"rewrite", "status"} => top[p] = "freq"
           /\ s = "stop" => top[p] \in StopsTimer \cup {"freq"}
           /\ s \in StopSteps => SwitchOn(p)
           /\ s \in {"destroy", "unlink"} => top[p] = "disable"
    PROVE  \A q \in Processes : Fits(q)'
<1>1. Fits(p)'
  BY GotoType DEF Fits, SwitchOn
<1> QED
  BY <1>1, FitsFrame, GotoType

LEMMA AnswerFits ==
    ASSUME TrInv, NEW p \in Processes, NEW r, Answer(p, r)
    PROVE  \A q \in Processes : Fits(q)'
<1>1. Fits(p)'
  BY AnswerType DEF Fits, StopSteps
<1> QED
  BY <1>1, FitsFrame, AnswerType

\* What a step of a handler leaves of the other variables is typed.
FilesType ==
    /\ enabled \in BOOLEAN /\ timerOn \in BOOLEAN /\ timerFile \in Nat /\ timerFreq \in Nat
    /\ disk \in Settings /\ mem \in [Processes -> Settings]
    /\ raced \in BOOLEAN /\ stopFailed \in BOOLEAN /\ unapplied \in BOOLEAN /\ stale \in BOOLEAN

LEMMA GotoKeeps ==
    ASSUME TrInv, NEW p \in Processes, NEW s \in Steps, Goto(p, s), FilesType',
           /\ s # "create" /\ s # "check"
           /\ s = "set" => top[p] \in {"freq", "cpu", "dram"}
           /\ s \in {"rewrite", "status"} => top[p] = "freq"
           /\ s = "stop" => top[p] \in StopsTimer \cup {"freq"}
           /\ s \in StopSteps => SwitchOn(p)
           /\ s \in {"destroy", "unlink"} => top[p] = "disable"
    PROVE  TrInv'
BY GotoType, GotoFits DEF TrInv, TrTypeOK, FilesType

LEMMA AnswerKeeps ==
    ASSUME TrInv, NEW p \in Processes, NEW r \in {"ok", "error", "invalid", "ignored"},
           Answer(p, r), FilesType'
    PROVE  TrInv'
BY AnswerType, AnswerFits DEF TrInv, TrTypeOK, FilesType

LEMMA SetValueType ==
    ASSUME TrInv, NEW p \in Processes, SetValue(p)
    PROVE  TrInv'
<1> DEFINE s == [mem[p] EXCEPT ![top[p]] = Wanted(p)]
<1>1. top[p] \in {"freq", "cpu", "dram"}
  BY DEF TrInv, Fits, SetValue
<1>2. s \in Settings
  BY <1>1, WantedType DEF TrInv, TrTypeOK, Settings
<1>3. FilesType'
  BY <1>2 DEF SetValue, ttimer, Save, NotSaved, TrInv, TrTypeOK, FilesType
<1>4. \/ Goto(p, "rewrite") /\ top[p] = "freq"
      \/ \E r \in {"ok", "error", "invalid"} : Answer(p, r)
  BY <1>1 DEF SetValue
<1> QED
  BY <1>3, <1>4, GotoKeeps, AnswerKeeps DEF Steps, StopSteps

\* What systemctl stop leaves.
LEMMA StopType ==
    ASSUME TrTypeOK, StopSucceeds \/ StopFails
    PROVE  /\ timerOn' \in BOOLEAN /\ timerFreq' \in Nat
           /\ stopFailed' \in BOOLEAN /\ unapplied' \in BOOLEAN
<1>1. CASE StopSucceeds
  BY <1>1 DEF StopSucceeds, Missing
<1>2. CASE StopFails
  BY <1>2 DEF StopFails, ttimer, TrTypeOK
<1> QED
  BY <1>1, <1>2

LEMMA HandlerType ==
    ASSUME TrInv, NEW p \in Processes, Handler(p)
    PROVE  TrInv'
<1> USE DEF TrInv, TrTypeOK, FilesType, tfiles, ttimer, thist, Steps
<1>1. CASE CreateEnableFile(p)
  <2>1. FilesType'
    BY <1>1 DEF CreateEnableFile
  <2> QED
    BY <1>1, <2>1, AnswerKeeps DEF CreateEnableFile
<1>2. CASE CheckEnabled(p)
  <2>1. FilesType'
    BY <1>2 DEF CheckEnabled
  <2>2. top[p] \in Ops \ {"none", "enable"}
    BY <1>2 DEF CheckEnabled, Fits
  <2>3. CASE Goto(p, IF top[p] \in StopsTimer THEN "stop" ELSE "set")
    BY <2>1, <2>2, <2>3, GotoKeeps DEF StopsTimer, StopSteps, Ops
  <2>4. CASE Answer(p, IF top[p] = "disable" THEN "ok" ELSE "ignored")
    BY <2>1, <2>4, AnswerKeeps
  <2> QED
    BY <1>2, <2>3, <2>4 DEF CheckEnabled
<1>3. CASE SetValue(p)
  BY <1>3, SetValueType
<1>4. CASE RewriteTimer(p)
  <2>1. top[p] = "freq"
    BY <1>4 DEF RewriteTimer, Fits
  <2>2. FilesType'
    BY <1>4, <2>1, WantedType DEF RewriteTimer
  <2>3. Goto(p, "status") \/ Answer(p, "error")
    BY <1>4 DEF RewriteTimer
  <2> QED
    BY <2>1, <2>2, <2>3, GotoKeeps, AnswerKeeps DEF StopSteps
<1>5. CASE TimerStatus(p)
  <2>1. top[p] = "freq"
    BY <1>5 DEF TimerStatus, Fits
  <2>2. FilesType'
    BY <1>5 DEF TimerStatus
  <2>3. Goto(p, "stop") \/ Answer(p, "ok")
    BY <1>5 DEF TimerStatus
  <2> QED
    BY <2>1, <2>2, <2>3, GotoKeeps, AnswerKeeps DEF StopSteps
<1>6. CASE StopTimer(p)
  <2>1. FilesType'
    <3>1. StopSucceeds \/ StopFails
      BY <1>6 DEF StopTimer
    <3>2. UNCHANGED <<enabled, disk, mem, timerFile, raced, stale>>
      BY <1>6 DEF StopTimer
    <3> QED
      BY <3>1, <3>2, StopType
  <2>2. \/ SwitchOn(p) /\ Goto(p, "exists")
        \/ top[p] = "disable" /\ Goto(p, "destroy")
        \/ Answer(p, "ok")
    BY <1>6 DEF StopTimer, StopSucceeds, StopFails, ttimer
  <2> QED
    BY <2>1, <2>2, GotoKeeps, AnswerKeeps DEF StopSteps
<1>7. CASE EnsureTimerFile(p)
  <2>1. FilesType'
    BY <1>7 DEF EnsureTimerFile, Settings
  <2>2. SwitchOn(p)
    BY <1>7 DEF EnsureTimerFile, Fits, StopSteps
  <2>3. Goto(p, "start") \/ Answer(p, "error")
    BY <1>7 DEF EnsureTimerFile
  <2> QED
    BY <2>1, <2>2, <2>3, GotoKeeps, AnswerKeeps DEF StopSteps
<1>8. CASE StartTimer(p)
  <2>1. FilesType'
    BY <1>8 DEF StartTimer
  <2>2. SwitchOn(p)
    BY <1>8 DEF StartTimer, Fits, StopSteps
  <2>3. Goto(p, "uptime") \/ Answer(p, "error")
    BY <1>8 DEF StartTimer
  <2> QED
    BY <2>1, <2>2, <2>3, GotoKeeps, AnswerKeeps DEF StopSteps
<1>9. CASE CheckUptime(p) \/ StartRunner(p)
  <2>1. FilesType'
    BY <1>9 DEF CheckUptime, StartRunner
  <2>2. SwitchOn(p)
    BY <1>9 DEF CheckUptime, StartRunner, Fits, StopSteps
  <2>3. Goto(p, "runner") \/ Goto(p, "unstop") \/ Answer(p, "ok")
    BY <1>9 DEF CheckUptime, StartRunner
  <2> QED
    BY <2>1, <2>2, <2>3, GotoKeeps, AnswerKeeps DEF StopSteps
<1>10. CASE UndoStart(p)
  <2>1. FilesType'
    <3>1. StopSucceeds \/ StopFails
      BY <1>10 DEF UndoStart
    <3>2. UNCHANGED <<enabled, disk, mem, timerFile, raced, stale>>
      BY <1>10 DEF UndoStart
    <3> QED
      BY <3>1, <3>2, StopType
  <2> QED
    BY <1>10, <2>1, AnswerKeeps DEF UndoStart, StopSucceeds, StopFails, ttimer
<1>11. CASE DestroyTimer(p)
  <2>1. FilesType'
    BY <1>11 DEF DestroyTimer, Missing
  <2>2. top[p] = "disable"
    BY <1>11 DEF DestroyTimer, Fits
  <2> QED
    BY <1>11, <2>1, <2>2, GotoKeeps DEF DestroyTimer, StopSteps
<1>12. CASE UnlinkEnableFile(p)
  <2>1. FilesType'
    BY <1>12 DEF UnlinkEnableFile
  <2> QED
    BY <1>12, <2>1, AnswerKeeps DEF UnlinkEnableFile
<1> QED
  BY <1>1, <1>2, <1>3, <1>4, <1>5, <1>6, <1>7, <1>8, <1>9, <1>10, <1>11, <1>12
     DEF Handler

\* What a process is asked for.
LEMMA RequestKinds ==
    ASSUME NEW p \in Processes, Request(p)
    PROVE  \E o \in Ops \ {"none"}, v \in Nat : Begin(p, o, v)
BY WsclientAssumption DEF Request, EnableRequest, PeriodicRequest, FrequencyRequest,
       CpuRequest, DramRequest, Ops

LEMMA TrTypeStep == TrInv /\ [TrNext]_tvars => TrInv'
<1> SUFFICES ASSUME TrInv, [TrNext]_tvars PROVE TrInv'
  OBVIOUS
<1>1. CASE UNCHANGED tvars
  BY <1>1 DEF tvars, tfiles, ttimer, tproc, thist, TrInv, TrTypeOK, Fits, SwitchOn
<1>2. CASE TrNext
  BY <1>2, StartProcessType, RequestType, RequestKinds, HandlerType DEF TrNext
<1> QED
  BY <1>1, <1>2

LEMMA TrAlways == TrSpec => []TrInv
BY TrInit_TrInv, TrTypeStep, PTL DEF TrSpec

\* The settings, the files and the steps of the processes keep to their types.
THEOREM WsclientTypes == TrSpec => []TrTypeOK
<1>1. TrInv => TrTypeOK
  BY DEF TrInv
<1> QED
  BY <1>1, TrAlways, PTL

-----------------------------------------------------------------------------
(* Requests that do not overlap.                                           *)

LEMMA OrderlyInit == TrInit => Orderly /\ InStep
<1> SUFFICES ASSUME TrInit PROVE Orderly /\ InStep
  OBVIOUS
<1>1. Orderly
  BY DEF TrInit, Orderly, OneBusy, TimerAt, Stopped
<1>2. InStep
  BY DEF TrInit, InStep, Missing
<1> QED
  BY <1>1, <1>2

\* The step of a handler whose process is the only one at work.
LEMMA OrderlyGoto ==
    ASSUME TrInv, Orderly, NEW p \in Processes, tpc[p] # "idle", NEW s \in Steps, Goto(p, s),
           raced' = raced, ~raced => TimerAt(p)' /\ (~enabled' => Stopped')
    PROVE  Orderly'
<1> SUFFICES ASSUME ~raced PROVE OneBusy' /\ (\A q \in Processes : TimerAt(q)') /\ (~enabled' => Stopped')
  BY DEF Orderly
<1>1. \A q \in Processes \ {p} : tpc'[q] = "idle"
  BY GotoType DEF Orderly, OneBusy
<1>2. OneBusy'
  BY <1>1 DEF OneBusy
<1>3. \A q \in Processes : TimerAt(q)'
  BY <1>1 DEF TimerAt
<1> QED
  BY <1>2, <1>3

LEMMA OrderlyAnswer ==
    ASSUME TrInv, Orderly, NEW p \in Processes, tpc[p] # "idle", NEW r, Answer(p, r),
           raced' = raced, ~raced => (~enabled' => Stopped')
    PROVE  Orderly'
<1> SUFFICES ASSUME ~raced PROVE OneBusy' /\ (\A q \in Processes : TimerAt(q)') /\ (~enabled' => Stopped')
  BY DEF Orderly
<1>1. \A q \in Processes : tpc'[q] = "idle"
  BY AnswerType DEF Orderly, OneBusy
<1>2. OneBusy' /\ \A q \in Processes : TimerAt(q)'
  BY <1>1 DEF OneBusy, TimerAt
<1> QED
  BY <1>2

LEMMA OrderlyStart ==
    ASSUME Orderly, NEW p \in Processes, StartProcess(p)
    PROVE  Orderly'
BY DEF Orderly, OneBusy, TimerAt, Stopped, StartProcess, ttimer, thist

LEMMA OrderlyRequest ==
    ASSUME TrInv, Orderly, NEW p \in Processes, NEW o, NEW v, Begin(p, o, v)
    PROVE  Orderly'
<1> SUFFICES ASSUME ~raced' PROVE OneBusy' /\ (\A q \in Processes : TimerAt(q)') /\ (~enabled' => Stopped')
  BY DEF Orderly
<1>1. ~raced /\ \A q \in Processes : tpc[q] = "idle"
  BY DEF Begin
<1>2. tpc'[p] \in {"create", "check"} /\ \A q \in Processes \ {p} : tpc'[q] = "idle"
  BY <1>1 DEF Begin, TrInv, TrTypeOK
<1>3. OneBusy' /\ \A q \in Processes : TimerAt(q)'
  BY <1>2 DEF OneBusy, TimerAt
<1> QED
  BY <1>1, <1>3 DEF Begin, tfiles, ttimer, Orderly, Stopped

LEMMA OrderlyHandler ==
    ASSUME TrInv, Orderly, NEW p \in Processes, Handler(p)
    PROVE  Orderly'
<1> USE DEF tfiles, ttimer, thist, Steps, Stopped
<1>1. CASE CreateEnableFile(p)
  BY <1>1, OrderlyAnswer DEF CreateEnableFile, Orderly
<1>2. CASE CheckEnabled(p)
  <2>1. tpc[p] # "idle" /\ raced' = raced /\ (~raced => (~enabled' => Stopped'))
    BY <1>2 DEF CheckEnabled, Orderly
  <2>2. ASSUME enabled, NEW s \in {"stop", "set"}, Goto(p, s)
        PROVE  Orderly'
    <3>1. TimerAt(p)'
      BY <1>2, <2>2, GotoType DEF TimerAt, CheckEnabled
    <3> QED
      BY <2>1, <2>2, <3>1, OrderlyGoto
  <2> QED
    BY <1>2, <2>1, <2>2, OrderlyAnswer DEF CheckEnabled
<1>3. CASE SetValue(p)
  <2>1. /\ tpc[p] # "idle" /\ raced' = raced /\ (~raced => (~enabled' => Stopped'))
        /\ ~raced => enabled'
    BY <1>3 DEF SetValue, Orderly, TimerAt
  <2>2. CASE Goto(p, "rewrite")
    <3>1. ~raced => TimerAt(p)'
      BY <2>1, <2>2, GotoType DEF TimerAt
    <3> QED
      BY <2>1, <2>2, <3>1, OrderlyGoto
  <2>3. ASSUME NEW r, Answer(p, r) PROVE Orderly'
    BY <2>1, <2>3, OrderlyAnswer
  <2> QED
    BY <1>3, <2>2, <2>3 DEF SetValue
<1>4. CASE RewriteTimer(p)
  <2>1. /\ tpc[p] # "idle" /\ raced' = raced /\ (~raced => (~enabled' => Stopped'))
        /\ ~raced => enabled'
    BY <1>4 DEF RewriteTimer, ttimer, Orderly, TimerAt
  <2>2. CASE Goto(p, "status")
    <3>1. ~raced => TimerAt(p)'
      BY <2>1, <2>2, GotoType DEF TimerAt
    <3> QED
      BY <2>1, <2>2, <3>1, OrderlyGoto
  <2> QED
    BY <1>4, <2>1, <2>2, OrderlyAnswer DEF RewriteTimer
<1>5. CASE TimerStatus(p)
  <2>1. /\ tpc[p] # "idle" /\ raced' = raced /\ (~raced => (~enabled' => Stopped'))
        /\ ~raced => enabled'
    BY <1>5 DEF TimerStatus, Orderly, TimerAt
  <2>2. CASE Goto(p, "stop")
    <3>1. ~raced => TimerAt(p)'
      BY <2>1, <2>2, GotoType DEF TimerAt
    <3> QED
      BY <2>1, <2>2, <3>1, OrderlyGoto
  <2> QED
    BY <1>5, <2>1, <2>2, OrderlyAnswer DEF TimerStatus
<1>6. CASE StopTimer(p)
  <2>1. /\ tpc[p] # "idle" /\ raced' = raced /\ (~raced => enabled') /\ Stopped'
    BY <1>6 DEF StopTimer, StopSucceeds, StopFails, ttimer, Orderly, TimerAt
  <2>2. ASSUME NEW s \in {"exists", "destroy"}, Goto(p, s) PROVE Orderly'
    <3>1. ~raced => TimerAt(p)'
      BY <2>1, <2>2, GotoType DEF TimerAt
    <3> QED
      BY <2>1, <2>2, <3>1, OrderlyGoto
  <2> QED
    BY <1>6, <2>1, <2>2, OrderlyAnswer DEF StopTimer, StopSucceeds, StopFails, ttimer
<1>7. CASE EnsureTimerFile(p)
  <2>1. /\ tpc[p] # "idle" /\ raced' = raced /\ (~raced => enabled' /\ Stopped')
    BY <1>7 DEF EnsureTimerFile, ttimer, Orderly, TimerAt
  <2>2. CASE Goto(p, "start")
    <3>1. ~raced => TimerAt(p)'
      BY <2>1, <2>2, GotoType DEF TimerAt
    <3> QED
      BY <2>1, <2>2, <3>1, OrderlyGoto
  <2> QED
    BY <1>7, <2>1, <2>2, OrderlyAnswer DEF EnsureTimerFile
<1>8. CASE StartTimer(p)
  <2>1. /\ tpc[p] # "idle" /\ raced' = raced /\ (~raced => enabled')
    BY <1>8 DEF StartTimer, Orderly, TimerAt
  <2>2. CASE timerOn' = TRUE /\ Goto(p, "uptime")
    <3>1. ~raced => TimerAt(p)'
      BY <2>1, <2>2, GotoType DEF TimerAt
    <3> QED
      BY <2>1, <2>2, <3>1, OrderlyGoto
  <2> QED
    BY <1>8, <2>1, <2>2, OrderlyAnswer DEF StartTimer
<1>9. CASE CheckUptime(p) \/ StartRunner(p)
  <2>1. /\ tpc[p] # "idle" /\ raced' = raced /\ (~raced => enabled' /\ timerOn')
    BY <1>9 DEF CheckUptime, StartRunner, Orderly, TimerAt
  <2>2. ASSUME NEW s \in {"runner", "unstop"}, Goto(p, s) PROVE Orderly'
    <3>1. ~raced => TimerAt(p)'
      BY <2>1, <2>2, GotoType DEF TimerAt
    <3> QED
      BY <2>1, <2>2, <3>1, OrderlyGoto
  <2> QED
    BY <1>9, <2>1, <2>2, OrderlyAnswer DEF CheckUptime, StartRunner
<1>10. CASE UndoStart(p)
  <2>1. /\ tpc[p] # "idle" /\ raced' = raced /\ (~raced => enabled')
    BY <1>10 DEF UndoStart, StopSucceeds, StopFails, ttimer, Orderly, TimerAt
  <2> QED
    BY <1>10, <2>1, OrderlyAnswer DEF UndoStart, StopSucceeds, StopFails, ttimer
<1>11. CASE DestroyTimer(p)
  <2>1. /\ tpc[p] # "idle" /\ raced' = raced /\ (~raced => enabled' /\ Stopped')
    BY <1>11 DEF DestroyTimer, Orderly, TimerAt
  <2>2. ~raced => TimerAt(p)'
    BY <1>11, <2>1, GotoType DEF TimerAt, DestroyTimer
  <2> QED
    BY <1>11, <2>1, <2>2, OrderlyGoto DEF DestroyTimer
<1>12. CASE UnlinkEnableFile(p)
  <2>1. /\ tpc[p] # "idle" /\ raced' = raced /\ (~raced => Stopped')
    BY <1>12 DEF UnlinkEnableFile, Orderly, TimerAt
  <2> QED
    BY <1>12, <2>1, OrderlyAnswer DEF UnlinkEnableFile
<1> QED
  BY <1>1, <1>2, <1>3, <1>4, <1>5, <1>6, <1>7, <1>8, <1>9, <1>10, <1>11, <1>12
     DEF Handler

LEMMA OrderlyStep == TrInv /\ Orderly /\ [TrNext]_tvars => Orderly'
<1> SUFFICES ASSUME TrInv, Orderly, [TrNext]_tvars PROVE Orderly'
  OBVIOUS
<1>1. CASE UNCHANGED tvars
  BY <1>1 DEF tvars, tfiles, ttimer, tproc, thist, Orderly, OneBusy, TimerAt, Stopped
<1>2. CASE TrNext
  BY <1>2, OrderlyStart, OrderlyRequest, RequestKinds, OrderlyHandler DEF TrNext
<1> QED
  BY <1>1, <1>2

LEMMA OrderlyAlways == TrSpec => [](TrInv /\ Orderly)
<1>1. TrInv /\ Orderly /\ [TrNext]_tvars => (TrInv /\ Orderly)'
  BY TrTypeStep, OrderlyStep
<1> QED
  BY <1>1, TrInit_TrInv, OrderlyInit, PTL DEF TrSpec

\* When the feature is off and no two requests have overlapped, no timer runs that
\* systemctl would stop.
THEOREM Quiet == TrSpec => []DisabledIsQuiet
<1>1. Orderly => DisabledIsQuiet
  BY DEF Orderly, DisabledIsQuiet, Stopped
<1> QED
  BY <1>1, OrderlyAlways, PTL

-----------------------------------------------------------------------------
(* Answers.                                                                *)

\* A process that answers has taken a step of a handler: a request that begins
\* moves on, and a process that starts has none.
LEMMA OnlyHandlersAnswer ==
    ASSUME TrInv, NEW p \in Processes, TrNext, tpc[p] # "idle", tpc'[p] = "idle"
    PROVE  Handler(p)
<1>1. ASSUME NEW q \in Processes, StartProcess(q) PROVE FALSE
  BY <1>1 DEF StartProcess
<1>2. ASSUME NEW q \in Processes, Request(q) PROVE FALSE
  BY <1>2, RequestKinds DEF Begin, TrInv, TrTypeOK
<1>3. ASSUME NEW q \in Processes, q # p, Handler(q) PROVE FALSE
  <2>1. \A s : Goto(q, s) => tpc'[p] = tpc[p]
    BY <1>3 DEF Goto, TrInv, TrTypeOK
  <2>2. \A r : Answer(q, r) => tpc'[p] = tpc[p]
    BY <1>3 DEF Answer, TrInv, TrTypeOK
  <2> QED
    BY <1>3, <2>1, <2>2
       DEF Handler, CreateEnableFile, CheckEnabled, SetValue, RewriteTimer, TimerStatus, StopTimer,
           EnsureTimerFile, StartTimer, CheckUptime, StartRunner, UndoStart, DestroyTimer,
           UnlinkEnableFile
<1> QED
  BY <1>1, <1>2, <1>3 DEF TrNext

\* Moving on answers nothing.
LEMMA GotoIsNoAnswer ==
    ASSUME TrInv, NEW p \in Processes, NEW s \in Steps \ {"idle"}, Goto(p, s)
    PROVE  tpc'[p] # "idle"
BY GotoType

Truly(p) ==
    /\ Answers(p, "ok") /\ top[p] = "periodicOn" => timerOn'
    /\ Answers(p, "error") /\ SwitchOn(p) /\ tpc[p] # "rewrite" => Stopped'

LEMMA HandlerAnswersTruly ==
    ASSUME TrInv, Orderly, ~raced, NEW p \in Processes, Handler(p), tpc'[p] = "idle"
    PROVE  Truly(p)
<1> USE DEF Truly, Answers, Stopped, tfiles, ttimer, thist
<1>1. \A s \in Steps \ {"idle"} : ~Goto(p, s)
  BY GotoIsNoAnswer
<1>2. \A r : Answer(p, r) => treply' = r
  BY DEF Answer
<1>3. Fits(p) /\ TimerAt(p)
  BY DEF TrInv, Orderly
<1>4. CASE CreateEnableFile(p) \/ UnlinkEnableFile(p) \/ DestroyTimer(p)
  BY <1>3, <1>4 DEF CreateEnableFile, UnlinkEnableFile, DestroyTimer, Fits, SwitchOn
<1>5. CASE CheckEnabled(p)
  BY <1>1, <1>2, <1>3, <1>5 DEF CheckEnabled, Fits, Steps
<1>6. CASE SetValue(p)
  <2>1. top[p] \in {"freq", "cpu", "dram"}
    BY <1>3, <1>6 DEF SetValue, Fits
  <2>2. top[p] # "freq" \/ treply' = "invalid"
    BY <1>1, <1>2, <1>6 DEF SetValue, Steps
  <2> QED
    BY <2>1, <2>2 DEF SwitchOn
<1>7. CASE RewriteTimer(p)
  BY <1>3, <1>7 DEF RewriteTimer, Fits
<1>8. CASE TimerStatus(p)
  BY <1>1, <1>2, <1>3, <1>8 DEF TimerStatus, Fits, Steps
<1>9. CASE StopTimer(p)
  BY <1>1, <1>2, <1>3, <1>9 DEF StopTimer, StopSucceeds, StopFails, ttimer, Fits, Steps, SwitchOn
<1>10. CASE EnsureTimerFile(p)
  BY <1>1, <1>2, <1>3, <1>10 DEF EnsureTimerFile, TimerAt, Steps
<1>11. CASE StartTimer(p)
  BY <1>1, <1>2, <1>3, <1>11 DEF StartTimer, TimerAt, Steps
<1>12. CASE CheckUptime(p) \/ StartRunner(p)
  BY <1>1, <1>2, <1>3, <1>12 DEF CheckUptime, StartRunner, TimerAt, Steps
<1>13. CASE UndoStart(p)
  BY <1>2, <1>13 DEF UndoStart, StopSucceeds, StopFails, ttimer
<1> QED
  BY <1>4, <1>5, <1>6, <1>7, <1>8, <1>9, <1>10, <1>11, <1>12, <1>13 DEF Handler

\* A request that overlaps with no other is told the truth about the periodic run.
THEOREM TrueAnswers == TrSpec => AnsweredTruly
<1> DEFINE Step ==
      \A p \in Processes : ~raced =>
        /\ Answers(p, "ok") /\ top[p] = "periodicOn" => timerOn'
        /\ Answers(p, "error") /\ SwitchOn(p) /\ tpc[p] # "rewrite" => ~timerOn' \/ stopFailed'
<1>1. TrInv /\ Orderly /\ [TrNext]_tvars => Step \/ UNCHANGED tvars
  <2> SUFFICES ASSUME TrInv, Orderly, TrNext, NEW p \in Processes, ~raced,
                      tpc[p] # "idle", tpc'[p] = "idle"
               PROVE  Truly(p)
    BY DEF Truly, Answers, Stopped
  <2> QED
    BY OnlyHandlersAnswer, HandlerAnswersTruly
<1> HIDE DEF Step
<1>2. TrSpec => [][Step]_tvars
  BY <1>1, OrderlyAlways, PTL DEF TrSpec
<1> QED
  BY <1>2 DEF Step, AnsweredTruly

-----------------------------------------------------------------------------
(* The frequency.                                                          *)

LEMMA InStepStart ==
    ASSUME TrInv, InStep, NEW p \in Processes, StartProcess(p)
    PROVE  InStep'
<1> SUFFICES ASSUME ~raced
             PROVE  /\ timerOn' /\ timerFile' = Missing => stopFailed'
                    /\ ~stale' => /\ timerFile' # Missing =>
                                       timerFile' = disk'.freq \/ \E q \in Processes : tpc'[q] = "rewrite"
                                  /\ \A q \in Processes : tpc'[q] = "rewrite" => disk'.freq = Wanted(q)'
  BY DEF InStep, StartProcess, ttimer, thist
<1>1. /\ timerOn' = timerOn /\ timerFile' = timerFile /\ tpc' = tpc /\ stopFailed' = stopFailed
      /\ stale' = stale /\ \A q \in Processes : Wanted(q)' = Wanted(q)
  BY DEF StartProcess, ttimer, thist, Wanted
<1>2. disk.freq # Missing => disk'.freq = disk.freq
  <2>1. disk' \in {disk, Repaired(disk)}
    BY DEF StartProcess
  <2>2. disk.freq # Missing => Repaired(disk).freq = disk.freq
    BY DEF Repaired, MinFrequency, Missing, TrInv, TrTypeOK, Settings
  <2> QED
    BY <2>1, <2>2
<1>3. \A q \in Processes : tpc[q] = "rewrite" => Wanted(q) # Missing
  BY WantedType DEF TrInv, Fits, Missing
<1> QED
  BY <1>1, <1>2, <1>3 DEF InStep

LEMMA InStepRequest ==
    ASSUME TrInv, InStep, NEW p \in Processes, NEW o, NEW v, Begin(p, o, v)
    PROVE  InStep'
<1> SUFFICES ASSUME ~raced' PROVE InStep'
  BY DEF InStep
<1>1. /\ ~raced /\ timerOn' = timerOn /\ timerFile' = timerFile /\ disk' = disk
      /\ stopFailed' = stopFailed /\ stale' = stale
  BY DEF Begin, tfiles, ttimer
<1>2. \A q \in Processes : tpc[q] # "rewrite" /\ tpc'[q] # "rewrite"
  BY DEF Begin, TrInv, TrTypeOK
<1> QED
  BY <1>1, <1>2 DEF InStep

\* Steps that neither save a frequency nor write it to the file of the timer.
LEMMA InStepGoesOn ==
    ASSUME Orderly, InStep, NEW p \in Processes, tpc[p] \notin {"idle", "rewrite"},
           \A q \in Processes \ {p} : tpc'[q] = tpc[q], tpc'[p] # "rewrite",
           raced' = raced,
           ~stale' => /\ disk'.freq = disk.freq
                      /\ \/ ~stale /\ timerFile' \in {timerFile, Missing}
                         \/ timerFile' = disk.freq,
           ~raced => (timerOn' /\ timerFile' = Missing => stopFailed')
    PROVE  InStep'
<1>1. ~raced => \A q \in Processes : tpc[q] # "rewrite" /\ tpc'[q] # "rewrite"
  BY DEF Orderly, OneBusy
<1> QED
  BY <1>1 DEF InStep

LEMMA InStepSetValue ==
    ASSUME TrInv, Orderly, InStep, NEW p \in Processes, SetValue(p)
    PROVE  InStep'
<1> DEFINE s == [mem[p] EXCEPT ![top[p]] = Wanted(p)]
<1>1. /\ tpc[p] = "set" /\ top[p] \in {"freq", "cpu", "dram"}
      /\ timerOn' = timerOn /\ timerFile' = timerFile /\ raced' = raced
      /\ stopFailed' = stopFailed
  BY DEF SetValue, ttimer, TrInv, Fits
<1>2. CASE Refused(p)
  <2>1. tpc'[p] = "idle" /\ (\A q \in Processes \ {p} : tpc'[q] = tpc[q])
        /\ disk' = disk /\ stale' = stale
    BY <1>2, AnswerType DEF SetValue
  <2> QED
    BY <1>1, <2>1, InStepGoesOn DEF InStep
<1>3. CASE ~Refused(p) /\ NotSaved(top[p]) /\ top[p] = "freq"
  <2>1. stale' = TRUE
    BY <1>3 DEF NotSaved
  <2> QED
    BY <1>1, <2>1 DEF InStep
<1>6. CASE ~Refused(p) /\ NotSaved(top[p]) /\ top[p] # "freq" /\ Answer(p, "error")
  <2>1. tpc'[p] = "idle" /\ (\A q \in Processes \ {p} : tpc'[q] = tpc[q])
    BY <1>6, AnswerType
  <2>2. disk' = disk /\ (~stale' => ~stale)
    BY <1>6 DEF NotSaved, TrInv, TrTypeOK
  <2> QED
    BY <1>1, <2>1, <2>2, InStepGoesOn DEF InStep
<1>4. CASE ~Refused(p) /\ Save(s, top[p]) /\ top[p] = "freq" /\ Goto(p, "rewrite")
  <2>1. tpc'[p] = "rewrite" /\ (\A q \in Processes \ {p} : tpc'[q] = tpc[q])
        /\ top' = top /\ tval' = tval
    BY <1>4, GotoType DEF Steps
  <2>2. disk'.freq = Wanted(p)
    BY <1>4 DEF Save, TrInv, TrTypeOK, Settings
  <2>3. Wanted(p)' = Wanted(p)
    BY <2>1 DEF Wanted
  <2>4. ~raced => \A q \in Processes \ {p} : tpc'[q] # "rewrite"
    BY <1>1, <2>1 DEF Orderly, OneBusy
  <2> QED
    BY <1>1, <2>1, <2>2, <2>3, <2>4 DEF InStep
<1>5. CASE ~Refused(p) /\ Save(s, top[p]) /\ top[p] # "freq" /\ Answer(p, "ok")
  <2>1. tpc'[p] = "idle" /\ (\A q \in Processes \ {p} : tpc'[q] = tpc[q])
    BY <1>5, AnswerType
  <2>2. ~stale' => ~stale /\ disk'.freq = disk.freq
    BY <1>5 DEF Save, TrInv, TrTypeOK
  <2> QED
    BY <1>1, <2>1, <2>2, InStepGoesOn DEF InStep
<1> QED
  BY <1>2, <1>3, <1>4, <1>5, <1>6 DEF SetValue

LEMMA InStepRewriteTimer ==
    ASSUME TrInv, Orderly, InStep, NEW p \in Processes, RewriteTimer(p)
    PROVE  InStep'
<1>1. tpc[p] = "rewrite" /\ raced' = raced /\ disk' = disk /\ timerOn' = timerOn
      /\ stopFailed' = stopFailed /\ (~raced => \A q \in Processes \ {p} : tpc[q] # "rewrite")
  BY DEF RewriteTimer, ttimer, Orderly, OneBusy
<1>2. CASE timerFile' = Wanted(p) /\ Goto(p, "status") /\ stale' = stale
  <2>1. tpc'[p] = "status" /\ \A q \in Processes \ {p} : tpc'[q] = tpc[q]
    BY <1>2, GotoType DEF Steps
  <2>2. Wanted(p) # Missing
    BY <1>1, WantedType DEF TrInv, Fits, Missing
  <2> QED
    BY <1>1, <1>2, <2>1, <2>2 DEF InStep
<1>3. CASE stale' = TRUE /\ timerFile' = timerFile
  BY <1>1, <1>3 DEF InStep
<1> QED
  BY <1>2, <1>3 DEF RewriteTimer

LEMMA InStepHandler ==
    ASSUME TrInv, Orderly, InStep, NEW p \in Processes, Handler(p)
    PROVE  InStep'
<1> DEFINE Moves == /\ \A q \in Processes \ {p} : tpc'[q] = tpc[q]
                    /\ tpc'[p] # "rewrite"
<1>1. ASSUME NEW s \in Steps \ {"rewrite"}, Goto(p, s) PROVE Moves
  BY <1>1, GotoType
<1>2. ASSUME NEW r, Answer(p, r) PROVE Moves
  BY <1>2, AnswerType
<1> HIDE DEF Moves
<1>3. CASE \/ CreateEnableFile(p) \/ CheckEnabled(p) \/ TimerStatus(p)
           \/ CheckUptime(p) \/ StartRunner(p) \/ UnlinkEnableFile(p)
  <2>1. /\ tpc[p] \notin {"idle", "rewrite"}
        /\ disk' = disk /\ timerOn' = timerOn /\ timerFile' = timerFile
        /\ raced' = raced /\ stopFailed' = stopFailed /\ stale' = stale
    BY <1>3 DEF CreateEnableFile, CheckEnabled, TimerStatus, CheckUptime, StartRunner,
                UnlinkEnableFile, tfiles, ttimer, thist
  <2>2. (\E s \in Steps \ {"rewrite"} : Goto(p, s)) \/ (\E r : Answer(p, r))
    BY <1>3 DEF CreateEnableFile, CheckEnabled, TimerStatus, CheckUptime, StartRunner,
                UnlinkEnableFile, Steps
  <2> QED
    BY <1>1, <1>2, <2>1, <2>2, InStepGoesOn DEF Moves, InStep
<1>4. CASE StopTimer(p)
  <2>1. /\ tpc[p] \notin {"idle", "rewrite"}
        /\ disk' = disk /\ timerFile' = timerFile /\ raced' = raced /\ stale' = stale
        /\ timerOn' => stopFailed'
    BY <1>4 DEF StopTimer, StopSucceeds, StopFails, ttimer
  <2>2. (\E s \in Steps \ {"rewrite"} : Goto(p, s)) \/ (\E r : Answer(p, r))
    BY <1>4 DEF StopTimer, StopSucceeds, StopFails, ttimer, Steps
  <2> QED
    BY <1>1, <1>2, <2>1, <2>2, InStepGoesOn DEF Moves
<1>5. CASE UndoStart(p)
  <2>1. /\ tpc[p] \notin {"idle", "rewrite"}
        /\ disk' = disk /\ timerFile' = timerFile /\ raced' = raced /\ stale' = stale
        /\ timerOn' => stopFailed'
    BY <1>5 DEF UndoStart, StopSucceeds, StopFails, ttimer
  <2>2. Answer(p, "error")
    BY <1>5 DEF UndoStart, StopSucceeds, StopFails, ttimer
  <2> QED
    BY <1>2, <2>1, <2>2, InStepGoesOn DEF Moves
<1>6. CASE EnsureTimerFile(p)
  <2>1. /\ tpc[p] \notin {"idle", "rewrite"} /\ disk' = disk /\ raced' = raced
        /\ ~raced => (timerOn' => stopFailed')
    BY <1>6 DEF EnsureTimerFile, ttimer, Orderly, TimerAt, Stopped, TrInv, TrTypeOK
  <2>3. ~stale' => (~stale /\ timerFile' = timerFile) \/ timerFile' = disk.freq
    BY <1>6 DEF EnsureTimerFile
  <2>2. (\E s \in Steps \ {"rewrite"} : Goto(p, s)) \/ (\E r : Answer(p, r))
    BY <1>6 DEF EnsureTimerFile, Steps
  <2> QED
    BY <1>1, <1>2, <2>1, <2>2, <2>3, InStepGoesOn DEF Moves
<1>7. CASE StartTimer(p)
  <2>1. /\ tpc[p] \notin {"idle", "rewrite"}
        /\ disk' = disk /\ timerFile' = timerFile /\ raced' = raced /\ stale' = stale
        /\ stopFailed' = stopFailed
        /\ timerFile # Missing \/ timerOn' = timerOn
    BY <1>7 DEF StartTimer, ttimer, thist
  <2>2. (\E s \in Steps \ {"rewrite"} : Goto(p, s)) \/ (\E r : Answer(p, r))
    BY <1>7 DEF StartTimer, Steps
  <2> QED
    BY <1>1, <1>2, <2>1, <2>2, InStepGoesOn DEF Moves, InStep
<1>8. CASE DestroyTimer(p)
  <2>1. /\ tpc[p] \notin {"idle", "rewrite"}
        /\ disk' = disk /\ timerFile' \in {timerFile, Missing} /\ raced' = raced
        /\ stale' = stale
        /\ ~raced => (timerOn' => stopFailed')
    BY <1>8 DEF DestroyTimer, ttimer, thist, Orderly, TimerAt, Stopped
  <2>2. Goto(p, "unlink")
    BY <1>8 DEF DestroyTimer
  <2> QED
    BY <1>1, <2>1, <2>2, InStepGoesOn DEF Moves, Steps
<1> QED
  BY <1>3, <1>4, <1>5, <1>6, <1>7, <1>8, InStepSetValue, InStepRewriteTimer DEF Handler

LEMMA InStepStep == TrInv /\ Orderly /\ InStep /\ [TrNext]_tvars => InStep'
<1> SUFFICES ASSUME TrInv, Orderly, InStep, [TrNext]_tvars PROVE InStep'
  OBVIOUS
<1>1. CASE UNCHANGED tvars
  BY <1>1 DEF tvars, tfiles, ttimer, tproc, thist, InStep, Wanted
<1>2. CASE TrNext
  BY <1>2, InStepStart, InStepRequest, RequestKinds, InStepHandler DEF TrNext
<1> QED
  BY <1>1, <1>2

\* What leaves the timer and its file alone.
LEMMA RunningFrame ==
    ASSUME Running, raced => raced', NEW p \in Processes, tpc[p] \notin {"status", "stop"},
           timerFile' = timerFile, timerOn' = timerOn, timerFreq' = timerFreq,
           unapplied' = unapplied, stopFailed' = stopFailed,
           \A q \in Processes \ {p} : tpc'[q] = tpc[q]
    PROVE  Running'
BY DEF Running

LEMMA RunningHandler ==
    ASSUME TrInv, Orderly, Running, NEW p \in Processes, Handler(p)
    PROVE  Running'
<1> DEFINE Moves == \A q \in Processes \ {p} : tpc'[q] = tpc[q]
<1>1. ASSUME NEW s \in Steps, Goto(p, s) PROVE Moves
  BY <1>1, GotoType
<1>2. ASSUME NEW r, Answer(p, r) PROVE Moves
  BY <1>2, AnswerType
<1>3. CASE \/ CreateEnableFile(p) \/ CheckEnabled(p) \/ SetValue(p)
           \/ CheckUptime(p) \/ StartRunner(p) \/ UnlinkEnableFile(p)
  <2>1. /\ tpc[p] \notin {"status", "stop"} /\ raced' = raced
        /\ timerOn' = timerOn /\ timerFreq' = timerFreq /\ timerFile' = timerFile
        /\ unapplied' = unapplied /\ stopFailed' = stopFailed
    BY <1>3 DEF CreateEnableFile, CheckEnabled, SetValue, CheckUptime, StartRunner,
                UnlinkEnableFile, tfiles, ttimer, thist
  <2>2. (\E s \in Steps : Goto(p, s)) \/ (\E r : Answer(p, r))
    BY <1>3 DEF CreateEnableFile, CheckEnabled, SetValue, CheckUptime, StartRunner,
                UnlinkEnableFile, Steps
  <2> QED
    BY <1>1, <1>2, <2>1, <2>2, RunningFrame
<1>4. CASE RewriteTimer(p)
  <2>1. CASE Goto(p, "status")
    <3>1. tpc'[p] = "status"
      BY <2>1, GotoType DEF Steps
    <3> QED
      BY <3>1 DEF Running
  <2>2. CASE timerFile' = timerFile /\ Answer(p, "error")
    <3>1. /\ tpc[p] \notin {"status", "stop"} /\ raced' = raced
          /\ timerOn' = timerOn /\ timerFreq' = timerFreq
          /\ unapplied' = unapplied /\ stopFailed' = stopFailed
      BY <1>4 DEF RewriteTimer, ttimer
    <3> QED
      BY <1>2, <2>2, <3>1, RunningFrame
  <2> QED
    BY <1>4, <2>1, <2>2 DEF RewriteTimer
<1>5. CASE TimerStatus(p)
  <2>1. CASE timerOn /\ Goto(p, "stop")
    <3>1. tpc'[p] = "stop"
      BY <2>1, GotoType DEF Steps
    <3> QED
      BY <3>1 DEF Running
  <2>2. CASE ~timerOn \/ unapplied' = TRUE
    BY <1>5, <2>2 DEF TimerStatus, tfiles, ttimer, Running
  <2> QED
    BY <1>5, <2>1, <2>2 DEF TimerStatus
<1>6. CASE StopTimer(p) \/ UndoStart(p)
  BY <1>6 DEF StopTimer, UndoStart, StopSucceeds, StopFails, Running
<1>7. CASE EnsureTimerFile(p) \/ DestroyTimer(p)
  <2>1. ~raced => ~timerOn \/ stopFailed
    BY <1>7 DEF EnsureTimerFile, DestroyTimer, Orderly, TimerAt, Stopped
  <2>2. raced' = raced /\ timerOn' = timerOn /\ stopFailed' = stopFailed
    BY <1>7 DEF EnsureTimerFile, DestroyTimer, ttimer, thist
  <2> QED
    BY <2>1, <2>2 DEF Running
<1>8. CASE StartTimer(p)
  <2>1. CASE timerOn' = TRUE /\ timerFreq' = IF timerOn THEN timerFreq ELSE timerFile
    <3>1. ~raced => ~timerOn \/ stopFailed
      BY <1>8 DEF StartTimer, Orderly, TimerAt, Stopped
    <3>2. raced' = raced /\ timerFile' = timerFile /\ stopFailed' = stopFailed
      BY <1>8 DEF StartTimer, thist
    <3> QED
      BY <2>1, <3>1, <3>2 DEF Running
  <2>2. CASE timerOn' = timerOn /\ timerFreq' = timerFreq /\ Answer(p, "error")
    <3>1. /\ tpc[p] \notin {"status", "stop"} /\ raced' = raced /\ timerFile' = timerFile
          /\ unapplied' = unapplied /\ stopFailed' = stopFailed
      BY <1>8 DEF StartTimer, thist
    <3> QED
      BY <1>2, <2>2, <3>1, RunningFrame
  <2> QED
    BY <1>8, <2>1, <2>2 DEF StartTimer, ttimer
<1> QED
  BY <1>3, <1>4, <1>5, <1>6, <1>7, <1>8 DEF Handler

LEMMA RunningStep == TrInv /\ Orderly /\ Running /\ [TrNext]_tvars => Running'
<1> SUFFICES ASSUME TrInv, Orderly, Running, [TrNext]_tvars PROVE Running'
  OBVIOUS
<1>1. CASE UNCHANGED tvars
  BY <1>1 DEF tvars, tfiles, ttimer, tproc, thist, Running
<1>2. ASSUME NEW p \in Processes, StartProcess(p) PROVE Running'
  BY <1>2, RunningFrame DEF StartProcess, ttimer, thist
<1>3. ASSUME NEW p \in Processes, NEW o, NEW v, Begin(p, o, v) PROVE Running'
  <2>1. /\ tpc[p] \notin {"status", "stop"} /\ (raced => raced')
        /\ timerOn' = timerOn /\ timerFreq' = timerFreq /\ timerFile' = timerFile
        /\ unapplied' = unapplied /\ stopFailed' = stopFailed
    BY <1>3 DEF Begin, tfiles, ttimer
  <2>2. \A q \in Processes \ {p} : tpc'[q] = tpc[q]
    BY <1>3 DEF Begin, TrInv, TrTypeOK
  <2> QED
    BY <2>1, <2>2, RunningFrame
<1> QED
  BY <1>1, <1>2, <1>3, RequestKinds, RunningHandler DEF TrNext

LEMMA WsAlways == TrSpec => []WsInv
<1>1. TrInit => WsInv
  BY TrInit_TrInv, OrderlyInit DEF WsInv, TrInit, Running
<1>2. WsInv /\ [TrNext]_tvars => WsInv'
  BY TrTypeStep, OrderlyStep, InStepStep, RunningStep DEF WsInv
<1> QED
  BY <1>1, <1>2, PTL DEF TrSpec

\* With no request under way, a timer that runs does so at the frequency of the
\* settings file, when requests have not overlapped, the frequency saved is in the
\* timer's file, no running timer was taken for a stopped one and no stop failed.
THEOREM Applied == TrSpec => []FrequencyApplied
<1>1. ASSUME WsInv, ~raced, ~stale, ~unapplied, ~stopFailed, timerOn,
             \A p \in Processes : tpc[p] = "idle"
      PROVE  timerFreq = disk.freq
  <2>1. timerFreq = timerFile
    BY <1>1 DEF WsInv, Running
  <2>2. timerFile # Missing
    BY <1>1 DEF WsInv, InStep
  <2> QED
    BY <1>1, <2>1, <2>2 DEF WsInv, InStep
<1>2. WsInv => FrequencyApplied
  BY <1>1 DEF FrequencyApplied
<1> QED
  BY <1>2, WsAlways, PTL
=============================================================================
