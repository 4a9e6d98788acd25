----------------------------- MODULE WaWsclient -----------------------------
(***************************************************************************)
(* The settings of the periodic test run (tr69profile/wa_wsclient.cpp,     *)
(* wa_service.cpp, wa_settings.h and the handlers of                       *)
(* DeviceInfo_hwHealthTest.cpp): the TR-69 daemon and the command line     *)
(* tool are processes of their own that change the same files and the same *)
(* systemd timer, one system call after the other and without a lock.      *)
(* Each process keeps the settings it read when it started.                *)
(***************************************************************************)
EXTENDS Naturals

CONSTANTS Processes,     \* the daemon, a command of the tool
          MayFailCalls,  \* system calls, systemctl included, may fail
          Frequencies, Thresholds, Sizes  \* values asked for: minutes, percent, MB

MinFrequency == 1        \* MIN_PERIODIC_FREQUENCY
Defaults == [freq |-> 400, cpu |-> 80, dram |-> 50]
Missing == 0             \* no such line in the file, no such file

ASSUME WsclientAssumption ==
    /\ MayFailCalls \in BOOLEAN
    /\ Frequencies \subseteq Nat /\ Thresholds \subseteq Nat /\ Sizes \subseteq Nat

VARIABLES
    enabled,     \* HWSELFTEST_ENABLE_FILE exists
    disk,        \* HWSELFTEST_SETTINGS_FILE
    mem,         \* wa_settings::_settings of each process
    timerFile,   \* OnUnitActiveSec in the timer's file, Missing without a file
    timerOn,     \* the timer is started
    timerFreq,   \* what systemd runs it at: that of the file when it was started
    tpc, top, tval,  \* each process: its step, the handler and its value
    treply,      \* what the step just taken answered
    raced, stopFailed, unapplied, stale    \* history, see the properties

ttimer == <<timerOn, timerFreq>>
tfiles == <<enabled, disk, mem, timerFile, ttimer>>
tproc == <<tpc, top, tval, treply>>
thist == <<raced, stopFailed, unapplied, stale>>
tvars == <<tfiles, tproc, thist>>

Settings == [freq : Nat, cpu : Nat, dram : Nat]
Ops == {"none", "enable", "disable", "periodicOn", "periodicOff", "freq", "cpu", "dram"}
Steps == {"idle", "check", "create", "stop", "exists", "start", "uptime", "runner",
          "unstop", "destroy", "unlink", "set", "rewrite", "status"}

TrInit ==
    /\ enabled = FALSE
    /\ disk = [freq |-> Missing, cpu |-> Missing, dram |-> Missing]
    /\ mem = [p \in Processes |-> Defaults]
    /\ timerFile = Missing /\ timerOn = FALSE /\ timerFreq = Missing
    /\ tpc = [p \in Processes |-> "idle"] /\ top = [p \in Processes |-> "none"]
    /\ tval = [p \in Processes |-> 0] /\ treply = "none"
    /\ raced = FALSE /\ stopFailed = FALSE /\ unapplied = FALSE /\ stale = FALSE

-----------------------------------------------------------------------------
(* wa_settings.                                                            *)

\* The constructor: defaults for what is missing or out of range.
Repaired(s) ==
    [freq |-> IF s.freq < MinFrequency THEN Defaults.freq ELSE s.freq,
     cpu |-> IF s.cpu = 0 \/ s.cpu > 100 THEN Defaults.cpu ELSE s.cpu,
     dram |-> IF s.dram = 0 THEN Defaults.dram ELSE s.dram]

\* save writes the whole map of the process, what it read at its start included:
\* with another value it may bring back a frequency that is not in force any more ...
Save(s, k) ==
    /\ disk' = s
    /\ stale' = (k # "freq" /\ (stale \/ s.freq # disk.freq))

\* ... or fails: the value then lives in the process only.
NotSaved(k) == MayFailCalls /\ stale' = (stale \/ k = "freq") /\ UNCHANGED disk

\* A process starts: each command of the tool, and the daemon at boot.
StartProcess(p) ==
    /\ tpc[p] = "idle"
    /\ mem' = [mem EXCEPT ![p] = Repaired(disk)]
    /\ \/ Repaired(disk) = disk /\ UNCHANGED disk
       \/ Repaired(disk) # disk /\ disk' = Repaired(disk)
       \/ MayFailCalls /\ UNCHANGED disk
    /\ treply' = "none"
    /\ UNCHANGED <<enabled, timerFile, ttimer, tpc, top, tval, thist>>

-----------------------------------------------------------------------------
(* The handlers, a system call at a time.                                  *)

Goto(p, s) ==
    tpc' = [tpc EXCEPT ![p] = s] /\ treply' = "none" /\ UNCHANGED <<top, tval>>

Answer(p, r) ==
    /\ tpc' = [tpc EXCEPT ![p] = "idle"]
    /\ top' = [top EXCEPT ![p] = "none"] /\ tval' = [tval EXCEPT ![p] = 0]
    /\ treply' = r

Begin(p, o, v) ==
    /\ tpc[p] = "idle"
    /\ tpc' = [tpc EXCEPT ![p] = IF o = "enable" THEN "create" ELSE "check"]
    /\ top' = [top EXCEPT ![p] = o] /\ tval' = [tval EXCEPT ![p] = v]
    /\ treply' = "none"
    /\ raced' = (raced \/ \E q \in Processes : tpc[q] # "idle")
    /\ UNCHANGED <<tfiles, stopFailed, unapplied, stale>>

\* A parameter that is set, or a command of the tool.
EnableRequest(p) == \E o \in {"enable", "disable"} : Begin(p, o, 0)
PeriodicRequest(p) == \E o \in {"periodicOn", "periodicOff"} : Begin(p, o, 0)
FrequencyRequest(p) == \E v \in Frequencies : Begin(p, "freq", v)
CpuRequest(p) == \E v \in Thresholds : Begin(p, "cpu", v)
DramRequest(p) == \E v \in Sizes : Begin(p, "dram", v)

Request(p) ==
    \/ EnableRequest(p) \/ PeriodicRequest(p)
    \/ FrequencyRequest(p) \/ CpuRequest(p) \/ DramRequest(p)

\* enable(true): the file is created unless it is there.
CreateEnableFile(p) ==
    /\ tpc[p] = "create"
    /\ \/ enabled' = TRUE /\ Answer(p, "ok")
       \/ MayFailCalls /\ ~enabled /\ UNCHANGED enabled /\ Answer(p, "error")
    /\ UNCHANGED <<disk, mem, timerFile, ttimer, thist>>

StopsTimer == {"disable", "periodicOn", "periodicOff"}

\* Mutant: the feature is switched off with the timer left running.
CheckEnabledOnly(p) ==
    /\ tpc[p] = "check"
    /\ \/ enabled /\ Goto(p, IF top[p] = "disable" THEN "destroy"
                          ELSE IF top[p] \in StopsTimer THEN "stop" ELSE "set")
       \/ ~enabled /\ Answer(p, IF top[p] = "disable" THEN "ok" ELSE "ignored")
    /\ UNCHANGED <<tfiles, thist>>

\* is_enabled: a feature that is off ignores the request and answers no fault.
CheckEnabled(p) ==
    /\ tpc[p] = "check"
    /\ \/ enabled /\ Goto(p, IF top[p] \in StopsTimer THEN "stop" ELSE "set")
       \/ ~enabled /\ Answer(p, IF top[p] = "disable" THEN "ok" ELSE "ignored")
    /\ UNCHANGED <<tfiles, thist>>

\* Values of 0 ask for the default, a threshold above 100 is refused.
Wanted(p) == IF tval[p] = 0 THEN Defaults[top[p]] ELSE tval[p]
Refused(p) == top[p] = "cpu" /\ Wanted(p) > 100

SetValue(p) ==
    /\ tpc[p] = "set"
    /\ UNCHANGED <<enabled, timerFile, ttimer, raced, stopFailed, unapplied>>
    /\ IF Refused(p)
       THEN Answer(p, "invalid") /\ UNCHANGED <<mem, disk, stale>>
       ELSE LET s == [mem[p] EXCEPT ![top[p]] = Wanted(p)]
            IN /\ mem' = [mem EXCEPT ![p] = s]
               /\ \/ /\ Save(s, top[p])
                     /\ IF top[p] = "freq" THEN Goto(p, "rewrite") ELSE Answer(p, "ok")
                  \/ /\ NotSaved(top[p])
                     /\ IF top[p] = "freq" THEN Goto(p, "rewrite") ELSE Answer(p, "error")

\* set_periodic_frequency goes on with the file of the timer ...
RewriteTimer(p) ==
    /\ tpc[p] = "rewrite"
    /\ \/ timerFile' = Wanted(p) /\ Goto(p, "status") /\ UNCHANGED stale
       \/ /\ MayFailCalls /\ stale' = TRUE
          /\ UNCHANGED timerFile /\ Answer(p, "error")
    /\ UNCHANGED <<enabled, disk, mem, ttimer, raced, stopFailed, unapplied>>

\* Mutant: a running timer is left at the frequency it has.
TimerStatusNot(p) ==
    /\ tpc[p] = "status"
    /\ Answer(p, "ok")
    /\ UNCHANGED <<tfiles, thist>>

\* ... and starts a running timer again; a status that cannot be had is one of a
\* timer that does not run.
TimerStatus(p) ==
    /\ tpc[p] = "status"
    /\ \/ timerOn /\ Goto(p, "stop") /\ UNCHANGED unapplied
       \/ ~timerOn /\ Answer(p, "ok") /\ UNCHANGED unapplied
       \/ MayFailCalls /\ timerOn /\ unapplied' = TRUE /\ Answer(p, "ok")
    /\ UNCHANGED <<tfiles, raced, stopFailed, stale>>

(* enable_periodic: called by three handlers.                              *)

SwitchOn(p) == top[p] \in {"periodicOn", "freq"}

StopSucceeds ==
    /\ timerOn' = FALSE /\ timerFreq' = Missing
    /\ stopFailed' = FALSE /\ unapplied' = FALSE

StopFails == timerOn /\ stopFailed' = TRUE /\ UNCHANGED <<ttimer, unapplied>>

\* The result of systemctl stop is not looked at.
StopTimer(p) ==
    /\ tpc[p] = "stop"
    /\ StopSucceeds \/ (MayFailCalls /\ StopFails)
    /\ IF SwitchOn(p) THEN Goto(p, "exists")
       ELSE IF top[p] = "disable" THEN Goto(p, "destroy") ELSE Answer(p, "ok")
    /\ UNCHANGED <<enabled, disk, mem, timerFile, raced, stale>>

EnsureTimerFile(p) ==
    /\ tpc[p] = "exists"
    /\ \/ timerFile # Missing /\ UNCHANGED <<timerFile, stale>> /\ Goto(p, "start")
       \/ /\ timerFile = Missing /\ timerFile' = mem[p].freq /\ Goto(p, "start")
          /\ stale' = (mem[p].freq # disk.freq)
       \/ /\ timerFile = Missing /\ MayFailCalls
          /\ UNCHANGED <<timerFile, stale>> /\ Answer(p, "error")
    /\ UNCHANGED <<enabled, disk, mem, ttimer, raced, stopFailed, unapplied>>

\* systemctl start does nothing to a timer that runs.
StartTimer(p) ==
    /\ tpc[p] = "start"
    /\ \/ /\ timerFile # Missing /\ timerOn' = TRUE
          /\ timerFreq' = IF timerOn THEN timerFreq ELSE timerFile
          /\ Goto(p, "uptime")
       \/ /\ MayFailCalls \/ timerFile = Missing
          /\ UNCHANGED ttimer /\ Answer(p, "error")
    /\ UNCHANGED <<enabled, disk, mem, timerFile, thist>>

\* Within half an hour after boot the first run is left to the timer.
CheckUptime(p) ==
    /\ tpc[p] = "uptime"
    /\ \/ Answer(p, "ok")
       \/ Goto(p, "runner")
    /\ UNCHANGED <<tfiles, thist>>

StartRunner(p) ==
    /\ tpc[p] = "runner"
    /\ \/ Answer(p, "ok")
       \/ MayFailCalls /\ Goto(p, "unstop")
    /\ UNCHANGED <<tfiles, thist>>

\* Mutant: the timer goes on although the caller is told of a failure.
UndoStartNot(p) ==
    /\ tpc[p] = "unstop"
    /\ Answer(p, "error")
    /\ UNCHANGED <<tfiles, thist>>

UndoStart(p) ==
    /\ tpc[p] = "unstop"
    /\ StopSucceeds \/ StopFails
    /\ Answer(p, "error")
    /\ UNCHANGED <<enabled, disk, mem, timerFile, raced, stale>>

\* Disabling the feature: the timer's file goes, then the enable file.
DestroyTimer(p) ==
    /\ tpc[p] = "destroy"
    /\ \/ timerFile' = Missing
       \/ MayFailCalls /\ UNCHANGED timerFile
    /\ Goto(p, "unlink")
    /\ UNCHANGED <<enabled, disk, mem, ttimer, thist>>

UnlinkEnableFile(p) ==
    /\ tpc[p] = "unlink"
    /\ \/ enabled /\ enabled' = FALSE /\ Answer(p, "ok")
       \/ (MayFailCalls \/ ~enabled) /\ UNCHANGED enabled /\ Answer(p, "error")
    /\ UNCHANGED <<disk, mem, timerFile, ttimer, thist>>

Handler(p) ==
    \/ CreateEnableFile(p) \/ CheckEnabled(p) \/ SetValue(p) \/ RewriteTimer(p)
    \/ TimerStatus(p) \/ StopTimer(p) \/ EnsureTimerFile(p) \/ StartTimer(p)
    \/ CheckUptime(p) \/ StartRunner(p) \/ UndoStart(p) \/ DestroyTimer(p)
    \/ UnlinkEnableFile(p)

TrNext == \E p \in Processes : StartProcess(p) \/ Request(p) \/ Handler(p)

TrSpec == TrInit /\ [][TrNext]_tvars

-----------------------------------------------------------------------------
(* Properties.                                                             *)

\* Every variable has its type.
TrTypeOK ==
    /\ enabled \in BOOLEAN /\ timerOn \in BOOLEAN /\ timerFile \in Nat /\ timerFreq \in Nat
    /\ disk \in Settings /\ mem \in [Processes -> Settings]
    /\ tpc \in [Processes -> Steps] /\ top \in [Processes -> Ops]
    /\ tval \in [Processes -> Nat]
    /\ treply \in {"none", "ok", "error", "invalid", "ignored"}
    /\ raced \in BOOLEAN /\ stopFailed \in BOOLEAN /\ unapplied \in BOOLEAN
    /\ stale \in BOOLEAN

Answers(p, r) == tpc[p] # "idle" /\ tpc'[p] = "idle" /\ treply' = r

\* Requests that do not overlap are answered truly: the periodic run is on after
\* "ok" and off after "error", unless systemctl would not stop the timer.
AnsweredTruly ==
    [][\A p \in Processes : ~raced =>
        /\ Answers(p, "ok") /\ top[p] = "periodicOn" => timerOn'
        /\ Answers(p, "error") /\ SwitchOn(p) /\ tpc[p] # "rewrite"
           => ~timerOn' \/ stopFailed']_tvars

\* With the feature off no timer runs, once requests are done that did not overlap.
DisabledIsQuiet ==
    ~raced /\ (\A p \in Processes : tpc[p] = "idle") /\ ~enabled => ~timerOn \/ stopFailed

\* The periodic run goes on at the frequency the settings file has, not just the
\* timer's file, once requests are done that did not overlap.  What the code leaves
\* open is exempted as long as it lasts: a process saved another value with a frequency
\* that it had read before, or the frequency was not saved (stale); the status of a
\* running timer could not be had, and the request succeeded without starting it again
\* (unapplied, until the timer is stopped); or systemctl would not stop it.
FrequencyApplied ==
    ~raced /\ ~stale /\ ~unapplied /\ ~stopFailed /\ (\A p \in Processes : tpc[p] = "idle")
    /\ timerOn => timerFreq = disk.freq
=============================================================================
