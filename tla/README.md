# Verification of rdk-hwselftest in TLA+

The hardware self test of a set-top box consists of an agent, which runs diagnostic
procedures on request, and of clients that connect to it over a websocket. This directory
holds TLA+ models of the agent, of the test client and of the settings both work with, the
TLC configurations that check them, and proofs about them. Paths below are relative to `src/`.

## 1. The system

```
 client --ws--> LwsCallback --WA_COMM_SendTxt--> [INIT queue] --> AgentTask --> [DIAG queue] --> DiagTask
   ^               |   ^                              ^               |                            | creates
   |            close  txMsg                          |          [COMM queue]                      v
   +-- WRITEABLE --+   +--- WA_COMM_WS_Callback <-- CommTask <---------+                     instance threads
                                                      |                                            | post
                       results: DiagTask (TESTRUN), instances --> aggregator --> results file      v
                       main: waits for WA_MAIN_Quit, then stops all of the above             collector: join, free

 instance threads --> drivers, IARM services (one shared connection), TRM
                  --> result filter <--> buffer file
 test client: caller --issue--> worker --TESTRUN, diags--> ws --> agent --> looper --cbUpdate--> worker
 TR-69 daemon, command line tool --> settings file, enable file, systemd timer --> periodic test client
```

| Component | State | Operations | Interacts through |
|---|---|---|---|
| Dispatcher, `agent/core/wa_diag.c` | procedures, their lists of instances, id box, one mutex; incoming queue and collector's queue | take a call, create an instance, break, reply, collect, exit | queues of 10; a thread per instance; a mutex not all readers take |
| Aggregator, `agent/core/wa_agg.c`, `diag/wa_diag_prev_results.c` | two banks of results, current bank, `writeTestResult`, results file | start and finish a test run, set a result, get and serialise the previous results, load at start | mutex; a pointer that readers follow after they have released it |
| Communication, `agent/core/wa_comm.c`, `comm/wa_comm_ws.c` | registered connections; per connection a buffer for one message, a flag and a condition variable | register, receive, hand over, write, close | lws callbacks, two mutexes, a timed wait |
| Start and stop, `agent/wa_main.c`, `core/wa_init.c`, `core/wa_config.c` | `quitState`; AgentTask's queue | wait for a client, wait for the request to quit, forward messages, stop the tasks in order | condition variable, joins, empty messages that end a task |
| Id boxes, `core/utils/id` | sorted list of ids in use, last id | generate, release | called under the mutex of the dispatcher or of the connections |
| OS adaptation, `adaptation/os/linux` | POSIX queues, threads, signals | blocking and timed send, create, join, destroy, signal | - |
| Result filter, `core/diag/wa_diag_filter.c` | history of pass and fail per diag, filter parameters, buffer file | start of a run, result of a diag, dump | mutex that not all users take; file replaced by remove and rename |
| Tuner procedure, `core/diag/wa_diag_tuner.c`, `utils/rdk/wa_trh.cpp` | locks seen, sessions with TRM, the file of results, the lucky entry of the SI cache | test all tuners, or one channel | status files that others rewrite, TRM's events, the quit flag |
| Procedures over IARM, `core/diag`, `utils/rdk/wa_iarm.cpp` | a counted connection, `checkOnlyPairing`, buffers of answers | ask services one after the other and judge | shared by up to nine threads; only the counter has a mutex |
| Other procedures | little; drivers and services | run, report progress, return a status | called in an instance thread |
| Utilities, `core/utils` | static pool of list elements; none otherwise | lists, JSON-RPC validation, SNMP, RDK services, files | - |
| Test client, `tr69profile` | state of each diag, dependencies, maps from ids and instances to diags, state of the scheduler | issue a run, send, receive, disconnect | caller, worker and receiving thread with four mutexes; two callbacks |
| TR-69 settings, `tr69profile/wa_wsclient.cpp`, `wa_settings.h`, `wa_service.cpp` | settings file and a copy of it per process, enable file, timer file, the timer | switch the feature or the periodic run, change frequency and thresholds | files and `systemctl`, without a lock between processes |
| Web client, CLI, scripts | - | start runs, show results | websocket; TR-69 library |

What is hard in it:

* *Concurrency.* About six threads and one per instance share the lists of the dispatcher,
  and several reads are made outside the mutex: the count of instances (`wa_diag.c:736`),
  the handle of a task (`wa_diag.c:835`, `848`), the bank behind a pointer
  (`wa_diag_prev_results.c:71`), the outgoing buffer (`wa_comm_ws.c:503`).
* *Life time.* Instances and connections are freed by one thread while others hold a
  pointer, a handle or an id. The safety of that rests on orders that no single function
  shows.
* *Loss.* Every hop between queues drops a message after a few milliseconds.
* *Exit.* The tasks are stopped one after the other through the same bounded queues they
  work with.
* *Persistence.* The results file is truncated and rewritten in place; the buffer file of the
  filter is removed before its successor is renamed; settings and timer are changed one file
  after the other.
* *Two sides.* The client learns of the end of a diag through two maps, a flag per diag and one
  flag for the worker; when one of them is missed the run never ends.

What makes each component correct: the dispatcher never has two instances of a procedure,
answers each call once and frees each instance once, after its thread has done with it; the
aggregator keeps readers and test runs apart and reports results of one run; communication
keeps order and identity of messages and uses no connection that is gone; the exit ends; an
id in use is not given out again; the filter judges by the results a diag really had; a client
loses no diag it has asked for, and its run ends; requests for the periodic run leave the timer
as they say; a procedure gives back what it took and concludes nothing it was not told.
`PROJECT.json` lists the hazards line by line with the
property that covers each, or the reason why none does.

## 2. Modules

| Module | Models | Composed with |
|---|---|---|
| `WaDiag` | dispatcher, instances, collector, `WA_DIAG_Exit`, the part of `WA_INIT_Exit` around it | |
| `WaAgg` | aggregator and its reader | implements `PreviousResults` |
| `PreviousResults` | what users of the aggregator rely on | |
| `WaId` | the search for an id, element by element | implements `IdBox` |
| `IdBox` | what users of an id box rely on | |
| `WaComm` | websocket thread, CommTask, AgentTask, the main thread's wait and exit | implements `ClientChannel` |
| `ClientChannel` | what a diag can expect when it sends to its caller | |
| `HwstClient` | the test client: caller, worker, looper, and the agent as they see it | implements `TestRun` |
| `TestRun` | what one who issues a run is promised | |
| `WaFilter` | the result filter, its buffer file, the daemon that removes it | |
| `WaWsclient` | the settings and the timer of the periodic run, two processes | |
| `WaTuner` | the tuner procedure with TRM | |
| `WaIarm` | nine procedures that share the IARM connection | |
| `*_proofs` | theorems about the module of that name | extend it |
| `MCParts_proofs` | theorems about `WaTuner`, `WaIarm` and the five parts together | extends `MCParts` and the proofs of `WaFilter`, `WaWsclient` and `WaId` |
| `MC*` | the instances TLC checks, with their symmetries | extend it; `MCParts` extends `WaId`, `WaFilter`, `WaWsclient`, `WaTuner` and `WaIarm` |

### How state and actions correspond to the code

`WaDiag`. Each queue is a sequence with its depth as a constant. `Queued` and `TimedOut` are
the outcomes of `WA_OSA_QTimedRetrySend`; `WA_OSA_QSend` waits in the guard of its action. A
thread is a program counter: `dpc` (DiagTask), `cpc` (collector), `xpc` (the thread that
exits), `pc[i]` (instance). `handle[i]` is `pInstance->taskHandle`; between `CreateInstance`
and `StoreHandle` the new thread runs and its handle is `"unset"`, which is what
`pthread_create` and the assignment after it do. The mutex needs no variable: only DiagTask
keeps it over more than one of these steps. `live`, `idUsed` and `diagOf` are the instance
lists and the id box. `fate` is a history variable, one entry per request. A procedure itself
is one step of any length; what it sends is `InstanceProgress`. `Ids` is any finite or
infinite set: that the box gives out each only once is what `WaId` shows.

`WaAgg`. A bank is a record spread over `dirty`, `type`, `time`, `res` and `msg`. `res` is
the status per diag. `msg` is the result that the stored text describes, so a text left over
from an earlier result is distinguishable. `saving` stands for the time between the
truncation of the file and its completion, with the mutex held; `file` is what a restart
would read from it. The reader takes one diag per step. `Restart` is a crash, a stop or a
power cut, between any two steps; after a power cut the file may be gone even after
`FinishEnd`, because `fsync` precedes `fclose` (`wa_agg.c:705`, `712`). `run`, `fresh`, `rsnap`
and `rreused` are history variables.

`WaId`. One step per element of the list. The id type has `MaxId + 1` values and `Incremented`
is its modular increment; the list has the limit of the pool.

`WaComm`. There is one connection at a time, since `FILTER_NETWORK_CONNECTION` turns
others away; `conn` counts them. `hpc` is where `LwsCallback` waits for a lock or is about to
return, and `Ends` says when lws calls back for the end of a connection. `valid`, `tx`,
`rest` are fields of the connection, `alive` and `reg` say for which connections the condition
variable and the registration exist. `cpc = "callback"` and `"wait"` are the steps of
`WA_COMM_WS_Callback` with the mutex held. `ref` says whether a json reference is left.
`quit` is `quitState`, `mpc` the main thread from the lock before the wait to the join of
AgentTask.

`HwstClient`. Three threads with a program counter each: `apc` (who calls `Sched::issue` or
destroys `Sched`), `wpc` (`Sched::worker`), `lpc` (nopoll's loop). `apiMutex` of `Ws` is `holder`;
the other mutexes are held within one step. `byId` and `byInst` are the maps of `Comm`, `dstate` and
`modified` the state of each diag, and the setters allow what `hwst_diag.cpp` does. `agent` says
what the agent has done about a diag; it may answer, stay mute, answer with an error or drop the
connection. Scenarios are given by `jobs`: a diag that a scenario lacks and one that is disabled
are the same to the client. A send that fails ends the process (`WorkerSendFails`), since
`hwst_comm.cpp:112` erases an iterator that was never set; so does a call through the `comm` the
worker has reset (`IssueAnnounceCrashes`). A message about progress changes nothing: the client looks
for the number beside `params` (`hwst_comm.cpp:391`) and the agent puts it inside. Nothing sets a
dependency to strict, so the case of a failed one (`hwst_scenario.cpp:158`) cannot happen. A pass of
the worker is as many steps as it has looks at the diags, since a state changes under the mutex of
that diag only: each element of the results (`WorkerCollect`), capabilities_info
(`EnableCapable`, `WorkerNext`), each element that might be next (`WorkerScan`) and whether all is
done (`WorkerAllDone`); messages are handled in between.
`mute`, `fresh` and `cleared` are history variables.

`WaFilter`. A history is a sequence of `F`, `P` and ends of lines, newest first. The file has one
line per diag and the depth it was written with. `fpc` is the thread of the requests in
`WA_FILTER_SetFilterBuffer` or `WA_FILTER_DumpResultFilter`, `jpc` an instance in
`WA_FILTER_GetFilteredResult`; `buffer_mutex` is held from `LoadBuffer` to the end and while
the instance judges. The calls to the RFC store answer any value that can be set, lists of
parameters that are too short included (`StoredParams`). `recent` is what was pushed, whatever
became of the history, and travels with the file as `real`; `intact`, `clash` and `kept` remember
what the properties grant.

`WaWsclient`. `tpc` is a handler of a process, one system call at a time; `top` and `tval` its request.
`disk` is the settings file and `mem` what each process has read of it. `timerFile` is the frequency in
the file of the timer, `timerFreq` that of the timer that runs: the file's when it was started, since a start
leaves a running timer alone. That `systemctl start` sees the present file is assumed of systemd, and so is
that `enable`, whose failure is only logged (`wa_wsclient.cpp:402`), changes nothing before the next boot. A
status that cannot be had is taken for that of a timer that does not run (`TimerStatus`). `raced`,
`stopFailed`, `unapplied` and `stale` are history variables. `StartProcess` is a new command of the tool
or a restart of the daemon.

`WaTuner`. `upc` is the step of `WA_DIAG_TUNER_status`. A status file is a sequence of front ends, each
idle, without lock, or locked here, elsewhere or unreadably; a look at it (`LookAtTuners`) is one step.
`trh` is the status in the listener of each reservation, which TRM answers at any time, also when nobody
waits any more; `session` says whether the procedure holds one. `givenUp` is a history variable: the
reservations whose handler the code has lost, as the `delete` behind each `throw` (`wa_trh.cpp:245`) is
never reached. `heap` names the memory it has taken. `alone` is the test of a channel
that the TR-69 profile asks for, which also writes the file of tune results.

`WaIarm`. `team` is the set of procedures that run; `at[t]` names the question a thread is about
to ask. Answers are any of those the code tells apart. `heard` is what a test was told and
`judged` what it returned. Steps between which a shared variable can change are separate; all
others are one action (`Ask`) over `AnswersOf`. `HdcpLook` is one look at the port; the test may be
cancelled behind a look whatever it said. What `nexus_hdcpStatus` answers (`wa_diag_hdmiout.c:141-181`) makes
no difference: without braces at 234-239 and 251-258 its result is overwritten, so `Hdmiout` has one
step for it. A service that does not answer leaves an
uninitialised pointer to be read (`*(bool*)value`), which may end the agent (`NotAnswered`).

## 3. What TLC checks

| Run | Instance | Shows | States |
|---|---|---|---|
| `diag_safety` | 3 procedures, 2 ids, 2 requests, queues of 1, failures, exit | `TypeOK`, `AtMostOneInstance`, `IdHeldWhileRunning`, `NoDanglingInstance`, `AnsweredOnce` | 772 329 |
| `diag_live` | 2 procedures, 2 ids, 1 request, collector's queue of 3, exit | `InstancesCollected`, `CallsSettled`, `ExitCompletes` | 417 520 |
| `agg` | 2 diags, pass and fail, 3 runs | `TypeOK`, `BankInv`, `SnapshotUnlessReused`, refinement `Promise` | 3 727 252 |
| `comm_safety` | 2 connections, 2 payloads, queues of 1, failures | `TypeOK`, `NoUseAfterClose`, `NothingLeftBehind`, `WholeMessages`, refinement `LossyButInOrder` | 1 779 805 |
| `comm_live` | 1 connection, 1 payload, queues of 1, failures | `CommTaskReturns`, `QuitHeeded`, `ExitCompletes` | 139 495 |
| `clients` | 3 diags, jobs for one, for two and for all, a mute agent, lost connections, exit of the caller | `HwstTypeOK`, `DependencyFirst`, `NothingForgotten`, `SummaryComplete`, `OfferedUnlessLate`, `OrderlyEndNeverBlocks`, `RunEnds`, refinement `ImplementsRun` | 1 318 788 |
| `parts` | see below; failures of every call | filter: `HistoryIsRecent`, `VerdictOfRecent`, `LostOnlyInTheGap`; settings: `DisabledIsQuiet`, `FrequencyApplied`, `AnsweredTruly`; tuner: `ReturnsEverything`, `SuccessIsEarned`; IARM: `ConnectedWhileUsed`, `JudgedAsHeard`; ids: refinement `GivesNextFree`; `PartsTypeOK` | 3 540 780 |
| `diag_destroy`, `diag_aggregator`, `agg_stale`, `comm_json`, `clients_offer` | small | one violated property each, see section 5 | - |

Each property has a mutant next to the definition it changes, a bug that could plausibly
be there, and TLC finds the property violated for it.

Where a property grants an exception, it is what the code does and the run reached:

* `NothingForgotten`: an error answer takes a diag off its map and leaves it issued, so the run
  never ends (`hwst_comm.cpp:344`).
* `SummaryComplete`: a result that comes during the last pass over the diags is missing
  (`hwst_sched.cpp:162`), and so is one that comes before `issue` clears the summary (511).
* `OfferedUnlessLate`: capabilities_info that gets done during the worker's last pass ends the run with
  nothing else tested, see `clients_offer` in section 5. `ImplementsRun` allows such an end.
* `VerdictOfRecent`: the start of a run may change the depth under a verdict, or make it divide
  by 0 (`wa_diag_filter.c:504`, `clash`): what a verdict is then, no property says.
  `LostOnlyInTheGap`: only between remove and rename.
* `FrequencyApplied`: a process writes back a frequency it has read before another changed it, or the
  rewrite of settings or timer fails (`stale`); `systemctl status` fails and the request succeeds
  without starting the running timer again (`unapplied`, `wa_wsclient.cpp:488`); a stop fails
  (`stopFailed`). Each lasts until a later request mends it. With the other properties of the
  settings it is claimed for requests that do not overlap (`raced`).
* `ReturnsEverything`: a cancelled test leaves its session to TRM's timeout, and some early
  returns leave memory. A reservation the code gave up (`givenUp`) leaves its handler, and its tuner
  if TRM answers with a success after the wait (`wa_trh.cpp:223`). `SuccessIsEarned`: the file of tune results may not be writable.
* `ConnectedWhileUsed`: `lost` counts connections that are never given back
  (`wa_diag_wifi.c:365`, and a disconnect that fails).
* `JudgedAsHeard`: a test that the capabilities or the system information disturb (`disturbed`) may judge
  by what was asked for those: what it concludes then, no property says. The looks at HDCP are counted over all tests and never reset
  (`wa_vport.cpp:124`), so after five failed looks the port is asked no more.

### Bounds

* *Queues of one.* A queue matters when it is empty, not empty, or full; with one place it
  gets to each quickly, and so do two queues at once. `diag_live` gives the collector's queue
  room for all instances and the stop message: with less, `WA_DIAG_Exit` may have to join a
  thread that is blocked on a queue nobody reads any more, and whether the signal frees it
  depends on a field that is never set (`wa_osa.c:125`). So the liveness of the exit is
  claimed for at most as many running instances as the queue holds: 10 of 19 procedures.
* *Two ids, three procedures* (`diag_safety`): ids run out, and a procedure may be waiting
  for one that another gives back. Two requests make answers to different calls mix. Requests
  are used again once they are settled.
* *Three runs* (`agg`): the third is the first that uses a bank which a reader may hold and
  which has been valid before. Two diags, so that a run may set one and not the other.
* *Eight ids* (`parts`), with lists of 5 and of 8: the search wraps, and finds a gap at the front,
  inside and at the end;
  the list of 8 lets all ids be in use, as in the self-test build, that of 5 has the pool run
  out first, as in the agent.
* *Two connections* (`comm_safety`): answers for the first are under way in the second.
  Two payloads tell the order of messages.
* *Three diags* (`clients`): capabilities, decoder and tuner, the smallest set with a dependency on
  all that follow and one between two diags; runs follow each other without limit.
* *`parts`* checks five parts that meet the rest of the system only where they are called. A behaviour
  moves one of them and the others rest in an initial state each: their states are added, not
  multiplied. The filter has one diag, whose line does not interact with others, histories of at
  most 2 against a configured 3, and one filter of each kind; the settings have two processes,
  a frequency beside the default, 101 for the threshold that is refused, and for the size the default,
  saved or not: no property depends on its value, only on what is saved with it; the tuner has two
  tuners, two entries and two looks (15 in the code) and levels on both sides of -25 dBmV. Teams of IARM users are chosen so that all that share a variable meet, with two or
  three at a time, and the HDMI port is looked at three times (5 in the code).

Symmetry is used in safety runs only. `Permutations` of procedures, ids and requests is sound
there since nothing orders them (the order of the procedures in the list of the dispatcher is
left open in `ExitSignal`); in `agg` and `comm_safety` diags and payloads are interchangeable.

### Fairness

Threads are POSIX threads that the system schedules, so each thread that can take a step
does (weak fairness). In `WaDiag` this includes AgentTask and the procedures, which return:
this is an assumption about the drivers. Clients, `ExitBegin` and progress messages have no
fairness. In `WaComm` a thread may wait for a mutex (`Register`, `Unregister`) or for room
in a queue (`MainStopComm`, `MainStopAgent`) that others keep taking. POSIX gives no order
among waiting threads, but what is sent through the queues is finite: an instance sends a
bounded number of messages and no new calls come once the connection is down. So nobody is
kept out for ever, which in the model, where diags may send for ever, is strong fairness of
these two threads. CommTask's timeout (`WakeFails`) is part of its weak fairness: the wait is
timed, so it ends. The client has no obligation to read.

In `HwstClient` the caller, the worker and the looper are threads that go on (weak fairness), and the agent
answers what it has begun (`HwstFairness`): `RunEnds` is claimed unless an answer was lost (`mute`),
which the client cannot notice as it has no timeout of its own. Progress messages, lost
messages and dropped connections have no fairness. The models in `parts` are checked for safety.

## 4. What is proved

TLAPS checks the following for all values of the constants, under the assumptions named
in the modules (positive depths; `None` different from everything else; the list of ids
no longer than there are ids, which the code asserts at compile time, `wa_id.c:171`).

| Theorem | States | Inductive invariant |
|---|---|---|
| `WaDiag_proofs!TypeCorrect` | `TypeOK` | and a call is held while DiagTask acts on one |
| `WaDiag_proofs!OneInstance` | `AtMostOneInstance` | `OneInv`: while DiagTask is about to create an instance there is none, because only DiagTask creates and all others only remove |
| `WaDiag_proofs!IdHeld`, `NoDangling` | `IdHeldWhileRunning`, `NoDanglingInstance` | `HoldInv`, `HandInv`: a running instance is listed with its id until the exit goes through the lists, which it does only after the collector has ended; what is in the collector's queue is past its post, and is there once |
| `WaDiag_proofs!Answered_Once` | `AnsweredOnce` | `CallInv`: a call that is not settled is in the queue, with DiagTask or with the instance it started, in one of these and once; whoever settles it lets go of it in the same step |
| `WaAgg_proofs!TypeCorrect`, `BanksApart` | `TypeOK`, `BankInv` | `AInv`, which adds what the reader has, the order of times and the shape of the file |
| `WaAgg_proofs!KeepsPromise` | `Promise`: `WaAgg` implements `PreviousResults` | the same: the valid bank is not touched while a run is in progress, and is older than it |
| `WaAgg_proofs!Snapshot_Unless_Reused` | `SnapshotUnlessReused` | `SnapInv`: unless reused, the bank of the reader is not the one being filled and is still what it was when the reader got it, and what was read of it agrees with that |
| `WaId_proofs!TypeCorrect`, `InOrder` | `TypeOK`, `Sorted` | `IdInv`: what the loop knows about the elements it has passed, in three cases: before the wrap, after it with no id tried yet, and after it within the first stretch of ids in use |
| `WaId_proofs!NextFree` | `GivesNextFree`: `WaId` implements `IdBox` | the same; each of the three places the search may end at has a lemma that the id is the next free one |
| `WaComm_proofs!TypeCorrect` | `TypeOK` | `CommInv` |
| `WaComm_proofs!NoUseAfter`, `NothingLeft`, `Whole` | `NoUseAfterClose`, `NothingLeftBehind`, `WholeMessages` | `LinkInv`: what exists of a connection follows from its state and from where the callback is; CommTask's connection is registered, since only `Unregister` takes one off the list and it needs the mutex |
| `WaComm_proofs!Lossy_But_In_Order` | `LossyButInOrder`: `WaComm` implements `ClientChannel` | and `BufferInv`: what the buffer holds is for the connection there is; it is empty when one is made, and not while lws reports it written; lemmas say what `AnswersIn`, a recursive function, is when a message comes or goes at an end of a queue |
| `HwstClient_proofs!HwstTypes`, `HwstInvariant`, `Dependencies_First`, `Nothing_Forgotten`, `Orderly_End` | `HwstTypeOK`, `DependencyFirst`, `NothingForgotten`, `OrderlyEndNeverBlocks` | `HInv`: where the three threads can be at the same time and who holds the mutex (`Threading`), and how the state of a diag, Comm's two maps and what the agent has done about it agree (`Diagnosing`) |
| `HwstClient_proofs!Implements_Run` | `ImplementsRun`: `HwstClient` implements `TestRun` | the same: an answer finds its diag only through the maps, and a diag leaves the maps when it has its result |
| `HwstClient_proofs!Offered_Unless_Late` | `OfferedUnlessLate` | `OfferInv`: once the worker has passed the look for capabilities_info, these are offered, not finished, or got finished in this pass; the look, the scan and `checkAllDone` are separate steps |
| `WaWsclient_proofs!WsclientTypes`, `Quiet`, `TrueAnswers`, `Applied` | `TrTypeOK`, `DisabledIsQuiet`, `AnsweredTruly`, `FrequencyApplied` | `WsInv`: which handlers can be at which step (`Fits`), what the one request that is under way has done to the timer at each step (`Orderly`), that the file of the timer has the saved frequency except between the two writes that change it (`InStep`), and that a running timer has that of its file except between the rewrite and the restart, which the status decides on (`Running`) |
| `HwstClient_proofs!Summary_Complete` | `SummaryComplete` | `SumInv`: a result that is no news any more is in the summary or was cleared from it (`Gathered`); news of a diag the worker has passed in its look came after that (`Late`); once the summary of the run before is cleared it has only what is no news, once (`Once`) |
| `WaFilter_proofs!Lost_Only_In_The_Gap` | `LostOnlyInTheGap` | `GapInv`: the buffer file is removed only when there is a new one, which nobody touches before it has taken the name |
| `WaFilter_proofs!Filter_Types`, `History_Is_Recent` | `FTypeOK`, `HistoryIsRecent` | `FilterInv`: while every file could be opened, the first `depth` characters of a loaded history are the last results, passes before the first (`Window`); a file in which no diag is missing has such a line for each, of the results and the depth at the time it was written (`Whole`) |
| `WaFilter_proofs!Verdict_Of_Recent` | `VerdictOfRecent` | and `JudgeInv`: unless a start of a run came in between, the history is loaded and the depth is the one read with the push. `LongestRowIs`: the loop finds a row of `m` failures if there is one, from what it knows at each character (`RowsTold`); `ShareReaches`: rounding the share down does not change the verdict |
| `MCParts_proofs!Tuner_Types`, `Returns_Everything` | `UTypeOK`, `ReturnsEverything` | `TunerInv`: at which steps memory and session are held (`Held`), which reservations have a listener at each step, whatever TRM answers when (`Reserving`), and where in the list of entries the test is (`Place`) |
| `MCParts_proofs!Success_Is_Earned` | `SuccessIsEarned` | the same: the count of locks reaches the number of tuners only if each was seen locked (`Counted`), and what the file says once there is a result (`Earned`) |
| `MCParts_proofs!Connected_While_Used` | `ConnectedWhileUsed` | `BusInv`: the count against the cardinality of the set of users; a question is only asked by, and only leads to, steps of a user (`Within`) |
| `MCParts_proofs!Iarm_Types`, `Judged_As_Heard` | `STypeOK`, `JudgedAsHeard` | `HearInv`: for each procedure and step what it has heard when it comes there undisturbed (`Told`), and that its verdict is borne out by that (`BornOut`); `OnlyInv`: nobody but the capabilities looks for pairing alone |
| `MCParts_proofs!Parts_Types` | `PartsTypeOK` | the invariants of the five together; a step of one part leaves the variables of the others alone |

None of the invariants is inductive alone. `AtMostOneInstance` needs to know what DiagTask saw
before it decided; `NoDanglingInstance` needs that an instance in the queue is listed, which
rests on the ids being held; `BankInv` holds through a file write only with what `saving`
implies; `Sorted` needs the whole loop invariant; `NoUseAfterClose` needs what is
registered at each point of the callback; `NothingForgotten` speaks of one flag and rests on
both maps, the agent and the phase of the worker. `SummaryComplete` speaks of one moment, the report,
and rests on what the worker has passed before it. `HistoryIsRecent` speaks of the memory, which is
lost with each process: it holds because of what the files say, and those through what a file says of
a depth that is no longer the present one. `ReturnsEverything` and `JudgedAsHeard` speak of the end
of a test and need what holds at each step on the way.

Two proofs found the model wrong. A crash in the middle of a dump cut the file to its first
lines also when an earlier crash had cut it before them, which asked for lines that were not
there: now it keeps those of the first lines that there are (`FirstLines`). And the filter's
state was claimed for an empty set of diags, where it has no diag to judge: `FilterAssumption` now
says that there is one.

Every invariant, action property and refinement that the passing runs check is thereby stated by
a theorem. Only model-checked are the liveness properties (`RunEnds`, `CallsSettled`,
`ExitCompletes`, `CommTaskReturns`, `QuitHeeded`, `InstancesCollected`): liveness under fairness and
`ENABLED` are out of the prover's reach. So are the induction theorems of the library, which take
an operator: the two recursive functions of the models (`AnswersIn`, `LongestRow`) are reasoned about
by a least counterexample instead, which exists since the natural numbers are well-founded. No
module declares a `RECURSIVE` operator.

## 5. Findings

1. `diag_destroy`: the collector may free a task it has not joined, since it reads the handle
   before it is stored. The note on `WA_OSA_TaskDestroy` forbids that (`wa_osa.h:201`).
2. `diag_aggregator`: the aggregator is torn down (`wa_init.c:230`) before the instances that
   report to it are waited for (`wa_init.c:236`).
3. `agg_stale`: a bank keeps results of an earlier run that the next run reports as its own.
4. `comm_json`: the callback releases the json also when it fails, against `wa_comm.h:71-72`,
   and CommTask releases it again.
5. `clients_offer`: a run of all diags is reported as completed and passed with none tested, when the
   capabilities come after the worker has looked for them (`hwst_scenario_auto.cpp:82`) and before it asks
   whether all is done (`hwst_sched.cpp:190`).

A failing `systemctl status` or `stop`, and a reservation that TRM grants too late, are not listed: nothing
in the repository says what should come of them. The properties name them as exceptions.

In the models the program goes on after each of them as if nothing had happened: the
other properties hold of what it would do then.

## 6. What is not modelled, and why

* In the modelled parts: the chain of initialisations with its error paths and the fork in
  `main`, which run in one thread; spurious wake-ups; the failure of mutex operations; leaks
  of messages that a full queue drops; `WA_COMM_Send`, which no adapter calls; the content of
  requests, parameters and results; the first part of a request too long for the buffer
  (`wa_comm_ws.c:561`) beyond that it is taken for all of it.
* An instance thread that `WA_DIAG_Exit` did not join (its handle was not stored) may go on
  with a context that has been freed (`wa_diag.c:417`); the models let it run to its end or to
  the end of the process.
* Of the client: the 180 seconds of `wa_wsclient::wait`, after which a command of the tool exits,
  beyond that `Destroy` may come at any time; `execute_tests`, `get_results` and the other handlers that
  run tests, which call the scheduler; the tune type, one value that is stored and read; a
  frequency too large for `std::stoi`, which throws.
* Of the procedures: avdecoder, which polls a pipeline whose states only its driver knows; hdd,
  mcard, modem, bluetooth, dram, file and ir, which are a reading and a comparison each; the build
  with SNMP instead of IARM. In `WaDiag` each is a step that takes any time and returns anything.
* The static pool behind the lists, which is sequential, and the web client, which keeps the
  state of a page: see the plan.
* Logging, wrappers of RDK services, SNMP and files, shell scripts, systemd units, build
  files: input and output without a state the properties see.

## 7. Plan

In this order, the most important behaviour first:

1. done: `WaDiag` with its proofs.
2. done: `WaAgg`, `PreviousResults`, with proofs.
3. done: `WaId`, `IdBox`, with proofs.
4. done: `WaComm`, `ClientChannel`, with proofs.
5. done: `WaFilter`, `WaTuner`, `WaIarm`, `WaWsclient`, checked in one run, with proofs for all
   of them; with `WaId` they are the five parts of the theorem about types.
6. done: `HwstClient`, `TestRun`, with proofs.
7. `WaList`: the pool of list elements against sequences; the procedures that are left; the
   protocol state of the web client.
8. done: the refinement `LossyButInOrder` and the verdicts of the filter, `VerdictOfRecent`.
