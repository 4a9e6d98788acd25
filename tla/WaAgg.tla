-------------------------------- MODULE WaAgg -------------------------------
(***************************************************************************)
(* The results aggregator (agent/core/wa_agg.c): two banks of results, one *)
(* being filled by the test run in progress while the other one holds the  *)
(* results of the last run for readers.  Readers get a pointer to a bank   *)
(* and follow it without the mutex, one field after the other.  The        *)
(* results file is truncated and rewritten when a run finishes; the agent  *)
(* may crash, and the box lose power, at any moment, and the agent loads   *)
(* the file when it starts.                                                *)
(***************************************************************************)
EXTENDS Integers

CONSTANTS Diags,      \* the diags named ..._status in the configuration
          Results,    \* results a diag can have
          Pass,       \* WA_DIAG_ERRCODE_SUCCESS
          Default,    \* DEFAULT_RESULT_VALUE: the diag was not run
          MaxRuns,    \* bound: test runs started
          None

ASSUME ConstAssumption ==
    /\ Pass \in Results /\ Default \notin Results
    /\ MaxRuns \in Nat
    /\ None \notin Results \cup {Default}

Banks == {0, 1}
Types == {"filtered", "instant"}

VARIABLES
    dirty,            \* agg_results[b].dirty
    type, time,       \* .results_type, .local_time (the number of the run)
    res, msg,         \* .diag_results[d].result, and the result that
                      \* .diagResultMessage describes (None: never written)
    current,          \* current_bank
    writeTestResult,
    saving,           \* WA_AGG_FinishTestRun is writing the file; api_mutex is held
    file,             \* what the results file parses to (None: to nothing)
    run,              \* number of the last test run started (history)
    fresh,            \* the results of a bank set in its last run (history)
    rpc, rbank, rtodo, rgot,  \* the reader: step, bank, diags to go, what it has read
    rsnap, rreused    \* the bank as it was when the reader got it, and whether a
                      \* test run has been started in it since (history)

bvars == <<dirty, type, time, res, msg, fresh>>
rvars == <<rpc, rbank, rtodo, rgot, rsnap, rreused>>
vars == <<bvars, current, writeTestResult, saving, file, run, rvars>>

Reports == [type : Types, time : 0..MaxRuns,
            res : [Diags -> Results \cup {Default}],
            msg : [Diags -> Results \cup {None}]]

\* A message goes with a result that is a failure or a warning, unless the results
\* are filtered.
Shown(t, r, m) == IF r \in {Pass, Default} \/ t = "filtered" THEN None ELSE m

\* WA_AGG_Serialise of bank b.
Serialise(b) ==
    [type |-> type[b], time |-> time[b], res |-> res[b],
     msg |-> [d \in Diags |-> Shown(type[b], res[b][d], msg[b][d])]]

\* WA_AGG_Init: both banks have defaults, bank 0 what the file can tell.  A message
\* that is not in the file is not set.
Load(f) ==
    /\ dirty' = [b \in Banks |-> b = 1 \/ f = None]
    /\ type' = [b \in Banks |-> IF dirty'[b] THEN "instant" ELSE f.type]
    /\ time' = [b \in Banks |-> IF dirty'[b] THEN 0 ELSE f.time]
    /\ res' = [b \in Banks |-> IF dirty'[b] THEN [d \in Diags |-> Default] ELSE f.res]
    /\ msg' = [b \in Banks |-> IF dirty'[b] THEN [d \in Diags |-> None] ELSE f.msg]
    /\ fresh' = [b \in Banks |-> Diags]
    /\ current' = -1
    /\ writeTestResult' = TRUE
    /\ saving' = FALSE

NoReader ==
    /\ rpc = "idle" /\ rbank = 0 /\ rtodo = {} /\ rgot = None
    /\ rsnap = None /\ rreused = FALSE

Init ==
    /\ dirty = [b \in Banks |-> TRUE]
    /\ type = [b \in Banks |-> "instant"] /\ time = [b \in Banks |-> 0]
    /\ res = [b \in Banks |-> [d \in Diags |-> Default]]
    /\ msg = [b \in Banks |-> [d \in Diags |-> None]]
    /\ fresh = [b \in Banks |-> Diags]
    /\ current = -1 /\ writeTestResult = TRUE /\ saving = FALSE
    /\ file = None /\ run = 0
    /\ NoReader

\* The agent crashes, or is stopped, and starts again.  If it is the box that does,
\* the file may be lost: save_results calls fsync before fclose, and what json_dumpf
\* wrote is still in the buffer of the stream.
Restart ==
    /\ file' \in {file, None}
    /\ Load(file')
    /\ rpc' = "idle" /\ rbank' = 0 /\ rtodo' = {} /\ rgot' = None
    /\ rsnap' = None /\ rreused' = FALSE
    /\ UNCHANGED run

-----------------------------------------------------------------------------
(* Test runs: DiagTask and the instance threads, under api_mutex.          *)

\* Mutant: the run goes to bank 0 whether readers use it or not.
StartTestRunBank0(t) ==
    /\ ~saving /\ run < MaxRuns
    /\ current' = 0
    /\ type' = [type EXCEPT ![0] = t]
    /\ fresh' = [fresh EXCEPT ![0] = {}]
    /\ run' = run + 1
    /\ rreused' = (rreused \/ (rpc # "idle" /\ rbank = 0))
    /\ UNCHANGED <<dirty, time, res, msg, writeTestResult, saving, file,
                   rpc, rbank, rtodo, rgot, rsnap>>

\* Mutant: the banks are taken in turn, without wrapping round.
StartTestRunNext(t) ==
    /\ ~saving /\ run < MaxRuns
    /\ current' = current + 1
    /\ type' = [type EXCEPT ![current'] = t]
    /\ fresh' = [fresh EXCEPT ![current'] = {}]
    /\ run' = run + 1
    /\ rreused' = (rreused \/ (rpc # "idle" /\ rbank = current'))
    /\ UNCHANGED <<dirty, time, res, msg, writeTestResult, saving, file,
                   rpc, rbank, rtodo, rgot, rsnap>>

\* WA_AGG_StartTestRun: the results in the bank stay, whatever run they are of.
StartTestRun(t) ==
    /\ ~saving /\ run < MaxRuns
    /\ current' = IF dirty[0] THEN 0 ELSE 1
    /\ type' = [type EXCEPT ![current'] = t]
    /\ fresh' = [fresh EXCEPT ![current'] = {}]
    /\ run' = run + 1
    /\ rreused' = (rreused \/ (rpc # "idle" /\ rbank = current'))
    /\ UNCHANGED <<dirty, time, res, msg, writeTestResult, saving, file,
                   rpc, rbank, rtodo, rgot, rsnap>>

\* Mutant: the result goes to the bank that readers use.
SetTestResultOther(d, r) ==
    /\ ~saving /\ current # -1
    /\ res' = [res EXCEPT ![1 - current][d] = r]
    /\ msg' = [msg EXCEPT ![1 - current][d] = IF r = Pass THEN @ ELSE r]
    /\ fresh' = [fresh EXCEPT ![1 - current] = @ \cup {d}]
    /\ UNCHANGED <<dirty, type, time, current, writeTestResult, saving, file, run, rvars>>

\* WA_AGG_SetTestResult; a result that comes when no run is in progress is ignored.
\* A pass leaves the message of an earlier result.
SetTestResult(d, r) ==
    /\ ~saving /\ current # -1
    /\ res' = [res EXCEPT ![current][d] = r]
    /\ msg' = [msg EXCEPT ![current][d] = IF r = Pass THEN @ ELSE r]
    /\ fresh' = [fresh EXCEPT ![current] = @ \cup {d}]
    /\ UNCHANGED <<dirty, type, time, current, writeTestResult, saving, file, run, rvars>>

\* The tuner diag switches writing off; nobody switches it on again.
SetWriteTestResult ==
    /\ writeTestResult' = FALSE
    /\ UNCHANGED <<bvars, current, saving, file, run, rvars>>

\* WA_AGG_FinishTestRun up to fopen("wb+"), which truncates the file.
FinishBegin ==
    /\ ~saving /\ current # -1 /\ writeTestResult
    /\ time' = [time EXCEPT ![current] = run]
    /\ saving' = TRUE
    /\ file' = None
    /\ UNCHANGED <<dirty, type, res, msg, fresh, current, writeTestResult, run, rvars>>

\* Mutant: the other bank is not marked as dirty.
TurnOne ==
    /\ dirty' = [dirty EXCEPT ![current] = FALSE]
    /\ current' = -1

\* The bank becomes the valid one.
Turn ==
    /\ dirty' = [b \in Banks |-> b # current]
    /\ current' = -1

\* The file is written, or that fails: then what is there does not parse.
FinishEnd ==
    /\ saving
    /\ file' \in {Serialise(current), None}
    /\ Turn
    /\ saving' = FALSE
    /\ UNCHANGED <<type, time, res, msg, fresh, writeTestResult, run, rvars>>

\* The results are not to be written, or the file cannot be opened.
FinishUnsaved ==
    /\ ~saving /\ current # -1
    /\ time' = [time EXCEPT ![current] = run]
    /\ Turn
    /\ UNCHANGED <<type, res, msg, fresh, writeTestResult, saving, file, run, rvars>>

-----------------------------------------------------------------------------
(* WA_DIAG_PREV_RESULTS_Info, in an instance thread: there is one at most. *)

\* WA_AGG_GetPreviousResults: a pointer to the valid bank, if there is one.
ReaderGet ==
    /\ rpc = "idle" /\ ~saving
    /\ \E b \in Banks :
         /\ ~dirty[b] /\ (b = 1 => dirty[0])
         /\ rbank' = b /\ rsnap' = Serialise(b)
    /\ rpc' = "header" /\ rtodo' = Diags /\ rreused' = FALSE
    /\ UNCHANGED <<bvars, current, writeTestResult, saving, file, run, rgot>>

\* The results are too old, and not looked at any further.
ReaderExpired ==
    /\ rpc = "header"
    /\ rpc' = "idle" /\ rbank' = 0 /\ rtodo' = {} /\ rsnap' = None /\ rreused' = FALSE
    /\ UNCHANGED <<bvars, current, writeTestResult, saving, file, run, rgot>>

ReaderHeader ==
    /\ rpc = "header"
    /\ rpc' = "diags"
    /\ rgot' = [type |-> type[rbank], time |-> time[rbank],
                res |-> [d \in Diags |-> Default], msg |-> [d \in Diags |-> None]]
    /\ UNCHANGED <<bvars, current, writeTestResult, saving, file, run,
                   rbank, rtodo, rsnap, rreused>>

ReaderDiag(d) ==
    /\ rpc = "diags" /\ d \in rtodo
    /\ rgot' = [rgot EXCEPT !.res[d] = res[rbank][d],
                            !.msg[d] = Shown(type[rbank], res[rbank][d], msg[rbank][d])]
    /\ rtodo' = rtodo \ {d}
    /\ UNCHANGED <<bvars, current, writeTestResult, saving, file, run,
                   rpc, rbank, rsnap, rreused>>

\* The report goes to the client.
ReaderAnswer ==
    /\ rpc = "diags" /\ rtodo = {}
    /\ rpc' = "idle" /\ rbank' = 0 /\ rgot' = None /\ rsnap' = None /\ rreused' = FALSE
    /\ UNCHANGED <<bvars, current, writeTestResult, saving, file, run, rtodo>>

-----------------------------------------------------------------------------
Reader ==
    \/ ReaderGet \/ ReaderExpired \/ ReaderHeader \/ ReaderAnswer
    \/ \E d \in Diags : ReaderDiag(d)

TestRun ==
    \/ \E t \in Types : StartTestRun(t)
    \/ \E d \in Diags, r \in Results : SetTestResult(d, r)
    \/ SetWriteTestResult \/ FinishBegin \/ FinishEnd \/ FinishUnsaved

Next == TestRun \/ Reader \/ Restart

Spec == Init /\ [][Next]_vars

-----------------------------------------------------------------------------
(* Properties.                                                             *)

TypeOK ==
    /\ dirty \in [Banks -> BOOLEAN] /\ current \in Banks \cup {-1}
    /\ type \in [Banks -> Types] /\ time \in [Banks -> 0..MaxRuns]
    /\ res \in [Banks -> [Diags -> Results \cup {Default}]]
    /\ msg \in [Banks -> [Diags -> Results \cup {None}]]
    /\ fresh \in [Banks -> SUBSET Diags]
    /\ writeTestResult \in BOOLEAN /\ saving \in BOOLEAN
    /\ file \in Reports \cup {None} /\ run \in 0..MaxRuns
    /\ rpc \in {"idle", "header", "diags"} /\ rbank \in Banks /\ rtodo \subseteq Diags
    /\ rgot \in Reports \cup {None} /\ rsnap \in Reports \cup {None}
    /\ rreused \in BOOLEAN

\* A test run never works on the bank readers are given, and there is one such bank
\* at most: WA_AGG_StartTestRun (wa_agg.c:196) finds a dirty bank whatever runs were
\* started, abandoned and finished before, and whatever the file gave.
BankInv ==
    /\ current # -1 => dirty[current]
    /\ saving => current # -1
    /\ \E b \in Banks : dirty[b]

\* A report a reader puts together without the mutex is the one it was given the
\* bank for, unless a test run has finished and yet another one has been started in
\* that bank before the reader is through.
SnapshotUnlessReused ==
    rpc = "diags" /\ ~rreused =>
        /\ rgot.type = rsnap.type /\ rgot.time = rsnap.time
        /\ \A d \in Diags \ rtodo : rgot.res[d] = rsnap.res[d] /\ rgot.msg[d] = rsnap.msg[d]

\* The aggregator does what its users rely on: the valid bank stands for the latest
\* results, the file for the durable ones.
Latest ==
    CASE ~dirty[0] -> Serialise(0)
      [] dirty[0] /\ ~dirty[1] -> Serialise(1)
      [] OTHER -> None

PR == INSTANCE PreviousResults WITH latest <- Latest, durable <- file

Promise == PR!Spec

\* The results of a run are "of a test run in the current test run" (wa_agg.h:119):
\* what is reported as the result of a diag was set during the run reported on.
NoStaleResult ==
    \A b \in Banks : ~dirty[b] =>
        \A d \in Diags : res[b][d] = Default \/ d \in fresh[b]
=============================================================================
