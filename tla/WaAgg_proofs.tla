---------------------------- MODULE WaAgg_proofs ----------------------------
(***************************************************************************)
(* The results aggregator keeps the results of the last finished run apart *)
(* from those of the run in progress, and keeps the promise its readers    *)
(* rely on (PreviousResults), for any diags, results and number of runs.   *)
(***************************************************************************)
EXTENDS WaAgg, TLAPS

-----------------------------------------------------------------------------
(* The inductive invariant.                                                *)

\* A reader that goes through the diags has the header.
ReaderInv == rpc = "diags" => rgot \in Reports

\* What is reported was not reported by a run later than the last one started, and
\* the results that are valid during a run are those of an earlier one.
TimeInv ==
    /\ \A b \in Banks : time[b] <= run
    /\ file # None => file.time <= run
    /\ current # -1 => \A b \in Banks : ~dirty[b] => time[b] < run
    /\ saving => file = None /\ time[current] = run

\* The file has no message that would not be shown.
FileInv ==
    file # None =>
        \A d \in Diags : Shown(file.type, file.res[d], file.msg[d]) = file.msg[d]

AInv == TypeOK /\ BankInv /\ ReaderInv /\ TimeInv /\ FileInv

\* What the report of a bank looks like.
LEMMA SerialiseType ==
    ASSUME TypeOK, NEW b \in Banks
    PROVE  /\ Serialise(b) \in Reports /\ Serialise(b).time = time[b]
           /\ \A d \in Diags : Shown(Serialise(b).type, Serialise(b).res[d], Serialise(b).msg[d])
                                = Serialise(b).msg[d]
<1>1. \A d \in Diags : Shown(type[b], res[b][d], msg[b][d]) \in Results \cup {None}
  BY DEF TypeOK, Shown
<1>2. Serialise(b) \in Reports /\ Serialise(b).time = time[b]
  BY <1>1 DEF TypeOK, Serialise, Reports
<1>3. \A t, r, m : Shown(t, r, Shown(t, r, m)) = Shown(t, r, m)
  BY DEF Shown
<1>4. /\ Serialise(b).type = type[b] /\ Serialise(b).res = res[b]
      /\ \A d \in Diags : Serialise(b).msg[d] = Shown(type[b], res[b][d], msg[b][d])
  BY DEF Serialise
<1> QED
  BY <1>2, <1>3, <1>4


LEMMA AggInit == Init => AInv
<1> SUFFICES ASSUME Init PROVE AInv
  OBVIOUS
<1> USE ConstAssumption DEF Init, NoReader, Banks
<1>1. /\ dirty \in [Banks -> BOOLEAN] /\ time \in [Banks -> 0..MaxRuns]
      /\ type \in [Banks -> Types] /\ fresh \in [Banks -> SUBSET Diags]
  BY DEF Types
<1>2. /\ res \in [Banks -> [Diags -> Results \cup {Default}]]
      /\ msg \in [Banks -> [Diags -> Results \cup {None}]]
  OBVIOUS
<1>3. TypeOK
  BY <1>1, <1>2 DEF TypeOK
<1>4. BankInv /\ ReaderInv /\ TimeInv /\ FileInv
  BY DEF BankInv, ReaderInv, TimeInv, FileInv
<1> QED
  BY <1>3, <1>4 DEF AInv

-----------------------------------------------------------------------------
(* The steps of a test run.                                                *)

LEMMA StartKeeps == \A t \in Types : AInv /\ StartTestRun(t) => AInv'
<1> SUFFICES ASSUME NEW t \in Types, AInv, StartTestRun(t) PROVE AInv'
  OBVIOUS
<1>1. current' \in Banks /\ dirty[current']
  BY DEF StartTestRun, AInv, TypeOK, BankInv, Banks
<1>2. TypeOK'
  BY <1>1, ConstAssumption DEF StartTestRun, AInv, TypeOK, Banks
<1>3. BankInv' /\ ReaderInv' /\ FileInv'
  BY <1>1 DEF StartTestRun, AInv, BankInv, ReaderInv, FileInv, Banks
<1>4. TimeInv'
  <2>1. /\ run \in Nat /\ run' = run + 1 /\ time' = time /\ dirty' = dirty
        /\ file' = file /\ saving' = saving /\ ~saving
    BY ConstAssumption DEF StartTestRun, AInv, TypeOK
  <2>2. \A b \in Banks : time[b] \in Nat /\ time[b] <= run
    BY ConstAssumption DEF AInv, TypeOK, TimeInv
  <2>3. file # None => file.time \in Nat /\ file.time <= run
    BY ConstAssumption DEF AInv, TypeOK, TimeInv, Reports
  <2> QED
    BY <2>1, <2>2, <2>3 DEF TimeInv
<1> QED
  BY <1>2, <1>3, <1>4 DEF AInv

LEMMA SetKeeps ==
    \A d \in Diags, r \in Results : AInv /\ SetTestResult(d, r) => AInv'
<1> SUFFICES ASSUME NEW d \in Diags, NEW r \in Results, AInv, SetTestResult(d, r)
             PROVE  AInv'
  OBVIOUS
<1>1. current \in Banks
  BY DEF SetTestResult, AInv, TypeOK
<1>2. TypeOK'
  BY <1>1 DEF SetTestResult, AInv, TypeOK, rvars
<1>3. BankInv' /\ ReaderInv' /\ TimeInv' /\ FileInv'
  BY DEF SetTestResult, AInv, BankInv, ReaderInv, TimeInv, FileInv, rvars
<1> QED
  BY <1>2, <1>3 DEF AInv

LEMMA BeginKeeps == AInv /\ FinishBegin => AInv'
<1> SUFFICES ASSUME AInv, FinishBegin PROVE AInv'
  OBVIOUS
<1>1. current \in Banks /\ run \in 0..MaxRuns
  BY DEF FinishBegin, AInv, TypeOK
<1>2. TypeOK'
  BY <1>1 DEF FinishBegin, AInv, TypeOK, rvars
<1>3. BankInv' /\ ReaderInv' /\ FileInv'
  BY DEF FinishBegin, AInv, BankInv, ReaderInv, FileInv, rvars
<1>4. TimeInv'
  BY <1>1, ConstAssumption DEF FinishBegin, AInv, TypeOK, BankInv, TimeInv
<1> QED
  BY <1>2, <1>3, <1>4 DEF AInv

\* The banks change roles.
LEMMA TurnKeeps ==
    ASSUME AInv, current \in Banks, Turn
    PROVE  /\ dirty' \in [Banks -> BOOLEAN] /\ ~dirty'[current] /\ current' = -1
           /\ \A b \in Banks \ {current} : dirty'[b]
           /\ \E b \in Banks : dirty'[b]
<1>1. dirty' = [b \in Banks |-> b # current] /\ current' = -1
  BY DEF Turn
<1>2. 1 - current \in Banks /\ 1 - current # current
  BY DEF Banks
<1>3. /\ dirty' \in [Banks -> BOOLEAN] /\ ~dirty'[current]
      /\ \A b \in Banks \ {current} : dirty'[b]
  BY <1>1
<1> QED
  BY <1>1, <1>2, <1>3

LEMMA EndKeeps == AInv /\ FinishEnd => AInv'
<1> SUFFICES ASSUME AInv, FinishEnd PROVE AInv'
  OBVIOUS
<1>1. current \in Banks
  BY DEF FinishEnd, AInv, TypeOK, BankInv
<1>2. Turn
  BY DEF FinishEnd
<1>3. file' \in Reports \cup {None} /\ (file' # None => file'.time = time[current])
  BY <1>1, SerialiseType DEF FinishEnd, AInv
<1>4. TypeOK'
  BY <1>1, <1>2, <1>3, TurnKeeps DEF FinishEnd, AInv, TypeOK, rvars
<1>5. BankInv' /\ ReaderInv' /\ FileInv'
  BY <1>1, <1>2, TurnKeeps, SerialiseType
     DEF FinishEnd, AInv, BankInv, ReaderInv, FileInv, rvars
<1>6. TimeInv'
  BY <1>1, <1>2, <1>3, TurnKeeps DEF FinishEnd, AInv, TimeInv
<1> QED
  BY <1>4, <1>5, <1>6 DEF AInv

LEMMA UnsavedKeeps == AInv /\ FinishUnsaved => AInv'
<1> SUFFICES ASSUME AInv, FinishUnsaved PROVE AInv'
  OBVIOUS
<1>1. current \in Banks /\ run \in 0..MaxRuns
  BY DEF FinishUnsaved, AInv, TypeOK
<1>2. Turn
  BY DEF FinishUnsaved
<1>3. TypeOK'
  BY <1>1, <1>2, TurnKeeps DEF FinishUnsaved, AInv, TypeOK, rvars
<1>4. BankInv' /\ ReaderInv' /\ FileInv'
  BY <1>1, <1>2, TurnKeeps DEF FinishUnsaved, AInv, BankInv, ReaderInv, FileInv, rvars
<1>5. TimeInv'
  BY <1>1, <1>2, TurnKeeps, ConstAssumption DEF FinishUnsaved, AInv, TypeOK, TimeInv
<1> QED
  BY <1>3, <1>4, <1>5 DEF AInv

LEMMA RestartKeeps == AInv /\ Restart => AInv'
<1> SUFFICES ASSUME AInv, Restart PROVE AInv'
  OBVIOUS
<1> USE ConstAssumption
<1>1. file' \in Reports \cup {None} /\ (file' # None => file'.time <= run)
  BY DEF Restart, AInv, TypeOK, TimeInv
<1>2. /\ dirty' = [b \in Banks |-> b = 1 \/ file' = None]
      /\ \A b \in Banks : ~dirty'[b] => b = 0 /\ file' \in Reports
  BY <1>1 DEF Restart, Load, Banks
<1>3. /\ type' \in [Banks -> Types] /\ time' \in [Banks -> 0..MaxRuns]
      /\ res' \in [Banks -> [Diags -> Results \cup {Default}]]
      /\ msg' \in [Banks -> [Diags -> Results \cup {None}]]
  BY <1>1, <1>2 DEF Restart, Load, Reports, Types
<1>4. TypeOK'
  BY <1>1, <1>2, <1>3 DEF Restart, Load, AInv, TypeOK, Banks
<1>5. BankInv' /\ ReaderInv' /\ FileInv'
  BY <1>2 DEF Restart, Load, AInv, BankInv, ReaderInv, FileInv, Banks
<1>6. TimeInv'
  BY <1>1, <1>2 DEF Restart, Load, AInv, TypeOK, TimeInv, Banks
<1> QED
  BY <1>4, <1>5, <1>6 DEF AInv

\* The reader's part of TypeOK.
ReaderType ==
    /\ rpc \in {"idle", "header", "diags"} /\ rbank \in Banks /\ rtodo \subseteq Diags
    /\ rgot \in Reports \cup {None} /\ rsnap \in Reports \cup {None}
    /\ rreused \in BOOLEAN

\* Readers change nothing but their own state.
LEMMA ReaderKeeps == AInv /\ Reader => AInv'
<1> SUFFICES ASSUME AInv, Reader PROVE AInv'
  OBVIOUS
<1>1. UNCHANGED <<bvars, current, writeTestResult, saving, file, run>>
  BY DEF Reader, ReaderGet, ReaderExpired, ReaderHeader, ReaderAnswer, ReaderDiag
<1>2. BankInv' /\ TimeInv' /\ FileInv'
  BY <1>1 DEF AInv, BankInv, TimeInv, FileInv, bvars
<1>3. ReaderType' /\ ReaderInv'
  <2> USE DEF AInv, TypeOK, ReaderInv, ReaderType
  <2>1. CASE ReaderGet
    BY <2>1, SerialiseType DEF ReaderGet
  <2>2. CASE ReaderExpired
    BY <2>2 DEF ReaderExpired, Banks
  <2>3. CASE ReaderHeader
    BY <2>3 DEF ReaderHeader, Reports
  <2>4. CASE ReaderAnswer
    BY <2>4 DEF ReaderAnswer, Banks
  <2>5. ASSUME NEW d \in Diags, ReaderDiag(d) PROVE ReaderType' /\ ReaderInv'
    <3>1. Shown(type[rbank], res[rbank][d], msg[rbank][d]) \in Results \cup {None}
      BY DEF Shown
    <3>2. rgot \in Reports /\ res[rbank][d] \in Results \cup {Default}
      BY <2>5 DEF ReaderDiag
    <3> DEFINE m == Shown(type[rbank], res[rbank][d], msg[rbank][d])
               r == res[rbank][d]
    <3>3. rgot' = [rgot EXCEPT !.res[d] = r, !.msg[d] = m]
      BY <2>5 DEF ReaderDiag
    <3>4. m \in Results \cup {None} /\ r \in Results \cup {Default}
      BY <3>1, <3>2
    <3> HIDE DEF m, r
    <3>5. rgot' \in Reports
      BY <3>2, <3>3, <3>4 DEF Reports
    <3> QED
      BY <2>5, <3>5 DEF ReaderDiag
  <2> QED
    BY <2>1, <2>2, <2>3, <2>4, <2>5 DEF Reader
<1>4. TypeOK'
  BY <1>1, <1>3 DEF AInv, TypeOK, ReaderType, bvars
<1> QED
  BY <1>2, <1>3, <1>4 DEF AInv

LEMMA StepKeeps == AInv /\ [Next]_vars => AInv'
<1> SUFFICES ASSUME AInv, [Next]_vars PROVE AInv'
  OBVIOUS
<1>1. ASSUME NEW t \in Types, StartTestRun(t) PROVE AInv'
  BY <1>1, StartKeeps
<1>2. ASSUME NEW d \in Diags, NEW r \in Results, SetTestResult(d, r) PROVE AInv'
  BY <1>2, SetKeeps
<1>3. CASE SetWriteTestResult
  BY <1>3 DEF SetWriteTestResult, AInv, TypeOK, BankInv, ReaderInv, TimeInv, FileInv, bvars, rvars
<1>4. CASE FinishBegin
  BY <1>4, BeginKeeps
<1>5. CASE FinishEnd
  BY <1>5, EndKeeps
<1>6. CASE FinishUnsaved
  BY <1>6, UnsavedKeeps
<1>7. CASE Reader
  BY <1>7, ReaderKeeps
<1>8. CASE Restart
  BY <1>8, RestartKeeps
<1>9. CASE UNCHANGED vars
  BY <1>9 DEF vars, AInv, TypeOK, BankInv, ReaderInv, TimeInv, FileInv, bvars, rvars
<1> QED
  BY <1>1, <1>2, <1>3, <1>4, <1>5, <1>6, <1>7, <1>8, <1>9 DEF Next, TestRun

\* The invariant holds from the first start of the agent on.
LEMMA AlwaysA == Spec => []AInv
BY AggInit, StepKeeps, PTL DEF Spec

\* TypeOK: the banks, the file and the readers hold what they should (wa_agg.c:73-76).
THEOREM TypeCorrect == Spec => []TypeOK
<1>1. AInv => TypeOK
  BY DEF AInv
<1> QED
  BY <1>1, AlwaysA, PTL

\* BankInv: a test run never works on the bank readers are given (wa_agg.c:196,237).
THEOREM BanksApart == Spec => []BankInv
<1>1. AInv => BankInv
  BY DEF AInv
<1> QED
  BY <1>1, AlwaysA, PTL

-----------------------------------------------------------------------------
(* The refinement.                                                         *)

\* A bank whose fields stay gives the same report.
LEMMA SameReport ==
    ASSUME NEW b \in Banks,
           type'[b] = type[b], time'[b] = time[b], res'[b] = res[b], msg'[b] = msg[b]
    PROVE  Serialise(b)' = Serialise(b)
BY DEF Serialise, Shown

\* The latest results are those of the valid bank.
LEMMA LatestIs ==
    ASSUME AInv
    PROVE  /\ \A b \in Banks : ~dirty[b] => Latest = Serialise(b)
           /\ (\A b \in Banks : dirty[b]) => Latest = None
BY DEF Latest, AInv, BankInv, TypeOK, Banks

\* They stay when no bank changes its role and the valid one its contents.
LEMMA SameLatest ==
    ASSUME AInv, AInv', dirty' = dirty,
           \A b \in Banks : ~dirty[b] =>
               type'[b] = type[b] /\ time'[b] = time[b] /\ res'[b] = res[b] /\ msg'[b] = msg[b]
    PROVE  Latest' = Latest
<1>1. CASE \A b \in Banks : dirty[b]
  <2>1. Latest = None
    BY <1>1, LatestIs
  <2>2. Latest' = None
    BY <1>1 DEF Latest, Banks
  <2> QED
    BY <2>1, <2>2
<1>2. ASSUME NEW b \in Banks, ~dirty[b] PROVE Latest' = Latest
  <2>1. Serialise(b)' = Serialise(b)
    BY <1>2, SameReport
  <2>2. Latest = Serialise(b)
    BY <1>2, LatestIs
  <2>3. Latest' = Serialise(b)'
    BY <1>2 DEF Latest, AInv, BankInv, Banks
  <2> QED
    BY <2>1, <2>2, <2>3
<1> QED
  BY <1>1, <1>2

\* SerialiseType in the next state.
LEMMA SerialiseTypeNext ==
    ASSUME TypeOK', NEW b \in Banks
    PROVE  Serialise(b)' \in Reports /\ Serialise(b)'.time = time'[b]
<1>1. \A d \in Diags : Shown(type'[b], res'[b][d], msg'[b][d]) \in Results \cup {None}
  BY DEF TypeOK, Shown
<1> QED
  BY <1>1 DEF TypeOK, Serialise, Reports

\* The end of a run in bank c: its results become the latest, and are later than
\* those before.
LEMMA TurnGives ==
    ASSUME AInv, AInv', NEW c \in Banks, c = current, Turn,
           type' = type, res' = res, msg' = msg,
           time' = [time EXCEPT ![c] = run]
    PROVE  /\ Latest' = Serialise(c)' /\ Latest' \in Reports
           /\ Latest # None => Latest'.time > Latest.time
<1>1. ~dirty'[c]
  BY TurnKeeps
<1>2. Latest' = Serialise(c)'
  BY <1>1 DEF Latest, AInv, BankInv, Banks
<1>3. Serialise(c)' \in Reports /\ Serialise(c)'.time = run
  <2>1. TypeOK' /\ time'[c] = run
    BY DEF AInv, TypeOK
  <2> QED
    BY <2>1, SerialiseTypeNext
<1>4. ASSUME Latest # None PROVE run > Latest.time
  <2>1. PICK b \in Banks : ~dirty[b]
    BY <1>4, LatestIs
  <2>2. Latest = Serialise(b) /\ Latest.time = time[b]
    BY <2>1, LatestIs, SerialiseType DEF AInv
  <2>3. time[b] < run /\ time[b] \in Nat /\ run \in Nat
    BY <2>1, ConstAssumption DEF AInv, TypeOK, TimeInv, BankInv, Banks
  <2> QED
    BY <2>2, <2>3
<1> QED
  BY <1>2, <1>3, <1>4

\* What the file gives after a restart is what was written to it.
LEMMA RestartGives == AInv /\ AInv' /\ Restart => PR!Restart
<1> SUFFICES ASSUME AInv, AInv', Restart PROVE PR!Restart
  OBVIOUS
<1>1. CASE file' = None
  <2>1. \A b \in Banks : dirty'[b]
    BY <1>1 DEF Restart, Load
  <2>2. Latest' = None
    BY <2>1 DEF Latest, Banks
  <2> QED
    BY <1>1, <2>2 DEF Restart, PR!Restart
<1>2. CASE file' # None
  <2>1. /\ file' \in Reports /\ ~dirty'[0] /\ type'[0] = file'.type
        /\ time'[0] = file'.time /\ res'[0] = file'.res /\ msg'[0] = file'.msg
    BY <1>2 DEF Restart, Load, Banks, AInv, TypeOK
  <2>2. \A d \in Diags : Shown(file'.type, file'.res[d], file'.msg[d]) = file'.msg[d]
    BY <1>2 DEF AInv, FileInv, Shown
  <2>3. Latest' = Serialise(0)'
    BY <2>1 DEF Latest
  <2>4. Serialise(0)' = [type |-> file'.type, time |-> file'.time, res |-> file'.res,
                         msg |-> [d \in Diags |-> file'.msg[d]]]
    BY <2>1, <2>2 DEF Serialise, Shown
  <2>5. [type |-> file'.type, time |-> file'.time, res |-> file'.res,
         msg |-> [d \in Diags |-> file'.msg[d]]] = file'
    BY <2>1 DEF Reports
  <2> QED
    BY <2>3, <2>4, <2>5 DEF Restart, PR!Restart
<1> QED
  BY <1>1, <1>2

\* Each step is one the users are told of, or one they do not see.
LEMMA StepGives == AInv /\ AInv' /\ [Next]_vars => [PR!Next]_<<Latest, file>>
<1> SUFFICES ASSUME AInv, AInv', [Next]_vars
             PROVE  PR!Next \/ UNCHANGED <<Latest, file>>
  OBVIOUS
<1>1. ASSUME NEW t \in Types, StartTestRun(t) PROVE UNCHANGED <<Latest, file>>
  BY <1>1, SameLatest DEF StartTestRun, AInv, TypeOK, BankInv, Banks
<1>2. ASSUME NEW d \in Diags, NEW r \in Results, SetTestResult(d, r)
      PROVE  UNCHANGED <<Latest, file>>
  <2>1. dirty[current]
    BY <1>2 DEF SetTestResult, AInv, BankInv
  <2>2. \A b \in Banks : ~dirty[b] => res'[b] = res[b] /\ msg'[b] = msg[b]
    BY <1>2, <2>1 DEF SetTestResult, AInv, TypeOK
  <2> QED
    BY <1>2, <2>2, SameLatest DEF SetTestResult
<1>3. CASE SetWriteTestResult
  BY <1>3, SameLatest DEF SetWriteTestResult, bvars
<1>4. CASE FinishBegin
  <2>1. dirty[current]
    BY <1>4 DEF FinishBegin, AInv, BankInv
  <2>2. \A b \in Banks : ~dirty[b] => time'[b] = time[b]
    BY <1>4, <2>1 DEF FinishBegin, AInv, TypeOK
  <2>3. Latest' = Latest
    BY <1>4, <2>2, SameLatest DEF FinishBegin
  <2> QED
    BY <1>4, <2>3 DEF FinishBegin, PR!Next, PR!BeginSave
<1>5. CASE FinishEnd
  <2>1. PICK c \in Banks : c = current
    BY <1>5 DEF FinishEnd, AInv, TypeOK, BankInv
  <2>2. file = None /\ time[c] = run /\ time' = [time EXCEPT ![c] = run]
    BY <1>5, <2>1 DEF FinishEnd, AInv, TypeOK, TimeInv
  <2>3. /\ Latest' = Serialise(c)' /\ Latest' \in Reports
        /\ Latest # None => Latest'.time > Latest.time
    BY <1>5, <2>1, <2>2, TurnGives DEF FinishEnd
  <2>4. Serialise(c)' = Serialise(c)
    BY <1>5, SameReport DEF FinishEnd
  <2>5. file' \in {Latest', file}
    BY <1>5, <2>1, <2>2, <2>3, <2>4 DEF FinishEnd
  <2> QED
    BY <2>3, <2>5 DEF PR!Next, PR!Publish
<1>6. CASE FinishUnsaved
  <2>1. PICK c \in Banks : c = current
    BY <1>6 DEF FinishUnsaved, AInv, TypeOK
  <2>2. /\ Latest' \in Reports
        /\ Latest # None => Latest'.time > Latest.time
    BY <1>6, <2>1, TurnGives DEF FinishUnsaved
  <2> QED
    BY <1>6, <2>2 DEF FinishUnsaved, PR!Next, PR!Publish
<1>7. CASE Reader
  <2>1. UNCHANGED <<bvars, current, writeTestResult, saving, file, run>>
    BY <1>7 DEF Reader, ReaderGet, ReaderExpired, ReaderHeader, ReaderAnswer, ReaderDiag
  <2> QED
    BY <2>1, SameLatest DEF bvars
<1>8. CASE Restart
  BY <1>8, RestartGives DEF PR!Next
<1>9. CASE UNCHANGED vars
  BY <1>9, SameLatest DEF vars, bvars
<1> QED
  BY <1>1, <1>2, <1>3, <1>4, <1>5, <1>6, <1>7, <1>8, <1>9 DEF Next, TestRun

\* Promise: the valid bank stands for the results of the last run that finished, or
\* after a restart for those the file gives, and the file for those written last
\* (wa_agg.c:182-252, 471-495, 663-725).
THEOREM KeepsPromise == Spec => Promise
<1>1. Init => PR!Init
  BY DEF Init, PR!Init, Latest, Banks
<1>2. AInv /\ AInv' /\ [Next]_vars => [PR!Next]_<<Latest, file>>
  BY StepGives
<1> QED
  BY <1>1, <1>2, AlwaysA, PTL DEF Spec, Promise, PR!Spec

-----------------------------------------------------------------------------
(* Readers without the mutex.                                              *)

\* What report r shares with report s in everything but the diags still to go.
Agrees(r, s) ==
    /\ r.type = s.type /\ r.time = s.time
    /\ \A d \in Diags \ rtodo : r.res[d] = s.res[d] /\ r.msg[d] = s.msg[d]

\* A bank that was not reused since its reader got it is not the one that is being
\* filled, and so still the one the reader was given.
SnapInv ==
    /\ rpc # "idle" /\ ~rreused => current # rbank /\ rsnap = Serialise(rbank)
    /\ rpc = "header" => rtodo = Diags
    /\ SnapshotUnlessReused

\* Nothing happens to the bank of the reader.
Spared ==
    rpc # "idle" /\ ~rreused =>
        /\ current' # rbank
        /\ type'[rbank] = type[rbank] /\ time'[rbank] = time[rbank]
        /\ res'[rbank] = res[rbank] /\ msg'[rbank] = msg[rbank]

LEMMA SparedKeeps ==
    ASSUME AInv, SnapInv, Spared, UNCHANGED <<rpc, rbank, rtodo, rgot, rsnap>>,
           rreused => rreused'
    PROVE  SnapInv'
<1>1. rbank \in Banks
  BY DEF AInv, TypeOK
<1>2. rpc' # "idle" /\ ~rreused' => current' # rbank' /\ rsnap' = Serialise(rbank)'
  <2>1. SUFFICES ASSUME rpc # "idle", ~rreused
                 PROVE  current' # rbank' /\ rsnap' = Serialise(rbank)'
    OBVIOUS
  <2>2. Serialise(rbank)' = Serialise(rbank)
    BY <1>1, <2>1 DEF Spared, Serialise, Shown
  <2> QED
    BY <2>1, <2>2 DEF SnapInv, Spared
<1>3. SnapshotUnlessReused'
  BY DEF SnapInv, SnapshotUnlessReused
<1> QED
  BY <1>2, <1>3 DEF SnapInv

\* The steps of a test run spare the bank of the reader, or reuse it.
LEMMA TestRunSnap == AInv /\ SnapInv /\ TestRun => SnapInv'
<1> SUFFICES ASSUME AInv, SnapInv, TestRun PROVE SnapInv'
  OBVIOUS
<1> USE DEF rvars, bvars
<1>1. ASSUME NEW t \in Types, StartTestRun(t) PROVE SnapInv'
  <2>1. CASE rpc # "idle" /\ rbank = current'
    BY <1>1, <2>1 DEF StartTestRun, SnapInv, SnapshotUnlessReused
  <2>2. CASE ~(rpc # "idle" /\ rbank = current')
    <3>1. Spared
      BY <1>1, <2>2 DEF StartTestRun, Spared, AInv, TypeOK, Banks
    <3> QED
      BY <1>1, <3>1, SparedKeeps DEF StartTestRun
  <2> QED
    BY <2>1, <2>2
<1>2. ASSUME NEW d \in Diags, NEW r \in Results, SetTestResult(d, r) PROVE SnapInv'
  <2>1. Spared
    BY <1>2 DEF SetTestResult, Spared, SnapInv, AInv, TypeOK
  <2> QED
    BY <1>2, <2>1, SparedKeeps DEF SetTestResult
<1>3. CASE SetWriteTestResult
  <2>1. Spared
    BY <1>3 DEF SetWriteTestResult, Spared, SnapInv
  <2> QED
    BY <1>3, <2>1, SparedKeeps DEF SetWriteTestResult
<1>4. CASE FinishBegin
  <2>1. Spared
    BY <1>4 DEF FinishBegin, Spared, SnapInv, AInv, TypeOK
  <2> QED
    BY <1>4, <2>1, SparedKeeps DEF FinishBegin
<1>5. CASE FinishEnd
  <2>1. Spared
    BY <1>5 DEF FinishEnd, Turn, Spared, SnapInv, AInv, TypeOK, Banks
  <2> QED
    BY <1>5, <2>1, SparedKeeps DEF FinishEnd
<1>6. CASE FinishUnsaved
  <2>1. Spared
    BY <1>6 DEF FinishUnsaved, Turn, Spared, SnapInv, AInv, TypeOK, Banks
  <2> QED
    BY <1>6, <2>1, SparedKeeps DEF FinishUnsaved
<1> QED
  BY <1>1, <1>2, <1>3, <1>4, <1>5, <1>6 DEF TestRun

\* The steps of the reader: what it reads is what it was given.
LEMMA ReaderSnap == AInv /\ SnapInv /\ Reader => SnapInv'
<1> SUFFICES ASSUME AInv, SnapInv, Reader PROVE SnapInv'
  OBVIOUS
<1> USE DEF bvars
<1>1. CASE ReaderExpired \/ ReaderAnswer
  BY <1>1 DEF ReaderExpired, ReaderAnswer, SnapInv, SnapshotUnlessReused
<1>2. CASE ReaderGet
  <2>1. PICK b \in Banks : ~dirty[b] /\ rbank' = b /\ rsnap' = Serialise(b)
    BY <1>2 DEF ReaderGet
  <2>2. Serialise(rbank)' = Serialise(b)
    BY <1>2, <2>1 DEF ReaderGet, Serialise, Shown
  <2>3. current' # b
    BY <1>2, <2>1 DEF ReaderGet, AInv, BankInv, Banks
  <2> QED
    BY <1>2, <2>1, <2>2, <2>3 DEF ReaderGet, SnapInv, SnapshotUnlessReused
<1>3. CASE ReaderHeader
  <2>1. Serialise(rbank)' = Serialise(rbank)
    BY <1>3 DEF ReaderHeader, Serialise, Shown
  <2>2. ~rreused => rsnap.type = type[rbank] /\ rsnap.time = time[rbank]
    BY <1>3 DEF ReaderHeader, SnapInv, Serialise
  <2>3. ~rreused => Agrees(rgot', rsnap)
    <3>1. Diags \ rtodo = {}
      BY <1>3 DEF ReaderHeader, SnapInv
    <3> QED
      BY <1>3, <2>2, <3>1 DEF ReaderHeader, Agrees
  <2> QED
    BY <1>3, <2>1, <2>3 DEF ReaderHeader, SnapInv, SnapshotUnlessReused, Agrees
<1>4. ASSUME NEW d \in Diags, ReaderDiag(d) PROVE SnapInv'
  <2> DEFINE m == Shown(type[rbank], res[rbank][d], msg[rbank][d])
             r == res[rbank][d]
  <2>1. Serialise(rbank)' = Serialise(rbank)
    BY <1>4 DEF ReaderDiag, Serialise, Shown
  <2>2. ~rreused => rsnap.res[d] = r /\ rsnap.msg[d] = m
    BY <1>4 DEF ReaderDiag, SnapInv, Serialise
  <2>3. rgot \in Reports /\ rgot' = [rgot EXCEPT !.res[d] = r, !.msg[d] = m]
    BY <1>4 DEF ReaderDiag, AInv, ReaderInv
  <2> HIDE DEF m, r
  <2>4. /\ rgot'.type = rgot.type /\ rgot'.time = rgot.time
        /\ rgot'.res[d] = r /\ rgot'.msg[d] = m
        /\ \A e \in Diags : e # d => rgot'.res[e] = rgot.res[e] /\ rgot'.msg[e] = rgot.msg[e]
    BY <2>3 DEF Reports
  <2>5. rpc = "diags" /\ rtodo' = rtodo \ {d} /\ UNCHANGED <<rpc, rbank, rsnap, rreused, current>>
    BY <1>4 DEF ReaderDiag
  <2>6. SnapshotUnlessReused'
    BY <2>2, <2>4, <2>5 DEF SnapInv, SnapshotUnlessReused
  <2> QED
    BY <2>1, <2>5, <2>6 DEF SnapInv
<1> QED
  BY <1>1, <1>2, <1>3, <1>4 DEF Reader

\* SnapshotUnlessReused: a report put together without the mutex is the one its reader
\* was given, unless a test run was started in its bank (wa_agg.c:196, 254-294).
THEOREM Snapshot_Unless_Reused == Spec => []SnapshotUnlessReused
<1>1. Init => SnapInv
  BY DEF Init, NoReader, SnapInv, SnapshotUnlessReused
<1>2. AInv /\ SnapInv /\ [Next]_vars => SnapInv'
  <2> SUFFICES ASSUME AInv, SnapInv, [Next]_vars PROVE SnapInv'
    OBVIOUS
  <2>1. CASE Restart
    BY <2>1 DEF Restart, SnapInv, SnapshotUnlessReused
  <2>2. CASE UNCHANGED vars
    <3>1. Spared
      BY <2>2 DEF vars, bvars, Spared, SnapInv
    <3> QED
      BY <2>2, <3>1, SparedKeeps DEF vars, rvars
  <2> QED
    BY <2>1, <2>2, TestRunSnap, ReaderSnap DEF Next
<1>3. SnapInv => SnapshotUnlessReused
  BY DEF SnapInv
<1> QED
  BY <1>1, <1>2, <1>3, AlwaysA, PTL DEF Spec
=============================================================================
