------------------------------ MODULE WaFilter ------------------------------
(***************************************************************************)
(* The filter of the results (agent/core/diag/wa_diag_filter.c): each      *)
(* diagnostic has a history of its last queue_depth results, kept in a     *)
(* buffer file over runs and restarts; a failure is reported only when the *)
(* history fails often enough.  The thread of the requests loads the       *)
(* parameters and the file when a test run starts and writes the file when *)
(* it finishes; the threads of the instances push their results under      *)
(* buffer_mutex.  The parameters themselves are read and written without   *)
(* it.  The RFC handlers of the TR-69 daemon change what is asked for.     *)
(***************************************************************************)
EXTENDS Naturals, Sequences, FiniteSets, Functions

CONSTANTS Diags,         \* entries of diags[], 1..n
          Depths,        \* QueueDepth values asked for, 0 when not set
          DefaultDepth, MaxDepth,   \* 20 and 100 in the source
          Filters,       \* filter types, [kind : {"P", "S", "N"}, limit : Nat]
          FilterMayFail  \* calls to the RFC store and to open files may fail

ASSUME FilterAssumption ==
    /\ Diags = 1..Cardinality(Diags) /\ IsFiniteSet(Diags) /\ Diags # {}
    /\ Depths \subseteq Nat /\ DefaultDepth \in 1..MaxDepth /\ MaxDepth \in Nat
    /\ Filters \subseteq [kind : {"P", "S", "N"}, limit : Nat]
    /\ FilterMayFail \in BOOLEAN

NoFile == [depth |-> 0, lines |-> <<>>, real |-> <<>>, there |-> FALSE]
NoFilter == [kind |-> "N", limit |-> 0]

VARIABLES
    par,         \* resultFilter
    hist,        \* diags[].result_history, newest first: F, P and line ends
    ftype,       \* diags[].filter_type
    buffer, temp,    \* the buffer file and its temporary file
    fpc,         \* the step of the thread of the requests
    jpc, jdiag, jfail, jdepth,  \* an instance in WA_FILTER_GetFilteredResult
    verdict,     \* what it returned in the step just taken
    recent,      \* history: the results pushed, newest first
    intact, clash, kept  \* history: every file was opened; a start of a run disturbs
                         \* the instance; a written buffer file is not switched off,
                         \* nor lost between its removal and the rename of the new one

fmem == <<par, hist, ftype>>
ffiles == <<buffer, temp>>
fjob == <<jpc, jdiag, jfail, jdepth>>
fhist == <<recent, intact, clash, kept>>
fvars == <<fmem, ffiles, fpc, fjob, verdict, fhist>>

NoParams == [enable |-> FALSE, depth |-> 0, params |-> <<>>]
Reloading == {"enable", "depth", "range", "params"}

FInit ==
    /\ par = NoParams
    /\ hist = [d \in Diags |-> <<>>] /\ ftype = [d \in Diags |-> NoFilter]
    /\ buffer = NoFile /\ temp = NoFile
    /\ fpc = "idle" /\ jpc = "idle" /\ jdiag = 1 /\ jfail = FALSE /\ jdepth = 0
    /\ verdict = "none"
    /\ recent = [d \in Diags |-> <<>>]
    /\ intact = TRUE /\ clash = FALSE /\ kept = FALSE

LesserOf(a, b) == IF a < b THEN a ELSE b
Firsts(s, n) == SubSeq(s, 1, LesserOf(n, Len(s)))
Passes(n) == [i \in 1..n |-> "P"]

-----------------------------------------------------------------------------
(* The RFC handlers of the daemon.  They may run at any time, so a call of  *)
(* the agent to the store answers any value that can be set.               *)

\* The store keeps the depth it was given, 0 when there is none: the handler
\* writes the one it corrects to its log and to a file that only it reads.
StoredDepths == Depths \cup {0}

\* So with the parameters: the list that the handler completes is only logged, and
\* one that is too short leaves the last diagnostics the filters they have.
StoredParams == UNION {[1..n -> Filters] : n \in 0..Cardinality(Diags)}

\* Switching the filter off unlinks the buffer file, which the agent may be using.
SetFilterEnableOff ==
    /\ buffer.there /\ buffer' = NoFile
    /\ kept' = FALSE /\ verdict' = "none"
    /\ UNCHANGED <<fmem, temp, fpc, fjob, recent, intact, clash>>

-----------------------------------------------------------------------------
(* A test run starts: WA_FILTER_SetFilterBuffer.                           *)

\* getResultFilterParams, a call for each parameter: one that fails leaves the
\* value as it is.  The depth is stored first and then brought in range.
Param(pc, next, answers) ==
    /\ fpc = pc /\ fpc' = next
    /\ par' \in answers \cup (IF FilterMayFail THEN {par} ELSE {})
    /\ clash' = (clash \/ jpc # "idle")
    /\ verdict' = "none"
    /\ UNCHANGED <<hist, ftype, ffiles, fjob, recent, intact, kept>>

StartTestRun ==
    /\ fpc = "idle" /\ fpc' = "enable"
    /\ clash' = (clash \/ jpc # "idle") /\ verdict' = "none"
    /\ UNCHANGED <<fmem, ffiles, fjob, recent, intact, kept>>

GetEnable == Param("enable", "depth", {[par EXCEPT !.enable = v] : v \in BOOLEAN})
GetDepth == Param("depth", "range", {[par EXCEPT !.depth = n] : n \in StoredDepths})

DepthInRange(n) == IF n = 0 THEN DefaultDepth ELSE LesserOf(n, MaxDepth)

CheckDepth ==
    /\ fpc = "range" /\ fpc' = "params"
    /\ par' = [par EXCEPT !.depth = DepthInRange(@)]
    /\ clash' = (clash \/ jpc # "idle") /\ verdict' = "none"
    /\ UNCHANGED <<hist, ftype, ffiles, fjob, recent, intact, kept>>

GetFilterParams ==
    Param("params", IF par.enable THEN "load" ELSE "idle",
          {[par EXCEPT !.params = fs] : fs \in StoredParams})

\* strncpy: what is behind the n characters copied stays, unless the copy is
\* shorter, for then it is filled with ends.
Strncpy(old, new, n) ==
    IF Len(new) < n THEN new ELSE Firsts(new, n) \o SubSeq(old, n + 1, Len(old))

\* A line is read with its end; one behind an end is a line of no diagnostic.
LineOf(h) ==
    IF \E i \in DOMAIN h : h[i] = "NL"
    THEN Firsts(h, CHOOSE i \in DOMAIN h : h[i] = "NL" /\ \A j \in 1..(i - 1) : h[j] # "NL")
    ELSE Append(h, "NL")

FileOf(h, r) ==
    [depth |-> par.depth, there |-> TRUE, lines |-> [d \in Diags |-> LineOf(h[d])], real |-> r]

\* Mutant: the older results are put behind the passes that fill the history.
LoadedLineOldest(f, d) ==
    LET n == par.depth
    IN Strncpy(hist[d],
               IF n > f.depth THEN Passes(n - f.depth) \o Firsts(f.lines[d], f.depth)
               ELSE f.lines[d], n)

\* A deeper history is filled with passes at its old end.
LoadedLine(f, d) ==
    LET n == par.depth
    IN Strncpy(hist[d],
               IF n > f.depth THEN Firsts(f.lines[d], f.depth) \o Passes(n - f.depth)
               ELSE f.lines[d], n)

\* createBuffer and readBuffer: memory and the temporary file, or neither.
CreateBuffer ==
    /\ hist' = [d \in Diags |-> Strncpy(hist[d], Passes(par.depth), par.depth)]
    /\ recent' = [d \in Diags |-> <<>>]
    /\ temp' = FileOf(hist', recent') /\ UNCHANGED intact

ReadBuffer(f) ==
    /\ hist' = [d \in Diags |-> IF d \in DOMAIN f.lines THEN LoadedLine(f, d) ELSE hist[d]]
    /\ recent' = [d \in Diags |->
                    IF d \in DOMAIN f.real THEN Firsts(f.real[d], LesserOf(f.depth, par.depth))
                    ELSE recent[d]]
    /\ temp' = [FileOf(hist', recent') EXCEPT
                  !.lines = [d \in DOMAIN f.lines |-> LineOf(hist'[d])]]
    /\ intact' = (intact /\ DOMAIN f.lines = Diags)

TempNotOpened == FilterMayFail /\ intact' = FALSE /\ UNCHANGED <<hist, recent, temp>>

\* initResultFilterBufferFile, with the mutex.
LoadBuffer ==
    /\ fpc = "load" /\ jpc # "judge"
    /\ verdict' = "none"
    /\ UNCHANGED <<par, ftype, buffer, fjob, clash, kept>>
    /\ \/ /\ buffer.there /\ FilterMayFail /\ fpc' = "idle"   \* fopen failed: no run
          /\ intact' = FALSE /\ UNCHANGED <<hist, recent, temp>>
       \/ /\ fpc' = "swapLoaded"
          /\ \/ buffer.depth = 0 /\ CreateBuffer
             \/ buffer.depth > 0 /\ ReadBuffer(buffer)
             \/ TempNotOpened

\* Mutant: the buffer file is removed whether or not there is a new one.
SwapAlways(pc, next, otherwise) ==
    /\ fpc = pc /\ verdict' = "none"
    /\ buffer' = NoFile /\ fpc' = next
    /\ UNCHANGED <<fmem, temp, fjob, fhist>>

\* The old file is removed if there is a new one ...
Swap(pc, next, otherwise) ==
    /\ fpc = pc /\ verdict' = "none"
    /\ \/ temp.there /\ buffer' = NoFile /\ fpc' = next
       \/ ~temp.there /\ fpc' = otherwise /\ UNCHANGED buffer
    /\ UNCHANGED <<fmem, temp, fjob, fhist>>

\* ... which then takes its name.
Rename(pc, next) ==
    /\ fpc = pc /\ fpc' = next /\ verdict' = "none"
    /\ \/ temp.there /\ buffer' = temp /\ temp' = NoFile /\ kept' = TRUE
       \/ /\ FilterMayFail \/ ~temp.there
          /\ kept' = (kept /\ ~temp.there) /\ UNCHANGED ffiles
    /\ UNCHANGED <<fmem, fjob, recent, intact, clash>>

\* assignFilterTypes: diagnostics without a filter in the list keep theirs.
AssignFilterTypes ==
    /\ fpc = "assign" /\ fpc' = "idle" /\ verdict' = "none"
    /\ ftype' = [d \in Diags |-> IF d \in DOMAIN par.params THEN par.params[d] ELSE ftype[d]]
    /\ UNCHANGED <<par, hist, ffiles, fjob, fhist>>

SetFilterBuffer ==
    \/ StartTestRun \/ GetEnable \/ GetDepth \/ CheckDepth \/ GetFilterParams
    \/ LoadBuffer \/ Swap("swapLoaded", "renameLoaded", "assign")
    \/ Rename("renameLoaded", "assign") \/ AssignFilterTypes

-----------------------------------------------------------------------------
(* A test run finishes: WA_FILTER_DumpResultFilter.                        *)

FinishTestRun ==
    /\ fpc = "idle" /\ par.enable /\ par.params # <<>> /\ jpc # "judge"
    /\ verdict' = "none"
    /\ \/ temp' = FileOf(hist, recent) /\ fpc' = "swapDumped"
       \/ FilterMayFail /\ UNCHANGED <<temp, fpc>>
    /\ UNCHANGED <<fmem, buffer, fjob, fhist>>

DumpResultFilter ==
    FinishTestRun \/ Swap("swapDumped", "renameDumped", "idle") \/ Rename("renameDumped", "idle")

-----------------------------------------------------------------------------
(* An instance has a result: WA_FILTER_GetFilteredResult.                  *)

\* Without the filter the result is returned as it is.
AskFilter(d, failed) ==
    /\ jpc = "idle"
    /\ IF par.enable /\ par.params # <<>>
       THEN /\ jpc' = "wait" /\ jdiag' = d /\ jfail' = failed /\ verdict' = "none"
            /\ clash' = (fpc \in Reloading \cup {"load"})
       ELSE UNCHANGED <<jpc, jdiag, jfail, clash>> /\ verdict' = (IF failed THEN "F" ELSE "P")
    /\ UNCHANGED <<fmem, ffiles, fpc, jdepth, recent, intact, kept>>

Locked == fpc \in {"swapLoaded", "renameLoaded", "assign", "swapDumped", "renameDumped"}

\* The result goes in front of the history, which keeps its length.
PushResult ==
    /\ jpc = "wait" /\ ~Locked /\ jpc' = "judge" /\ verdict' = "none"
    /\ LET r == IF jfail THEN "F" ELSE "P"
       IN /\ hist' = [hist EXCEPT ![jdiag] = Firsts(<<r>> \o @, Len(@))]
          /\ recent' = [recent EXCEPT ![jdiag] = Firsts(<<r>> \o @, Len(hist[jdiag]))]
    /\ jdepth' = par.depth
    /\ UNCHANGED <<par, ftype, ffiles, fpc, jdiag, jfail, intact, clash, kept>>

Failures(h) == Cardinality({i \in DOMAIN h : h[i] = "F"})

\* The longest row of failures, counted along the history.
Longer(a) == IF a.result < a.fail THEN a.fail ELSE a.result
Count(a, c) ==
    IF c = "F" THEN [a EXCEPT !.fail = @ + 1] ELSE [fail |-> 0, result |-> Longer(a)]
LongestRow(h) ==
    LET upTo[n \in 0..Len(h)] ==
            IF n = 0 THEN [fail |-> 0, result |-> 0] ELSE Count(upTo[n - 1], h[n])
    IN Longer(upTo[Len(h)])

\* Mutant: a history that fails exactly as often as the filter says passes.
FilterFailsAbove(f, h, n, m, failed) ==
    CASE f.kind = "P" /\ f.limit \in 1..100 -> (Failures(Firsts(h, n)) * 100) \div m > f.limit
      [] f.kind = "S" /\ f.limit > 0 -> LongestRow(Firsts(h, n)) >= LesserOf(f.limit, m)
      [] OTHER -> failed

\* n is the depth the loop runs to, m the depth read after it.
FilterFails(f, h, n, m, failed) ==
    CASE f.kind = "P" /\ f.limit \in 1..100 -> (Failures(Firsts(h, n)) * 100) \div m >= f.limit
      [] f.kind = "S" /\ f.limit > 0 -> LongestRow(Firsts(h, n)) >= LesserOf(f.limit, m)
      [] OTHER -> failed

\* The mutex does not keep the depth from being loaded meanwhile: a depth of 0
\* that is not in range yet divides by zero, which ends the agent.
JudgeResult ==
    /\ jpc = "judge" /\ jpc' = "idle" /\ jdiag' = 1 /\ jfail' = FALSE /\ jdepth' = 0
    /\ clash' = FALSE
    /\ \E n, m \in {jdepth, par.depth} :
          /\ m > 0 \/ ftype[jdiag].kind # "P"
          /\ verdict' = (IF FilterFails(ftype[jdiag], hist[jdiag], n, m, jfail) THEN "F" ELSE "P")
    /\ UNCHANGED <<fmem, ffiles, fpc, recent, intact, kept>>

GetFilteredResult == PushResult \/ JudgeResult

-----------------------------------------------------------------------------
\* The lines of a file that were written.
FirstLines(s, k) == Restrict(s, DOMAIN s \cap 1..k)

\* The agent dies, by the division too, and is started again: the files stay, a
\* file being written with the lines written by then.
FilterCrash ==
    /\ fpc # "idle" \/ jpc # "idle"
    /\ LET cut(f) == {[f EXCEPT !.lines = FirstLines(@, k), !.real = FirstLines(@, k)] :
                        k \in 0..(Cardinality(Diags) - 1)}
       IN temp' \in {temp} \cup (IF fpc \in {"swapLoaded", "swapDumped"} /\ temp.there
                                  THEN cut(temp) \cup {[NoFile EXCEPT !.there = TRUE]} ELSE {})
    /\ par' = NoParams /\ hist' = [d \in Diags |-> <<>>]
    /\ ftype' = [d \in Diags |-> NoFilter] /\ recent' = [d \in Diags |-> <<>>]
    /\ fpc' = "idle" /\ jpc' = "idle" /\ jdiag' = 1 /\ jfail' = FALSE /\ jdepth' = 0
    /\ verdict' = "none" /\ clash' = FALSE
    /\ kept' = (kept /\ fpc \notin {"renameLoaded", "renameDumped"})
    /\ UNCHANGED <<buffer, intact>>

FNext ==
    \/ SetFilterEnableOff \/ SetFilterBuffer \/ DumpResultFilter
    \/ \E d \in Diags, failed \in BOOLEAN : AskFilter(d, failed)
    \/ GetFilteredResult \/ FilterCrash

FSpec == FInit /\ [][FNext]_fvars

-----------------------------------------------------------------------------
(* Properties.                                                             *)

FFile ==
    [depth : Nat, lines : Seq(Seq({"F", "P", "NL"})), real : Seq(Seq({"F", "P"})), there : BOOLEAN]
FParams == [enable : BOOLEAN, depth : Nat, params : Seq(Filters)]

\* Every variable has its type.
FTypeOK ==
    /\ par \in FParams
    /\ hist \in [Diags -> Seq({"F", "P", "NL"})] /\ ftype \in [Diags -> Filters \cup {NoFilter}]
    /\ buffer \in FFile /\ temp \in FFile
    /\ fpc \in Reloading \cup {"idle", "load", "swapLoaded", "renameLoaded", "assign",
                               "swapDumped", "renameDumped"}
    /\ jpc \in {"idle", "wait", "judge"} /\ jdiag \in Diags
    /\ jfail \in BOOLEAN /\ jdepth \in Nat
    /\ verdict \in {"none", "F", "P"}
    /\ recent \in [Diags -> Seq({"F", "P"})]
    /\ intact \in BOOLEAN /\ clash \in BOOLEAN /\ kept \in BOOLEAN

\* What the filter is meant to look at: the last n results, passes before the first.
LastResults(d, n) == [i \in 1..n |-> IF i <= Len(recent[d]) THEN recent[d][i] ELSE "P"]

\* The history of a diagnostic is its last results, through runs, restarts and
\* changes of the depth, as long as every file could be opened.
HistoryIsRecent ==
    intact /\ par.enable /\ fpc = "idle" =>
        \A d \in Diags : Firsts(hist[d], par.depth) = LastResults(d, par.depth)

\* What the filter says of a diagnostic: the share of failures among the last
\* results, or a row of failures among them.
Verdict(d) ==
    LET n == par.depth
        w == LastResults(d, n)
        f == ftype[d]
    IN IF f.kind = "P" /\ f.limit \in 1..100
       THEN Cardinality({i \in 1..n : w[i] = "F"}) * 100 >= f.limit * n
       ELSE IF f.kind = "S" /\ f.limit > 0
       THEN \E i \in 1..n : \E j \in i..n :
               j - i + 1 = LesserOf(f.limit, n) /\ \A k \in i..j : w[k] = "F"
       ELSE jfail

\* An instance that no start of a run disturbs gets the verdict of the last results.
VerdictOfRecent ==
    [][jpc = "judge" /\ jpc' = "idle" /\ verdict' # "none" /\ intact /\ ~clash
        => verdict' = (IF Verdict(jdiag) THEN "F" ELSE "P")]_fvars

\* A buffer file that was written is there, whole or not, until the filter is switched
\* off or the agent dies, or the rename fails, between its removal and the rename of the
\* new one; once a file has taken the name again, so it is again.
LostOnlyInTheGap ==
    kept /\ ~buffer.there => fpc \in {"renameLoaded", "renameDumped"}
=============================================================================
