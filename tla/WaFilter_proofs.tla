-------------------------- MODULE WaFilter_proofs ---------------------------
(***************************************************************************)
(* The filter of the results, for any diagnostics, depths and filters and  *)
(* however often the agent dies: the buffer file outlives everything but   *)
(* what happens between its removal and the rename of the new one, and the *)
(* history in memory is what was pushed last, and what it is judged by.    *)
(***************************************************************************)
EXTENDS WaFilter, FiniteSetTheorems, WellFoundedInduction, TLAPS

-----------------------------------------------------------------------------
(* The buffer file.                                                        *)

Renaming == fpc \in {"renameLoaded", "renameDumped"}

\* The old file was removed only for a new one, which nobody touches before it has
\* taken the name.
GapInv ==
    /\ Renaming => temp.there
    /\ LostOnlyInTheGap

\* A step that leaves the buffer file, its history and the renaming alone.
LEMMA GapFrame ==
    ASSUME GapInv, UNCHANGED <<buffer, kept>>, ~Renaming, ~Renaming'
    PROVE  GapInv'
BY DEF GapInv, LostOnlyInTheGap, Renaming

\* A step of an instance.
LEMMA GapOther ==
    ASSUME GapInv, UNCHANGED <<buffer, temp, kept, fpc>>
    PROVE  GapInv'
BY DEF GapInv, LostOnlyInTheGap, Renaming

\* The old file is removed, and the new one takes its name.
LEMMA GapSwap ==
    ASSUME GapInv, NEW pc \in {"swapLoaded", "swapDumped"},
           NEW next \in {"renameLoaded", "renameDumped"}, NEW otherwise \in {"assign", "idle"},
           Swap(pc, next, otherwise)
    PROVE  GapInv'
BY DEF Swap, GapInv, LostOnlyInTheGap, Renaming, fmem, fhist

LEMMA GapRename ==
    ASSUME GapInv, NEW pc \in {"renameLoaded", "renameDumped"}, NEW next \in {"assign", "idle"},
           Rename(pc, next)
    PROVE  GapInv'
BY DEF Rename, GapInv, LostOnlyInTheGap, Renaming, ffiles

LEMMA GapSetFilterBuffer == GapInv /\ SetFilterBuffer => GapInv'
<1> SUFFICES ASSUME GapInv, SetFilterBuffer PROVE GapInv'
  OBVIOUS
<1> USE DEF ffiles, fhist, Renaming
<1>1. CASE StartTestRun \/ GetEnable \/ GetDepth \/ CheckDepth \/ GetFilterParams
  BY <1>1, GapFrame DEF StartTestRun, GetEnable, GetDepth, CheckDepth, GetFilterParams, Param
<1>2. CASE LoadBuffer
  BY <1>2, GapFrame DEF LoadBuffer
<1>3. CASE Swap("swapLoaded", "renameLoaded", "assign")
  BY <1>3, GapSwap
<1>4. CASE Rename("renameLoaded", "assign")
  BY <1>4, GapRename
<1>5. CASE AssignFilterTypes
  BY <1>5, GapFrame DEF AssignFilterTypes
<1> QED
  BY <1>1, <1>2, <1>3, <1>4, <1>5 DEF SetFilterBuffer

LEMMA GapDumpResultFilter == GapInv /\ DumpResultFilter => GapInv'
<1> SUFFICES ASSUME GapInv, DumpResultFilter PROVE GapInv'
  OBVIOUS
<1>1. CASE FinishTestRun
  <2>1. UNCHANGED <<buffer, kept>> /\ ~Renaming /\ ~Renaming'
    BY <1>1 DEF FinishTestRun, fhist, Renaming
  <2> QED
    BY <2>1, GapFrame
<1>2. CASE Swap("swapDumped", "renameDumped", "idle")
  BY <1>2, GapSwap
<1>3. CASE Rename("renameDumped", "idle")
  BY <1>3, GapRename
<1> QED
  BY <1>1, <1>2, <1>3 DEF DumpResultFilter

LEMMA GapStep == GapInv /\ [FNext]_fvars => GapInv'
<1> SUFFICES ASSUME GapInv, [FNext]_fvars PROVE GapInv'
  OBVIOUS
<1>1. CASE SetFilterEnableOff
  BY <1>1 DEF SetFilterEnableOff, GapInv, LostOnlyInTheGap, Renaming
<1>2. CASE SetFilterBuffer
  BY <1>2, GapSetFilterBuffer
<1>3. CASE DumpResultFilter
  BY <1>3, GapDumpResultFilter
<1>4. ASSUME NEW d \in Diags, NEW failed \in BOOLEAN, AskFilter(d, failed) PROVE GapInv'
  BY <1>4, GapOther DEF AskFilter, ffiles
<1>5. CASE GetFilteredResult
  BY <1>5, GapOther DEF GetFilteredResult, PushResult, JudgeResult, ffiles
<1>6. CASE FilterCrash
  BY <1>6 DEF FilterCrash, GapInv, LostOnlyInTheGap, Renaming
<1>7. CASE UNCHANGED fvars
  BY <1>7, GapOther DEF fvars, ffiles, fhist
<1> QED
  BY <1>1, <1>2, <1>3, <1>4, <1>5, <1>6, <1>7 DEF FNext

\* LostOnlyInTheGap: the history of the results is lost only when the agent dies, or
\* the rename fails, between remove and rename (wa_diag_filter.c:304-305, 669-670).
THEOREM Lost_Only_In_The_Gap == FSpec => []LostOnlyInTheGap
<1>1. FInit => GapInv
  BY DEF FInit, GapInv, LostOnlyInTheGap, Renaming
<1>2. GapInv => LostOnlyInTheGap
  BY DEF GapInv
<1> QED
  BY <1>1, <1>2, GapStep, PTL DEF FSpec

Chars == {"F", "P", "NL"}
Marks == {"F", "P"}

-----------------------------------------------------------------------------
(* Histories and lines.                                                    *)

LEMMA FirstsKeeps ==
    ASSUME NEW S, NEW s \in Seq(S), NEW n \in Nat
    PROVE  /\ Firsts(s, n) \in Seq(S) /\ Len(Firsts(s, n)) = LesserOf(n, Len(s))
           /\ \A i \in 1..LesserOf(n, Len(s)) : Firsts(s, n)[i] = s[i]
BY DEF Firsts, LesserOf

LEMMA AllPasses ==
    ASSUME NEW n \in Nat
    PROVE  Passes(n) \in Seq(Marks) /\ Len(Passes(n)) = n /\ \A i \in 1..n : Passes(n)[i] = "P"
BY DEF Passes, Marks

LEMMA JoinKeeps ==
    ASSUME NEW S, NEW s \in Seq(S), NEW t \in Seq(S)
    PROVE  /\ s \o t \in Seq(S) /\ Len(s \o t) = Len(s) + Len(t)
           /\ \A i \in 1..Len(s) : (s \o t)[i] = s[i]
           /\ \A i \in (Len(s) + 1)..(Len(s) + Len(t)) : (s \o t)[i] = t[i - Len(s)]
OBVIOUS

LEMMA StrncpyKeeps ==
    ASSUME NEW S, NEW old \in Seq(S), NEW new \in Seq(S), NEW n \in Nat
    PROVE  /\ Strncpy(old, new, n) \in Seq(S)
           /\ Len(new) >= n => /\ Len(Strncpy(old, new, n)) >= n
                               /\ \A i \in 1..n : Strncpy(old, new, n)[i] = new[i]
<1> DEFINE tail == SubSeq(old, n + 1, Len(old))
<1>1. tail \in Seq(S) /\ Len(tail) >= 0
  OBVIOUS
<1>2. CASE Len(new) < n
  BY <1>2 DEF Strncpy
<1>3. CASE ~(Len(new) < n)
  <2>1. Strncpy(old, new, n) = Firsts(new, n) \o tail
    BY <1>3 DEF Strncpy
  <2>2. Firsts(new, n) \in Seq(S) /\ Len(Firsts(new, n)) = n
        /\ \A i \in 1..n : Firsts(new, n)[i] = new[i]
    BY <1>3, FirstsKeeps DEF LesserOf
  <2> HIDE DEF tail
  <2> QED
    BY <1>1, <2>1, <2>2, JoinKeeps
<1> QED
  BY <1>2, <1>3

LEMMA FirstEnd ==
    ASSUME NEW h \in Seq(Chars), \E i \in DOMAIN h : h[i] = "NL"
    PROVE  LET i == CHOOSE i \in DOMAIN h : h[i] = "NL" /\ \A j \in 1..(i - 1) : h[j] # "NL"
           IN  i \in 1..Len(h) /\ h[i] = "NL" /\ LineOf(h) = Firsts(h, i)
<1> DEFINE ends == {i \in DOMAIN h : h[i] = "NL"}
           R == {ss \in Nat \X Nat : ss[1] < ss[2]}
<1>1. IsWellFoundedOn(R, Nat)
  BY NatLessThanWellFounded DEF OpToRel
<1>2. DOMAIN h = 1..Len(h) /\ Len(h) \in Nat /\ ends # {} /\ ends \subseteq Nat
  OBVIOUS
<1> HIDE DEF R, ends
<1>3. PICK x \in ends : \A y \in ends : ~(<<y, x>> \in R)
  BY <1>1, <1>2, WFMin
<1>4. x \in DOMAIN h /\ h[x] = "NL"
  BY <1>3 DEF ends
<1>5. ASSUME NEW j \in 1..(x - 1) PROVE h[j] # "NL"
  <2>1. j \in DOMAIN h /\ j < x /\ j \in Nat /\ x \in Nat
    BY <1>2, <1>4
  <2>2. <<j, x>> \in R
    BY <2>1 DEF R
  <2> QED
    BY <1>3, <2>1, <2>2 DEF ends
<1>6. \E i \in DOMAIN h : h[i] = "NL" /\ \A j \in 1..(i - 1) : h[j] # "NL"
  BY <1>4, <1>5
<1> QED
  BY <1>2, <1>6 DEF LineOf

\* A line is a history up to its first end.
LEMMA LineKeeps ==
    ASSUME NEW h \in Seq(Chars)
    PROVE  /\ LineOf(h) \in Seq(Chars)
           /\ \A n \in 0..Len(h) : (\A i \in 1..n : h[i] # "NL") =>
                 Len(LineOf(h)) >= n /\ \A i \in 1..n : LineOf(h)[i] = h[i]
<1>1. CASE \E i \in DOMAIN h : h[i] = "NL"
  <2>1. PICK e \in 1..Len(h) : h[e] = "NL" /\ LineOf(h) = Firsts(h, e)
    BY <1>1, FirstEnd
  <2>2. /\ Firsts(h, e) \in Seq(Chars) /\ Len(Firsts(h, e)) = e
        /\ \A i \in 1..e : Firsts(h, e)[i] = h[i]
    BY FirstsKeeps DEF LesserOf
  <2>3. ASSUME NEW n \in 0..Len(h), \A i \in 1..n : h[i] # "NL" PROVE n < e
    BY <2>1, <2>3
  <2> QED
    BY <2>1, <2>2, <2>3
<1>2. CASE ~\E i \in DOMAIN h : h[i] = "NL"
  BY <1>2 DEF LineOf, Chars
<1> QED
  BY <1>1, <1>2

-----------------------------------------------------------------------------
(* The invariant.                                                          *)

\* A history that says of the last n results what was pushed, and passes before.
Window(h, r, n) ==
    Len(h) >= n /\ \A i \in 1..n : h[i] = IF i <= Len(r) THEN r[i] ELSE "P"

\* A file in which no diagnostic is missing holds the history of each.
Whole(f) ==
    f.depth > 0 /\ DOMAIN f.lines = Diags =>
        /\ DOMAIN f.real = Diags
        /\ \A d \in Diags : Window(f.lines[d], f.real[d], f.depth)

FileOK(f) == f \in FFile /\ DOMAIN f.lines \subseteq Diags

FilesGood == FileOK(buffer) /\ FileOK(temp) /\ (intact => Whole(buffer) /\ Whole(temp))

\* The depth is in range wherever it is used.
DepthSet ==
    fpc \notin {"idle", "enable", "depth", "range"} \/ (fpc = "idle" /\ par.enable)
        => par.depth \in 1..MaxDepth

Loaded == fpc \notin Reloading \cup {"load"}

SwitchedOn == fpc \notin Reloading \cup {"idle"} => par.enable

Memory == hist \in [Diags -> Seq(Chars)] /\ recent \in [Diags -> Seq(Marks)]

HistGood ==
    intact /\ par.enable /\ Loaded => \A d \in Diags : Window(hist[d], recent[d], par.depth)

FilterSteps == Reloading \cup {"idle", "load", "swapLoaded", "renameLoaded", "assign",
                         "swapDumped", "renameDumped"}

Control ==
    /\ par \in FParams /\ fpc \in FilterSteps
    /\ jpc \in {"idle", "wait", "judge"} /\ jdiag \in Diags /\ jfail \in BOOLEAN /\ jdepth \in Nat

Flags ==
    /\ ftype \in [Diags -> Filters \cup {NoFilter}] /\ verdict \in {"none", "F", "P"}
    /\ intact \in BOOLEAN /\ clash \in BOOLEAN /\ kept \in BOOLEAN

FilterInv == Control /\ Flags /\ Memory /\ FilesGood /\ DepthSet /\ SwitchedOn /\ HistGood

LEMMA FilterTypes == FilterInv => FTypeOK
BY DEF FilterInv, Control, Flags, Memory, FilesGood, FileOK, FTypeOK, FilterSteps, Chars, Marks

LEMMA DiagsAre ==
    /\ Cardinality(Diags) \in Nat /\ Diags = 1..Cardinality(Diags) /\ 1 \in Diags
    /\ Diags \subseteq Nat
BY FilterAssumption, FS_CardinalityType, FS_EmptySet

LEMMA PerDiag ==
    ASSUME NEW S, NEW f \in [Diags -> S]
    PROVE  f \in Seq(S) /\ DOMAIN f = Diags
BY DiagsAre

LEMMA FilesFields ==
    ASSUME NEW f, FileOK(f)
    PROVE  /\ f.depth \in Nat /\ f.there \in BOOLEAN
           /\ f.lines \in Seq(Seq(Chars)) /\ f.real \in Seq(Seq(Marks))
           /\ \A d \in DOMAIN f.lines : d \in Diags /\ f.lines[d] \in Seq(Chars)
           /\ \A d \in DOMAIN f.real : f.real[d] \in Seq(Marks)
BY DEF FileOK, FFile, Chars, Marks

LEMMA NoFileGood == FileOK(NoFile) /\ Whole(NoFile) /\ FileOK([NoFile EXCEPT !.there = TRUE])
                    /\ Whole([NoFile EXCEPT !.there = TRUE])
<1>1. \A S : <<>> \in Seq(S) /\ DOMAIN <<>> = {}
  OBVIOUS
<1>2. NoFile \in FFile /\ [NoFile EXCEPT !.there = TRUE] \in FFile
  BY <1>1 DEF NoFile, FFile
<1>3. \A f : f.lines = <<>> /\ f.depth = 0 /\ f \in FFile => FileOK(f) /\ Whole(f)
  BY <1>1 DEF FileOK, Whole
<1> QED
  BY <1>2, <1>3 DEF NoFile

LEMMA FilterStart == FInit => FilterInv
<1> SUFFICES ASSUME FInit PROVE FilterInv
  OBVIOUS
<1>1. Control
  <2>1. par \in FParams
    <3>1. <<>> \in Seq(Filters)
      OBVIOUS
    <3> QED
      BY <3>1 DEF FInit, FParams, NoParams
  <2> QED
    BY <2>1, DiagsAre DEF FInit, Control, FilterSteps
<1>2. Flags
  BY DEF FInit, Flags
<1>3. Memory /\ FilesGood
  BY NoFileGood DEF FInit, Memory, FilesGood
<1>4. DepthSet /\ SwitchedOn /\ HistGood
  BY DEF FInit, DepthSet, SwitchedOn, HistGood, NoParams
<1> QED
  BY <1>1, <1>2, <1>3, <1>4 DEF FilterInv

\* The file that is written of the memory.
LEMMA WrittenFile ==
    ASSUME NEW h \in [Diags -> Seq(Chars)], NEW r \in [Diags -> Seq(Marks)], par \in FParams
    PROVE  /\ FileOK(FileOf(h, r)) /\ DOMAIN FileOf(h, r).lines = Diags
           /\ (\A d \in Diags : Window(h[d], r[d], par.depth)) => Whole(FileOf(h, r))
<1> DEFINE f == FileOf(h, r)
           ls == [d \in Diags |-> LineOf(h[d])]
<1>1. f = [depth |-> par.depth, there |-> TRUE, lines |-> ls, real |-> r] /\ par.depth \in Nat
  BY DEF FileOf, FParams
<1>2. ls \in [Diags -> Seq(Chars)]
  BY LineKeeps
<1>3. ls \in Seq(Seq(Chars)) /\ r \in Seq(Seq(Marks)) /\ DOMAIN ls = Diags /\ DOMAIN r = Diags
  BY <1>2, PerDiag
<1>4. ASSUME NEW d \in Diags, Window(h[d], r[d], par.depth)
      PROVE  Window(ls[d], r[d], par.depth)
  <2>1. /\ h[d] \in Seq(Chars) /\ r[d] \in Seq(Marks) /\ ls[d] = LineOf(h[d])
        /\ par.depth \in 0..Len(h[d])
    BY <1>1, <1>4 DEF Window
  <2>2. \A i \in 1..par.depth : h[d][i] # "NL"
    <3> SUFFICES ASSUME NEW i \in 1..par.depth PROVE h[d][i] # "NL"
      OBVIOUS
    <3>1. h[d][i] = IF i <= Len(r[d]) THEN r[d][i] ELSE "P"
      BY <1>4 DEF Window
    <3>2. i <= Len(r[d]) => r[d][i] \in Marks
      BY <2>1, <1>1
    <3> QED
      BY <3>1, <3>2 DEF Marks
  <2>3. Len(LineOf(h[d])) >= par.depth /\ \A i \in 1..par.depth : LineOf(h[d])[i] = h[d][i]
    BY <2>1, <2>2, LineKeeps
  <2> QED
    BY <1>4, <2>1, <2>3 DEF Window
<1> HIDE DEF ls
<1>5. FileOK(f) /\ DOMAIN f.lines = Diags
  BY <1>1, <1>3 DEF FileOK, FFile, Chars, Marks
<1>6. (\A d \in Diags : Window(h[d], r[d], par.depth)) => Whole(f)
  BY <1>1, <1>3, <1>4 DEF Whole
<1> QED
  BY <1>5, <1>6

\* A history that was just read.
LEMMA ReadHistory ==
    ASSUME NEW f, FileOK(f), Whole(f), f.depth > 0, DOMAIN f.lines = Diags, NEW d \in Diags,
           NEW n \in Nat \ {0}, par.depth = n, hist[d] \in Seq(Chars)
    PROVE  Window(LoadedLine(f, d), Firsts(f.real[d], LesserOf(f.depth, n)), n)
<1> DEFINE line == f.lines[d]
           real == f.real[d]
           few == LesserOf(f.depth, n)
           new == IF n > f.depth THEN Firsts(line, f.depth) \o Passes(n - f.depth) ELSE line
<1>1. /\ line \in Seq(Chars) /\ real \in Seq(Marks) /\ f.depth \in Nat
      /\ Len(line) >= f.depth
      /\ \A i \in 1..f.depth : line[i] = IF i <= Len(real) THEN real[i] ELSE "P"
  BY FilesFields DEF Whole, Window
<1>2. few \in Nat /\ few <= n /\ few <= f.depth /\ (few = n \/ few = f.depth)
  BY <1>1 DEF LesserOf
<1>3. LoadedLine(f, d) = Strncpy(hist[d], new, n)
  BY DEF LoadedLine
<1> HIDE DEF line, real, few
<1>4. /\ new \in Seq(Chars) /\ Len(new) >= n
      /\ \A i \in 1..n : new[i] = IF i <= f.depth THEN line[i] ELSE "P"
  <2>1. CASE n > f.depth
    <3>1. /\ Firsts(line, f.depth) \in Seq(Chars) /\ Len(Firsts(line, f.depth)) = f.depth
          /\ \A i \in 1..f.depth : Firsts(line, f.depth)[i] = line[i]
      BY <1>1, FirstsKeeps DEF LesserOf
    <3>2. /\ Passes(n - f.depth) \in Seq(Chars) /\ Len(Passes(n - f.depth)) = n - f.depth
          /\ \A i \in 1..(n - f.depth) : Passes(n - f.depth)[i] = "P"
      <4>1. n - f.depth \in Nat
        BY <1>1, <2>1
      <4> QED
        BY <4>1, AllPasses DEF Chars, Marks
    <3>3. new = Firsts(line, f.depth) \o Passes(n - f.depth)
      BY <2>1
    <3> HIDE DEF new
    <3> QED
      BY <1>1, <2>1, <3>1, <3>2, <3>3, JoinKeeps
  <2>2. CASE ~(n > f.depth)
    BY <1>1, <2>2
  <2> QED
    BY <2>1, <2>2
<1> HIDE DEF new
<1>5. /\ Len(LoadedLine(f, d)) >= n
      /\ \A i \in 1..n : LoadedLine(f, d)[i] = new[i]
  BY <1>3, <1>4, StrncpyKeeps
<1>6. /\ Firsts(real, few) \in Seq(Marks) /\ Len(Firsts(real, few)) = LesserOf(few, Len(real))
      /\ \A i \in 1..LesserOf(few, Len(real)) : Firsts(real, few)[i] = real[i]
  BY <1>1, <1>2, FirstsKeeps
<1>7. ASSUME NEW i \in 1..n
      PROVE  LoadedLine(f, d)[i] = IF i <= Len(Firsts(real, few)) THEN Firsts(real, few)[i] ELSE "P"
  <2>1. LoadedLine(f, d)[i] = IF i <= f.depth /\ i <= Len(real) THEN real[i] ELSE "P"
    BY <1>1, <1>4, <1>5
  <2>2. i <= Len(Firsts(real, few)) <=> i <= f.depth /\ i <= Len(real)
    BY <1>1, <1>2, <1>6 DEF LesserOf
  <2> QED
    BY <2>1, <2>2, <1>1, <1>2, <1>6
<1> QED
  BY <1>5, <1>7 DEF Window, real, few

-----------------------------------------------------------------------------
(* The steps.                                                              *)

\* A step that changes neither memory nor files.
LEMMA FilesStay == ASSUME FilesGood, UNCHANGED <<ffiles, intact>> PROVE FilesGood'
BY DEF FilesGood, ffiles

LEMMA MemoryStays == ASSUME Memory, UNCHANGED <<hist, recent>> PROVE Memory'
BY DEF Memory

LEMMA HistStays ==
    ASSUME HistGood, UNCHANGED <<hist, recent, intact>>,
           ~Loaded' \/ (Loaded /\ UNCHANGED par)
    PROVE  HistGood'
BY DEF HistGood, Loaded

\* The steps that read a parameter.
LEMMA KeepsParams ==
    ASSUME par \in FParams
    PROVE  /\ \A v \in BOOLEAN : [par EXCEPT !.enable = v] \in FParams
           /\ \A n \in Nat : [par EXCEPT !.depth = n] \in FParams
           /\ \A fs \in Seq(Filters) : [par EXCEPT !.params = fs] \in FParams
BY DEF FParams

LEMMA DepthWithin == \A n \in Nat : DepthInRange(n) \in 1..MaxDepth
BY FilterAssumption DEF DepthInRange, LesserOf

LEMMA StepStartTestRun == FilterInv /\ StartTestRun => FilterInv'
<1> SUFFICES ASSUME FilterInv, StartTestRun PROVE FilterInv'
  OBVIOUS
<1> USE DEF FilterInv
<1>1. Flags'
  BY DEF Flags, StartTestRun, fmem, fhist
<1>2. Control'
  BY DEF Control, FilterSteps, Reloading, StartTestRun, fmem, fjob
<1>3. Memory' /\ FilesGood' /\ HistGood'
  BY MemoryStays, FilesStay, HistStays DEF StartTestRun, fmem, fhist, Loaded, Reloading
<1>4. DepthSet' /\ SwitchedOn'
  BY DEF DepthSet, SwitchedOn, StartTestRun, Reloading
<1> QED
  BY <1>1, <1>2, <1>3, <1>4

LEMMA StepParam ==
    ASSUME FilterInv, NEW pc \in Reloading, NEW next, NEW answers, Param(pc, next, answers)
    PROVE  /\ Flags' /\ Memory' /\ FilesGood'
           /\ par' \in answers \cup {par} /\ fpc = pc /\ fpc' = next /\ UNCHANGED fjob
<1>1. Flags'
  BY DEF FilterInv, Flags, Param
<1>2. Memory' /\ FilesGood'
  BY MemoryStays, FilesStay DEF FilterInv, Param
<1>3. par' \in answers \cup {par} /\ fpc = pc /\ fpc' = next /\ UNCHANGED fjob
  BY DEF Param
<1> QED
  BY <1>1, <1>2, <1>3

\* Both parameters before the depth is in range.
LEMMA StepEarlyParam ==
    ASSUME FilterInv, NEW pc \in {"enable", "depth"}, NEW next \in {"depth", "range"},
           NEW answers \in SUBSET FParams, Param(pc, next, answers)
    PROVE  FilterInv'
<1>1. /\ Flags' /\ Memory' /\ FilesGood'
      /\ par' \in answers \cup {par} /\ fpc = pc /\ fpc' = next /\ UNCHANGED fjob
  <2>1. pc \in Reloading
    BY DEF Reloading
  <2> QED
    BY <2>1, StepParam
<1>2. Control'
  BY <1>1 DEF FilterInv, Control, FilterSteps, Reloading, fjob
<1>3. DepthSet' /\ SwitchedOn' /\ HistGood'
  BY <1>1 DEF DepthSet, SwitchedOn, HistGood, Loaded, Reloading
<1> QED
  BY <1>1, <1>2, <1>3 DEF FilterInv

LEMMA StepGetEnableOrDepth == FilterInv /\ (GetEnable \/ GetDepth) => FilterInv'
<1> SUFFICES ASSUME FilterInv, GetEnable \/ GetDepth PROVE FilterInv'
  OBVIOUS
<1>1. par \in FParams
  BY DEF FilterInv, Control
<1>2. CASE GetEnable
  <2>1. {[par EXCEPT !.enable = v] : v \in BOOLEAN} \in SUBSET FParams
    BY <1>1, KeepsParams
  <2> QED
    BY <1>2, <2>1, StepEarlyParam DEF GetEnable
<1>3. CASE GetDepth
  <2>1. {[par EXCEPT !.depth = n] : n \in StoredDepths} \in SUBSET FParams
    BY <1>1, KeepsParams, FilterAssumption DEF StoredDepths
  <2> QED
    BY <1>3, <2>1, StepEarlyParam DEF GetDepth
<1> QED
  BY <1>2, <1>3

LEMMA StepCheckDepth == FilterInv /\ CheckDepth => FilterInv'
<1> SUFFICES ASSUME FilterInv, CheckDepth PROVE FilterInv'
  OBVIOUS
<1>1. Flags'
  BY DEF FilterInv, Flags, CheckDepth
<1>2. Memory' /\ FilesGood' /\ HistGood'
  BY MemoryStays, FilesStay, HistStays DEF FilterInv, CheckDepth, Loaded, Reloading
<1>3. par \in FParams /\ par.depth \in Nat
  BY DEF FilterInv, Control, FParams
<1>4. /\ par' = [par EXCEPT !.depth = DepthInRange(par.depth)]
      /\ DepthInRange(par.depth) \in 1..MaxDepth
  BY <1>3, DepthWithin DEF CheckDepth
<1>5. par' \in FParams /\ par'.depth \in 1..MaxDepth
  BY <1>3, <1>4, KeepsParams, FilterAssumption DEF FParams
<1>6. Control'
  BY <1>5 DEF FilterInv, Control, CheckDepth, FilterSteps, Reloading, fjob
<1>7. DepthSet' /\ SwitchedOn'
  BY <1>5 DEF DepthSet, SwitchedOn, CheckDepth, Reloading
<1> QED
  BY <1>1, <1>2, <1>6, <1>7 DEF FilterInv

LEMMA StepGetFilterParams == FilterInv /\ GetFilterParams => FilterInv'
<1> SUFFICES ASSUME FilterInv, GetFilterParams PROVE FilterInv'
  OBVIOUS
<1> DEFINE next == IF par.enable THEN "load" ELSE "idle"
           answers == {[par EXCEPT !.params = fs] : fs \in StoredParams}
<1>1. par \in FParams
  BY DEF FilterInv, Control
<1>2. StoredParams \subseteq Seq(Filters)
  <2>1. <<>> \in Seq(Filters)
    OBVIOUS
  <2> QED
    BY <2>1, PerDiag DEF StoredParams
<1>3. \A p \in answers : p \in FParams /\ p.depth = par.depth /\ p.enable = par.enable
  <2> TAKE p \in answers
  <2>1. PICK fs \in Seq(Filters) : p = [par EXCEPT !.params = fs]
    BY <1>2
  <2>2. p \in FParams
    BY <1>1, <2>1, KeepsParams
  <2> QED
    BY <1>1, <2>1, <2>2 DEF FParams
<1> HIDE DEF next, answers
<1>4. /\ Flags' /\ Memory' /\ FilesGood'
      /\ par' \in answers \cup {par} /\ fpc = "params" /\ fpc' = next /\ UNCHANGED fjob
  <2>1. Param("params", next, answers)
    BY DEF GetFilterParams, next, answers
  <2>2. "params" \in Reloading
    BY DEF Reloading
  <2> QED
    BY <2>1, <2>2, StepParam
<1>5. par' \in FParams /\ par'.depth = par.depth /\ par'.enable = par.enable
  BY <1>1, <1>3, <1>4
<1>6. Control'
  BY <1>4, <1>5 DEF FilterInv, Control, FilterSteps, Reloading, fjob, next
<1>7. DepthSet' /\ SwitchedOn' /\ HistGood'
  BY <1>4, <1>5 DEF FilterInv, DepthSet, SwitchedOn, HistGood, Loaded, Reloading, next
<1> QED
  BY <1>4, <1>6, <1>7 DEF FilterInv

\* A file whose first lines only are there.
LEMMA ShorterFile ==
    ASSUME NEW f, FileOK(f), Whole(f), NEW D \in SUBSET Diags, NEW ls \in [D -> Seq(Chars)],
           ls \in Seq(Seq(Chars)), D = Diags => ls = f.lines
    PROVE  FileOK([f EXCEPT !.lines = ls]) /\ Whole([f EXCEPT !.lines = ls])
<1> DEFINE g == [f EXCEPT !.lines = ls]
<1>1. f \in FFile
  BY DEF FileOK
<1>2. /\ g \in FFile /\ g.lines = ls /\ g.depth = f.depth /\ g.real = f.real
  BY <1>1 DEF FFile, Chars, Marks
<1>3. DOMAIN ls = D
  OBVIOUS
<1> HIDE DEF g
<1>4. FileOK(g)
  BY <1>2, <1>3 DEF FileOK
<1>5. Whole(g)
  BY <1>2, <1>3 DEF Whole
<1> QED
  BY <1>4, <1>5 DEF g

LEMMA LoadCreates ==
    ASSUME FilterInv, CreateBuffer, par.depth \in 1..MaxDepth
    PROVE  /\ Memory' /\ FileOK(temp') /\ Whole(temp') /\ intact' = intact
           /\ \A d \in Diags : Window(hist'[d], recent'[d], par.depth)
<1> DEFINE n == par.depth
<1>1. hist \in [Diags -> Seq(Chars)] /\ par \in FParams /\ n \in Nat
  BY FilterAssumption DEF FilterInv, Memory, Control
<1>2. /\ Passes(n) \in Seq(Chars) /\ Len(Passes(n)) = n /\ \A i \in 1..n : Passes(n)[i] = "P"
  BY <1>1, AllPasses DEF Chars, Marks
<1>3. hist' = [d \in Diags |-> Strncpy(hist[d], Passes(n), n)]
      /\ recent' = [d \in Diags |-> <<>>]
      /\ temp' = FileOf(hist', recent') /\ intact' = intact
  BY DEF CreateBuffer
<1> HIDE DEF n
<1>4. ASSUME NEW d \in Diags
      PROVE  /\ hist'[d] \in Seq(Chars) /\ recent'[d] \in Seq(Marks)
             /\ Window(hist'[d], recent'[d], n)
  <2>1. hist'[d] = Strncpy(hist[d], Passes(n), n) /\ recent'[d] = <<>>
    BY <1>3
  <2>2. /\ hist'[d] \in Seq(Chars) /\ Len(hist'[d]) >= n
        /\ \A i \in 1..n : hist'[d][i] = "P"
    BY <1>1, <1>2, <2>1, StrncpyKeeps
  <2> QED
    BY <1>1, <2>1, <2>2 DEF Window
<1>5. hist' \in [Diags -> Seq(Chars)] /\ recent' \in [Diags -> Seq(Marks)]
  BY <1>3, <1>4
<1> QED
  BY <1>1, <1>3, <1>4, <1>5, WrittenFile DEF Memory, n

LEMMA LoadReads ==
    ASSUME FilterInv, ReadBuffer(buffer), buffer.depth > 0, par.depth \in 1..MaxDepth
    PROVE  /\ Memory' /\ FileOK(temp') /\ intact' \in BOOLEAN
           /\ intact' => /\ intact /\ Whole(temp')
                         /\ \A d \in Diags : Window(hist'[d], recent'[d], par.depth)
<1> DEFINE n == par.depth
           f == buffer
           few == LesserOf(f.depth, n)
<1>1. /\ hist \in [Diags -> Seq(Chars)] /\ recent \in [Diags -> Seq(Marks)]
      /\ par \in FParams /\ n \in Nat \ {0} /\ FileOK(f) /\ (intact => Whole(f))
      /\ intact \in BOOLEAN
  BY FilterAssumption DEF FilterInv, Memory, Control, FilesGood, Flags
<1>2. /\ hist' = [d \in Diags |-> IF d \in DOMAIN f.lines THEN LoadedLine(f, d) ELSE hist[d]]
      /\ recent' = [d \in Diags |-> IF d \in DOMAIN f.real THEN Firsts(f.real[d], few)
                                    ELSE recent[d]]
      /\ temp' = [FileOf(hist', recent') EXCEPT
                    !.lines = [d \in DOMAIN f.lines |-> LineOf(hist'[d])]]
      /\ intact' = (intact /\ DOMAIN f.lines = Diags)
  BY DEF ReadBuffer
<1>3. /\ f.depth \in Nat /\ few \in Nat
      /\ f.lines \in Seq(Seq(Chars)) /\ DOMAIN f.lines \subseteq Diags
      /\ \A d \in DOMAIN f.lines : f.lines[d] \in Seq(Chars)
      /\ \A d \in DOMAIN f.real : f.real[d] \in Seq(Marks)
  BY <1>1, FilesFields DEF LesserOf, FileOK
<1> HIDE DEF n, f, few
<1>4. ASSUME NEW d \in DOMAIN f.lines PROVE LoadedLine(f, d) \in Seq(Chars)
  <2>1. hist[d] \in Seq(Chars) /\ f.lines[d] \in Seq(Chars)
    BY <1>1, <1>3
  <2>2. Firsts(f.lines[d], f.depth) \in Seq(Chars)
    BY <1>3, <2>1, FirstsKeeps
  <2>3. n > f.depth => Firsts(f.lines[d], f.depth) \o Passes(n - f.depth) \in Seq(Chars)
    <3> SUFFICES ASSUME n > f.depth
                 PROVE  Firsts(f.lines[d], f.depth) \o Passes(n - f.depth) \in Seq(Chars)
      OBVIOUS
    <3>1. n - f.depth \in Nat
      BY <1>1, <1>3
    <3>2. Passes(n - f.depth) \in Seq(Chars)
      BY <3>1, AllPasses DEF Chars, Marks
    <3> QED
      BY <2>2, <3>2, JoinKeeps
  <2> QED
    BY <1>1, <2>1, <2>3, StrncpyKeeps DEF LoadedLine, n
<1>5. hist' \in [Diags -> Seq(Chars)]
  BY <1>1, <1>2, <1>4
<1>6. recent' \in [Diags -> Seq(Marks)]
  <2>1. \A d \in DOMAIN f.real : Firsts(f.real[d], few) \in Seq(Marks)
    BY <1>3, FirstsKeeps
  <2> QED
    BY <1>1, <1>2, <2>1
<1>7. ASSUME intact' PROVE \A d \in Diags : Window(hist'[d], recent'[d], n)
  <2>1. intact /\ DOMAIN f.lines = Diags /\ Whole(f) /\ f.depth > 0
    BY <1>1, <1>2, <1>7 DEF f
  <2>2. DOMAIN f.real = Diags
    BY <2>1 DEF Whole
  <2> SUFFICES ASSUME NEW d \in Diags PROVE Window(hist'[d], recent'[d], n)
    OBVIOUS
  <2>3. hist'[d] = LoadedLine(f, d) /\ recent'[d] = Firsts(f.real[d], few)
    BY <1>2, <2>1, <2>2
  <2> QED
    BY <1>1, <2>1, <2>3, ReadHistory DEF few, n
<1>8. FileOK(temp') /\ (intact' => Whole(temp'))
  <2> DEFINE g == FileOf(hist', recent')
             ls == [d \in DOMAIN f.lines |-> LineOf(hist'[d])]
  <2>1. FileOK(g) /\ DOMAIN g.lines = Diags /\ (intact' => Whole(g))
        /\ g.lines = [d \in Diags |-> LineOf(hist'[d])]
    BY <1>1, <1>5, <1>6, <1>7, WrittenFile DEF FileOf, n
  <2>2. ls \in [DOMAIN f.lines -> Seq(Chars)]
    BY <1>3, <1>5, LineKeeps
  <2>3. ls \in Seq(Seq(Chars))
    <3>1. DOMAIN f.lines = 1..Len(f.lines) /\ Len(f.lines) \in Nat
      BY <1>3
    <3> HIDE DEF ls
    <3> QED
      BY <2>2, <3>1
  <2>4. DOMAIN f.lines = Diags => ls = g.lines
    BY <2>1
  <2>5. FileOK([g EXCEPT !.lines = ls])
    <3>1. g \in FFile
      BY <2>1 DEF FileOK
    <3>2. [g EXCEPT !.lines = ls] \in FFile /\ [g EXCEPT !.lines = ls].lines = ls
      BY <2>3, <3>1 DEF FFile, Chars
    <3> QED
      BY <1>3, <2>2, <3>2 DEF FileOK
  <2>6. intact' => Whole([g EXCEPT !.lines = ls])
    <3> HIDE DEF g, ls
    <3>1. intact' => FileOK(g) /\ Whole(g)
      BY <2>1
    <3> QED
      BY <1>3, <2>2, <2>3, <2>4, <3>1, ShorterFile
  <2> QED
    BY <1>2, <2>5, <2>6
<1>9. intact' \in BOOLEAN /\ (intact' => intact)
  BY <1>1, <1>2, Zenon
<1> QED
  BY <1>5, <1>6, <1>7, <1>8, <1>9 DEF Memory, n

LEMMA StepLoadBuffer == FilterInv /\ LoadBuffer => FilterInv'
<1> SUFFICES ASSUME FilterInv, LoadBuffer PROVE FilterInv'
  OBVIOUS
<1>1. /\ fpc = "load" /\ fpc' \in {"idle", "swapLoaded"} /\ par' = par /\ par.enable
      /\ par.depth \in 1..MaxDepth /\ buffer' = buffer
  BY DEF FilterInv, LoadBuffer, DepthSet, SwitchedOn, Reloading
<1>2. /\ Memory' /\ FileOK(temp') /\ intact' \in BOOLEAN
      /\ intact' => /\ intact /\ Whole(temp')
                    /\ \A d \in Diags : Window(hist'[d], recent'[d], par.depth)
  <2>1. CASE intact' = FALSE /\ UNCHANGED <<hist, recent, temp>>
    BY <2>1, MemoryStays DEF FilterInv, FilesGood
  <2>2. CASE buffer.depth = 0 /\ CreateBuffer
    BY <1>1, <2>2, LoadCreates DEF FilterInv, Flags
  <2>3. CASE buffer.depth > 0 /\ ReadBuffer(buffer)
    BY <1>1, <2>3, LoadReads
  <2> QED
    BY <2>1, <2>2, <2>3 DEF LoadBuffer, TempNotOpened
<1>3. Flags'
  <2>1. UNCHANGED <<ftype, clash, kept>> /\ verdict' = "none"
    BY DEF LoadBuffer
  <2> QED
    BY <1>2, <2>1 DEF FilterInv, Flags
<1>4. Control'
  BY <1>1 DEF FilterInv, Control, LoadBuffer, FilterSteps, fjob
<1>5. FilesGood' /\ HistGood' /\ DepthSet' /\ SwitchedOn'
  BY <1>1, <1>2 DEF FilterInv, FilesGood, HistGood, DepthSet, SwitchedOn
<1> QED
  BY <1>2, <1>3, <1>4, <1>5 DEF FilterInv

\* The files at the end of a start or of a finish of a run.
LEMMA StepFiles ==
    ASSUME FilterInv, UNCHANGED <<fmem, fjob, recent, intact>>, FilesGood', Flags', par.enable,
           fpc \notin Reloading \cup {"load"},
           fpc' \in {"idle", "renameLoaded", "renameDumped", "assign", "swapDumped"}
    PROVE  FilterInv'
<1>1. Control' /\ Memory'
  BY DEF FilterInv, Control, Memory, FilterSteps, fmem, fjob
<1>2. HistGood' /\ DepthSet' /\ SwitchedOn'
  BY DEF FilterInv, HistGood, DepthSet, SwitchedOn, Loaded, Reloading, fmem
<1> QED
  BY <1>1, <1>2 DEF FilterInv

LEMMA StepSwap ==
    ASSUME FilterInv, NEW pc \in {"swapLoaded", "swapDumped"},
           NEW next \in {"renameLoaded", "renameDumped"}, NEW otherwise \in {"assign", "idle"},
           Swap(pc, next, otherwise)
    PROVE  FilterInv'
<1>1. FilesGood'
  BY NoFileGood DEF FilterInv, FilesGood, Swap, fhist
<1>2. Flags'
  BY DEF FilterInv, Flags, Swap, fhist, fmem
<1>3. /\ UNCHANGED <<fmem, fjob, recent, intact>> /\ par.enable
      /\ fpc \notin Reloading \cup {"load"} /\ fpc' \in {next, otherwise}
  BY DEF FilterInv, Swap, SwitchedOn, Reloading, fhist
<1> QED
  BY <1>1, <1>2, <1>3, StepFiles

LEMMA StepRename ==
    ASSUME FilterInv, NEW pc \in {"renameLoaded", "renameDumped"}, NEW next \in {"assign", "idle"},
           Rename(pc, next)
    PROVE  FilterInv'
<1>1. FilesGood'
  BY NoFileGood DEF FilterInv, FilesGood, Rename, ffiles
<1>2. Flags'
  <2>1. (~temp.there) \in BOOLEAN
    BY FilesFields DEF FilterInv, FilesGood
  <2>2. kept' \in BOOLEAN
    BY <2>1, Zenon DEF FilterInv, Flags, Rename
  <2> QED
    BY <2>2 DEF FilterInv, Flags, Rename, fmem
<1>3. /\ UNCHANGED <<fmem, fjob, recent, intact>> /\ par.enable
      /\ fpc \notin Reloading \cup {"load"} /\ fpc' = next
  BY DEF FilterInv, Rename, SwitchedOn, Reloading
<1> QED
  BY <1>1, <1>2, <1>3, StepFiles

LEMMA StepAssign == FilterInv /\ AssignFilterTypes => FilterInv'
<1> SUFFICES ASSUME FilterInv, AssignFilterTypes PROVE FilterInv'
  OBVIOUS
<1>1. /\ UNCHANGED <<par, hist, recent, intact, fjob, ffiles>> /\ fpc = "assign" /\ fpc' = "idle"
      /\ par.enable
  BY DEF FilterInv, AssignFilterTypes, SwitchedOn, Reloading, fhist
<1>2. Flags'
  <2>1. par.params \in Seq(Filters)
    BY DEF FilterInv, Control, FParams
  <2>2. \A d \in DOMAIN par.params : par.params[d] \in Filters
    BY <2>1
  <2>3. ftype' \in [Diags -> Filters \cup {NoFilter}]
    BY <2>2 DEF FilterInv, Flags, AssignFilterTypes
  <2> QED
    BY <2>3 DEF FilterInv, Flags, AssignFilterTypes, fhist
<1>3. Control' /\ Memory' /\ FilesGood'
  BY <1>1, MemoryStays, FilesStay DEF FilterInv, Control, FilterSteps, fjob
<1>4. HistGood' /\ DepthSet' /\ SwitchedOn'
  BY <1>1 DEF FilterInv, HistGood, DepthSet, SwitchedOn, Loaded, Reloading
<1> QED
  BY <1>2, <1>3, <1>4 DEF FilterInv

LEMMA StepFinish == FilterInv /\ FinishTestRun => FilterInv'
<1> SUFFICES ASSUME FilterInv, FinishTestRun PROVE FilterInv'
  OBVIOUS
<1>1. /\ UNCHANGED <<fmem, fjob, recent, intact, buffer>> /\ fpc = "idle" /\ par.enable
      /\ fpc' \in {"idle", "swapDumped"} /\ temp' \in {temp, FileOf(hist, recent)}
  BY DEF FilterInv, FinishTestRun, fhist
<1>2. Flags'
  BY DEF FilterInv, Flags, FinishTestRun, fmem, fhist
<1>3. FilesGood'
  <2>1. intact => \A d \in Diags : Window(hist[d], recent[d], par.depth)
    BY <1>1 DEF FilterInv, HistGood, Loaded, Reloading
  <2>2. FileOK(FileOf(hist, recent)) /\ (intact => Whole(FileOf(hist, recent)))
    BY <2>1, WrittenFile DEF FilterInv, Memory, Control
  <2> QED
    BY <1>1, <2>2 DEF FilterInv, FilesGood
<1>4. fpc \notin Reloading \cup {"load"}
  BY <1>1 DEF Reloading
<1> QED
  BY <1>1, <1>2, <1>3, <1>4, StepFiles

LEMMA StepAskFilter ==
    ASSUME FilterInv, NEW d \in Diags, NEW failed \in BOOLEAN, AskFilter(d, failed)
    PROVE  FilterInv'
<1>1. UNCHANGED <<fmem, ffiles, fpc, jdepth, recent, intact, kept>>
  BY DEF AskFilter
<1>2. jpc' \in {"idle", "wait", "judge"} /\ jdiag' \in Diags /\ jfail' \in BOOLEAN
  BY DEF AskFilter, FilterInv, Control
<1>3. clash' \in BOOLEAN
  <2>1. (fpc \in Reloading \cup {"load"}) \in BOOLEAN
    OBVIOUS
  <2> QED
    BY <2>1, Zenon DEF AskFilter, FilterInv, Flags
<1>4. verdict' \in {"none", "F", "P"}
  BY DEF AskFilter
<1>5. Control' /\ Flags'
  BY <1>1, <1>2, <1>3, <1>4 DEF FilterInv, Control, Flags, fmem
<1>6. Memory' /\ FilesGood' /\ HistGood' /\ DepthSet' /\ SwitchedOn'
  BY <1>1 DEF FilterInv, Memory, FilesGood, HistGood, DepthSet, SwitchedOn, Loaded, fmem, ffiles
<1> QED
  BY <1>5, <1>6 DEF FilterInv

LEMMA PushKeepsWindow ==
    ASSUME NEW h \in Seq(Chars), NEW q \in Seq(Marks), NEW r \in Marks
    PROVE  /\ Firsts(<<r>> \o h, Len(h)) \in Seq(Chars)
           /\ Firsts(<<r>> \o q, Len(h)) \in Seq(Marks)
           /\ \A n \in Nat : Window(h, q, n) =>
                 Window(Firsts(<<r>> \o h, Len(h)), Firsts(<<r>> \o q, Len(h)), n)
<1> DEFINE h1 == <<r>> \o h
           q1 == <<r>> \o q
           h2 == Firsts(h1, Len(h))
           q2 == Firsts(q1, Len(h))
<1>1. /\ h1 \in Seq(Chars) /\ Len(h1) = Len(h) + 1 /\ h1[1] = r
      /\ \A i \in 1..Len(h) : h1[i + 1] = h[i]
  BY DEF Chars, Marks
<1>2. /\ q1 \in Seq(Marks) /\ Len(q1) = Len(q) + 1 /\ q1[1] = r
      /\ \A i \in 1..Len(q) : q1[i + 1] = q[i]
  OBVIOUS
<1>3. Len(h) \in Nat /\ Len(q) \in Nat
  OBVIOUS
<1> HIDE DEF h1, q1
<1>4. h2 \in Seq(Chars) /\ Len(h2) = Len(h) /\ \A i \in 1..Len(h) : h2[i] = h1[i]
  BY <1>1, <1>3, FirstsKeeps DEF LesserOf
<1>5. /\ q2 \in Seq(Marks) /\ Len(q2) = LesserOf(Len(h), Len(q) + 1)
      /\ \A i \in 1..LesserOf(Len(h), Len(q) + 1) : q2[i] = q1[i]
  BY <1>2, <1>3, FirstsKeeps
<1> HIDE DEF h2, q2
<1>6. ASSUME NEW n \in Nat, Window(h, q, n) PROVE Window(h2, q2, n)
  <2>1. Len(h) >= n /\ \A i \in 1..n : h[i] = IF i <= Len(q) THEN q[i] ELSE "P"
    BY <1>6 DEF Window
  <2> SUFFICES ASSUME NEW i \in 1..n PROVE h2[i] = IF i <= Len(q2) THEN q2[i] ELSE "P"
    BY <1>4, <2>1 DEF Window
  <2>2. h2[i] = h1[i] /\ i \in 1..Len(h) /\ (i <= Len(q2) <=> i <= Len(q) + 1)
    BY <1>3, <1>4, <1>5, <2>1 DEF LesserOf
  <2>3. i <= Len(q2) => q2[i] = q1[i]
    BY <1>3, <1>5 DEF LesserOf
  <2>4. CASE i = 1
    BY <1>1, <1>2, <1>3, <2>2, <2>3, <2>4
  <2>5. CASE i # 1
    <3>1. i - 1 \in 1..n /\ (i - 1) + 1 = i /\ i - 1 \in 1..Len(h)
      BY <2>2, <2>5
    <3>2. h1[i] = h[i - 1] /\ h[i - 1] = IF i - 1 <= Len(q) THEN q[i - 1] ELSE "P"
      BY <1>1, <2>1, <3>1
    <3>3. i - 1 <= Len(q) => q1[i] = q[i - 1]
      BY <1>2, <1>3, <3>1
    <3> QED
      BY <1>3, <2>2, <2>3, <3>2, <3>3
  <2> QED
    BY <2>4, <2>5
<1> QED
  BY <1>4, <1>5, <1>6 DEF h1, q1, h2, q2

LEMMA StepPushResult == FilterInv /\ PushResult => FilterInv'
<1> SUFFICES ASSUME FilterInv, PushResult PROVE FilterInv'
  OBVIOUS
<1> DEFINE r == IF jfail THEN "F" ELSE "P"
<1>1. /\ hist' = [hist EXCEPT ![jdiag] = Firsts(<<r>> \o @, Len(@))]
      /\ recent' = [recent EXCEPT ![jdiag] = Firsts(<<r>> \o @, Len(hist[jdiag]))]
      /\ UNCHANGED <<par, ftype, ffiles, fpc, jdiag, jfail, intact, clash, kept>>
      /\ verdict' = "none" /\ jpc' = "judge" /\ jdepth' = par.depth
  BY DEF PushResult
<1>2. /\ hist \in [Diags -> Seq(Chars)] /\ recent \in [Diags -> Seq(Marks)] /\ jdiag \in Diags
      /\ par \in FParams /\ par.depth \in Nat
  BY DEF FilterInv, Memory, Control, FParams
<1>3. r \in Marks
  BY DEF Marks
<1> HIDE DEF r
<1>4. /\ hist[jdiag] \in Seq(Chars) /\ recent[jdiag] \in Seq(Marks)
      /\ hist'[jdiag] = Firsts(<<r>> \o hist[jdiag], Len(hist[jdiag]))
      /\ recent'[jdiag] = Firsts(<<r>> \o recent[jdiag], Len(hist[jdiag]))
      /\ \A d \in Diags \ {jdiag} : hist'[d] = hist[d] /\ recent'[d] = recent[d]
  BY <1>1, <1>2
<1>5. /\ hist'[jdiag] \in Seq(Chars) /\ recent'[jdiag] \in Seq(Marks)
      /\ \A n \in Nat :
            Window(hist[jdiag], recent[jdiag], n) => Window(hist'[jdiag], recent'[jdiag], n)
  BY <1>3, <1>4, PushKeepsWindow
<1>6. Memory'
  BY <1>1, <1>2, <1>5 DEF Memory
<1>7. HistGood'
  <2> SUFFICES ASSUME intact, par.enable, Loaded, NEW d \in Diags
               PROVE  Window(hist'[d], recent'[d], par.depth)
    BY <1>1 DEF HistGood, Loaded
  <2>1. Window(hist[d], recent[d], par.depth)
    BY DEF FilterInv, HistGood
  <2>2. CASE d = jdiag
    BY <1>2, <1>5, <2>1, <2>2
  <2>3. CASE d # jdiag
    BY <1>4, <2>1, <2>3
  <2> QED
    BY <2>2, <2>3
<1>8. Control' /\ Flags'
  BY <1>1, <1>2 DEF FilterInv, Control, Flags
<1>9. FilesGood' /\ DepthSet' /\ SwitchedOn'
  BY <1>1 DEF FilterInv, FilesGood, DepthSet, SwitchedOn, ffiles
<1> QED
  BY <1>6, <1>7, <1>8, <1>9 DEF FilterInv

LEMMA StepJudgeResult == FilterInv /\ JudgeResult => FilterInv'
<1> SUFFICES ASSUME FilterInv, JudgeResult PROVE FilterInv'
  OBVIOUS
<1>1. /\ UNCHANGED <<fmem, ffiles, fpc, recent, intact, kept>> /\ clash' = FALSE
      /\ jpc' = "idle" /\ jdiag' = 1 /\ jfail' = FALSE /\ jdepth' = 0
      /\ verdict' \in {"F", "P"}
  BY DEF JudgeResult
<1>2. Control' /\ Flags'
  BY <1>1, DiagsAre DEF FilterInv, Control, Flags, fmem
<1>3. Memory' /\ FilesGood' /\ HistGood' /\ DepthSet' /\ SwitchedOn'
  BY <1>1 DEF FilterInv, Memory, FilesGood, HistGood, DepthSet, SwitchedOn, Loaded, fmem, ffiles
<1> QED
  BY <1>2, <1>3 DEF FilterInv

LEMMA StepEnableOff == FilterInv /\ SetFilterEnableOff => FilterInv'
<1> SUFFICES ASSUME FilterInv, SetFilterEnableOff PROVE FilterInv'
  OBVIOUS
<1>1. /\ UNCHANGED <<fmem, temp, fpc, fjob, recent, intact, clash>>
      /\ buffer' = NoFile /\ kept' = FALSE /\ verdict' = "none"
  BY DEF SetFilterEnableOff
<1>2. Control' /\ Flags' /\ FilesGood'
  BY <1>1, NoFileGood DEF FilterInv, Control, Flags, FilesGood, fmem, fjob
<1>3. Memory' /\ HistGood' /\ DepthSet' /\ SwitchedOn'
  BY <1>1 DEF FilterInv, Memory, HistGood, DepthSet, SwitchedOn, Loaded, fmem
<1> QED
  BY <1>2, <1>3 DEF FilterInv

\* The agent dies while it writes a file.
CutTo(f, k) == [f EXCEPT !.lines = FirstLines(@, k), !.real = FirstLines(@, k)]

LEMMA CutFile ==
    ASSUME NEW f, FileOK(f), NEW k \in 0..(Cardinality(Diags) - 1)
    PROVE  FileOK(CutTo(f, k)) /\ Whole(CutTo(f, k))
<1> DEFINE c == [f EXCEPT !.lines = FirstLines(@, k), !.real = FirstLines(@, k)]
<1>1. /\ f \in FFile /\ DOMAIN f.lines \subseteq Diags /\ k < Cardinality(Diags) /\ k \in Nat
      /\ Diags = 1..Cardinality(Diags) /\ Cardinality(Diags) \in Nat
  BY DiagsAre DEF FileOK
<1>2. ASSUME NEW S, NEW s \in Seq(S)
      PROVE  FirstLines(s, k) \in Seq(S) /\ DOMAIN FirstLines(s, k) = DOMAIN s \cap 1..k
  <2> DEFINE n == LesserOf(Len(s), k)
  <2>1. DOMAIN s \cap 1..k = 1..n /\ n \in Nat
    BY <1>1 DEF LesserOf
  <2> HIDE DEF n
  <2>2. FirstLines(s, k) = [i \in 1..n |-> s[i]] /\ \A i \in 1..n : s[i] \in S
    BY <2>1 DEF FirstLines, Restrict
  <2> QED
    BY <2>1, <2>2
<1>3. c.lines = FirstLines(f.lines, k) /\ c \in FFile
  BY <1>1, <1>2 DEF FFile
<1>4. f.lines \in Seq(Seq({"F", "P", "NL"}))
  BY <1>1 DEF FFile
<1>5. DOMAIN c.lines = DOMAIN f.lines \cap 1..k
  BY <1>2, <1>3, <1>4
<1> HIDE DEF c
<1>6. DOMAIN c.lines \subseteq Diags /\ DOMAIN c.lines # Diags
  <2>1. Cardinality(Diags) \notin DOMAIN c.lines /\ Cardinality(Diags) \in Diags
    BY <1>1, <1>5, DiagsAre
  <2> QED
    BY <1>1, <1>5, <2>1
<1>7. FileOK(c) /\ Whole(c)
  BY <1>3, <1>6 DEF FileOK, Whole
<1> QED
  BY <1>7 DEF c, CutTo

LEMMA StepFilterCrash == FilterInv /\ FilterCrash => FilterInv'
<1> SUFFICES ASSUME FilterInv, FilterCrash PROVE FilterInv'
  OBVIOUS
<1>1. /\ par' = NoParams /\ hist' = [d \in Diags |-> <<>>]
      /\ ftype' = [d \in Diags |-> NoFilter] /\ recent' = [d \in Diags |-> <<>>]
      /\ fpc' = "idle" /\ jpc' = "idle" /\ jdiag' = 1 /\ jfail' = FALSE /\ jdepth' = 0
      /\ verdict' = "none" /\ clash' = FALSE /\ UNCHANGED <<buffer, intact>>
  BY DEF FilterCrash
<1>2. kept' \in BOOLEAN
  <2>1. (fpc \notin {"renameLoaded", "renameDumped"}) \in BOOLEAN
    OBVIOUS
  <2> QED
    BY <2>1, Zenon DEF FilterInv, Flags, FilterCrash
<1>3. FileOK(temp') /\ (intact => Whole(temp'))
  <2>1. \/ temp' = temp
        \/ temp' = [NoFile EXCEPT !.there = TRUE]
        \/ \E k \in 0..(Cardinality(Diags) - 1) : temp' = CutTo(temp, k)
    BY Zenon DEF FilterCrash, CutTo
  <2>2. FileOK(temp) /\ (intact => Whole(temp))
    BY DEF FilterInv, FilesGood
  <2> QED
    BY <2>1, <2>2, NoFileGood, CutFile
<1>4. Control'
  <2>1. NoParams \in FParams
    <3>1. <<>> \in Seq(Filters)
      OBVIOUS
    <3> QED
      BY <3>1 DEF NoParams, FParams
  <2> QED
    BY <1>1, <2>1, DiagsAre DEF Control, FilterSteps
<1>5. Flags'
  BY <1>1, <1>2 DEF FilterInv, Flags
<1>6. Memory' /\ FilesGood'
  BY <1>1, <1>3 DEF FilterInv, Memory, FilesGood
<1>7. DepthSet' /\ SwitchedOn' /\ HistGood'
  BY <1>1 DEF DepthSet, SwitchedOn, HistGood, NoParams
<1> QED
  BY <1>4, <1>5, <1>6, <1>7 DEF FilterInv

LEMMA FilterStep == FilterInv /\ [FNext]_fvars => FilterInv'
<1> SUFFICES ASSUME FilterInv, [FNext]_fvars PROVE FilterInv'
  OBVIOUS
<1>1. CASE SetFilterBuffer
  <2>1. CASE StartTestRun \/ GetEnable \/ GetDepth \/ CheckDepth \/ GetFilterParams \/ LoadBuffer
             \/ AssignFilterTypes
    BY <2>1, StepStartTestRun, StepGetEnableOrDepth, StepCheckDepth, StepGetFilterParams,
       StepLoadBuffer, StepAssign
  <2>2. CASE Swap("swapLoaded", "renameLoaded", "assign")
    BY <2>2, StepSwap
  <2>3. CASE Rename("renameLoaded", "assign")
    BY <2>3, StepRename
  <2> QED
    BY <1>1, <2>1, <2>2, <2>3 DEF SetFilterBuffer
<1>2. CASE DumpResultFilter
  <2>1. CASE FinishTestRun
    BY <2>1, StepFinish
  <2>2. CASE Swap("swapDumped", "renameDumped", "idle")
    BY <2>2, StepSwap
  <2>3. CASE Rename("renameDumped", "idle")
    BY <2>3, StepRename
  <2> QED
    BY <1>2, <2>1, <2>2, <2>3 DEF DumpResultFilter
<1>3. ASSUME NEW d \in Diags, NEW failed \in BOOLEAN, AskFilter(d, failed) PROVE FilterInv'
  BY <1>3, StepAskFilter
<1>4. CASE GetFilteredResult
  BY <1>4, StepPushResult, StepJudgeResult DEF GetFilteredResult
<1>5. CASE SetFilterEnableOff \/ FilterCrash
  BY <1>5, StepEnableOff, StepFilterCrash
<1>6. CASE UNCHANGED fvars
  <2>1. Control' /\ Flags' /\ Memory'
    BY <1>6 DEF fvars, fmem, fjob, fhist, FilterInv, Control, Flags, Memory
  <2>2. FilesGood' /\ HistGood' /\ DepthSet' /\ SwitchedOn'
    BY <1>6 DEF fvars, fmem, fhist, ffiles, FilterInv, FilesGood, HistGood, DepthSet, SwitchedOn,
                Loaded
  <2> QED
    BY <2>1, <2>2 DEF FilterInv
<1> QED
  BY <1>1, <1>2, <1>3, <1>4, <1>5, <1>6 DEF FNext

\* The invariant of the filter: what every file and every history holds, between any
\* two steps of the requests, of an instance, of the daemon and of a crash.
THEOREM Filter_Safe == FSpec => []FilterInv
BY FilterStart, FilterStep, PTL DEF FSpec

\* FTypeOK: the variables of the filter keep to their types; no file has a line of a
\* diagnostic that there is not (wa_diag_filter.c).
THEOREM Filter_Types == FSpec => []FTypeOK
BY Filter_Safe, FilterTypes, PTL

LEMMA WindowIsLast ==
    ASSUME NEW d \in Diags, NEW n \in Nat, hist[d] \in Seq(Chars), Window(hist[d], recent[d], n)
    PROVE  Firsts(hist[d], n) = LastResults(d, n)
<1> DEFINE h == hist[d]
<1>1. Len(h) >= n /\ \A i \in 1..n : h[i] = IF i <= Len(recent[d]) THEN recent[d][i] ELSE "P"
  BY DEF Window
<1>2. h \in Seq(Chars)
  OBVIOUS
<1> HIDE DEF h
<1>3. Firsts(h, n) = [i \in 1..n |-> h[i]]
  BY <1>1, <1>2 DEF Firsts, LesserOf
<1>4. [i \in 1..n |-> h[i]] = LastResults(d, n)
  BY <1>1 DEF LastResults
<1> QED
  BY <1>3, <1>4 DEF h

\* HistoryIsRecent: the history in memory is what was pushed last, with passes for what
\* is missing, through files, restarts and changes of the depth, unless a file could not
\* be opened or had lost lines (wa_diag_filter.c: loading 232-425, writing 621-681,
\* pushing 545-566).
THEOREM History_Is_Recent == FSpec => []HistoryIsRecent
<1>1. FilterInv => HistoryIsRecent
  <2> SUFFICES ASSUME FilterInv, intact, par.enable, fpc = "idle", NEW d \in Diags
               PROVE  Firsts(hist[d], par.depth) = LastResults(d, par.depth)
    BY DEF HistoryIsRecent
  <2>1. hist[d] \in Seq(Chars) /\ Window(hist[d], recent[d], par.depth) /\ par.depth \in Nat
    BY DEF FilterInv, HistGood, Loaded, Reloading, Memory, Control, FParams
  <2> QED
    BY <2>1, WindowIsLast
<1> QED
  BY <1>1, Filter_Safe, PTL

-----------------------------------------------------------------------------
(* The loops over a history: what the longest row and the share are.       *)

\* In the first k characters of h there are l failures in a row.
HasRow(h, k, l) == \E i \in 0..k : i + l <= k /\ \A x \in (i + 1)..(i + l) : h[x] = "F"

\* What the loop over a history knows behind its k-th character.
RowsTold(a, h, k) ==
    /\ a \in [fail : Nat, result : Nat] /\ a.fail <= k
    /\ \A x \in (k - a.fail + 1)..k : h[x] = "F"
    /\ a.fail < k => h[k - a.fail] # "F"
    /\ HasRow(h, k, a.result)
    /\ \A l \in Nat : HasRow(h, k, l) => l <= a.result \/ l <= a.fail

LEMMA ToldStart ==
    ASSUME NEW h
    PROVE  RowsTold([fail |-> 0, result |-> 0], h, 0)
BY DEF RowsTold, HasRow

LEMMA ToldStep ==
    ASSUME NEW h, NEW k \in Nat, NEW a, RowsTold(a, h, k)
    PROVE  RowsTold(Count(a, h[k + 1]), h, k + 1)
<1> DEFINE b == Count(a, h[k + 1])
           fail == a.fail
           result == a.result
<1>1. /\ fail \in Nat /\ result \in Nat /\ fail <= k /\ a = [fail |-> fail, result |-> result]
      /\ \A x \in (k - fail + 1)..k : h[x] = "F"
      /\ fail < k => h[k - fail] # "F"
      /\ HasRow(h, k, result)
      /\ \A l \in Nat : HasRow(h, k, l) => l <= result \/ l <= fail
  BY DEF RowsTold
<1>2. ASSUME NEW l \in Nat, HasRow(h, k, l) PROVE HasRow(h, k + 1, l)
  BY <1>2 DEF HasRow
<1>3. CASE h[k + 1] = "F"
  <2>1. b = [fail |-> fail + 1, result |-> result]
    BY <1>1, <1>3 DEF Count
  <2>2. b.fail = fail + 1 /\ b.result = result /\ b \in [fail : Nat, result : Nat]
    BY <1>1, <2>1
  <2>3. ASSUME NEW l \in Nat, HasRow(h, k + 1, l) PROVE l <= result \/ l <= fail + 1
    <3>1. PICK i \in 0..(k + 1) : i + l <= k + 1 /\ \A x \in (i + 1)..(i + l) : h[x] = "F"
      BY <2>3 DEF HasRow
    <3>2. CASE i + l <= k
      <4>1. HasRow(h, k, l)
        BY <3>1, <3>2 DEF HasRow
      <4> QED
        BY <1>1, <4>1
    <3>3. CASE i + l = k + 1 /\ i < k - fail
      <4>1. k - fail \in (i + 1)..(i + l) /\ fail < k
        BY <1>1, <3>1, <3>3
      <4> QED
        BY <1>1, <3>1, <4>1
    <3>4. CASE i + l = k + 1 /\ i >= k - fail
      BY <1>1, <3>1, <3>4
    <3> QED
      BY <1>1, <3>1, <3>2, <3>3, <3>4
  <2>4. \A x \in ((k + 1) - (fail + 1) + 1)..(k + 1) : h[x] = "F"
    BY <1>1, <1>3
  <2>5. fail + 1 < k + 1 => h[(k + 1) - (fail + 1)] # "F"
    <3>1. (k + 1) - (fail + 1) = k - fail /\ (fail + 1 < k + 1 => fail < k)
      BY <1>1
    <3> QED
      BY <1>1, <3>1
  <2>6. HasRow(h, k + 1, result)
    BY <1>1, <1>2
  <2> HIDE DEF b, fail, result
  <2> QED
    BY <1>1, <2>2, <2>3, <2>4, <2>5, <2>6 DEF RowsTold, b
<1>4. CASE h[k + 1] # "F"
  <2> DEFINE most == IF result < fail THEN fail ELSE result
  <2>1. b = [fail |-> 0, result |-> most]
    BY <1>1, <1>4 DEF Count, Longer
  <2>2. b.fail = 0 /\ b.result = most /\ b \in [fail : Nat, result : Nat]
    BY <1>1, <2>1
  <2>3. ASSUME NEW l \in Nat, HasRow(h, k + 1, l) PROVE l <= most
    <3>1. PICK i \in 0..(k + 1) : i + l <= k + 1 /\ \A x \in (i + 1)..(i + l) : h[x] = "F"
      BY <2>3 DEF HasRow
    <3>2. CASE i + l <= k
      <4>1. HasRow(h, k, l)
        BY <3>1, <3>2 DEF HasRow
      <4> QED
        BY <1>1, <4>1
    <3>3. CASE i + l = k + 1 /\ l > 0
      <4>1. k + 1 \in (i + 1)..(i + l)
        BY <3>1, <3>3
      <4> QED
        BY <1>4, <3>1, <4>1
    <3> QED
      BY <1>1, <3>1, <3>2, <3>3
  <2>4. HasRow(h, k, fail)
    <3>1. k - fail \in 0..k /\ (k - fail) + fail <= k /\ (k - fail) + fail = k
      BY <1>1
    <3> QED
      BY <1>1, <3>1 DEF HasRow
  <2>5. HasRow(h, k + 1, most)
    BY <1>1, <1>2, <2>4
  <2>6. (k + 1) - 0 = k + 1 /\ (k + 1) - 0 + 1 = k + 2 /\ \A x \in (k + 2)..(k + 1) : h[x] = "F"
    OBVIOUS
  <2>7. h[(k + 1) - 0] # "F" /\ \A x \in ((k + 1) - 0 + 1)..(k + 1) : h[x] = "F"
    BY <1>4, <2>6
  <2> HIDE DEF b, most
  <2> QED
    BY <1>1, <2>2, <2>3, <2>5, <2>7 DEF RowsTold, b
<1> QED
  BY <1>3, <1>4

\* r counts the rows along the first n characters of h.
CountsRows(r, h, n) ==
    /\ r = [i \in 0..n |-> r[i]] /\ r[0] = [fail |-> 0, result |-> 0]
    /\ \A i \in 1..n : r[i] = Count(r[i - 1], h[i])

LEMMA CountedRows ==
    ASSUME NEW r, NEW h, NEW n \in Nat, CountsRows(r, h, n)
    PROVE  /\ r[0] = [fail |-> 0, result |-> 0]
           /\ \A i \in 1..n : r[i] = Count(r[i - 1], h[i])
BY Zenon DEF CountsRows

\* The least number of a set.
LEMMA LeastOf ==
    ASSUME NEW S, S \subseteq Nat, S # {}
    PROVE  \E x \in S : \A y \in S : x <= y
<1> DEFINE R == {ss \in Nat \X Nat : ss[1] < ss[2]}
<1>1. IsWellFoundedOn(R, Nat)
  BY NatLessThanWellFounded DEF OpToRel
<1>2. PICK x \in S : \A y \in S : ~(<<y, x>> \in R)
  <2> HIDE DEF R
  <2> QED
    BY <1>1, WFMin
<1>3. ASSUME NEW y \in S PROVE x <= y
  <2>1. ~(<<y, x>> \in R) /\ x \in Nat /\ y \in Nat
    BY <1>2
  <2> QED
    BY <2>1 DEF R
<1> QED
  BY <1>3

LEMMA CounterExists ==
    ASSUME NEW h, NEW n \in Nat
    PROVE  \E r : CountsRows(r, h, n)
<1> DEFINE missing == {k \in Nat : ~\E r : CountsRows(r, h, k)}
<1> SUFFICES ASSUME missing # {} PROVE FALSE
  OBVIOUS
<1>1. PICK k \in missing : \A j \in missing : k <= j
  <2> HIDE DEF missing
  <2>1. missing \subseteq Nat
    BY DEF missing
  <2> QED
    BY <2>1, LeastOf
<1>2. k # 0
  <2>1. CountsRows([i \in 0..0 |-> [fail |-> 0, result |-> 0]], h, 0)
    BY DEF CountsRows
  <2> QED
    BY <1>1, <2>1
<1>3. PICK r : CountsRows(r, h, k - 1)
  BY <1>1, <1>2
<1> DEFINE g == [i \in 0..k |-> IF i < k THEN r[i] ELSE Count(r[k - 1], h[k])]
<1>4. CountsRows(g, h, k)
  <2>1. k \in Nat /\ g = [i \in 0..k |-> g[i]] /\ g[0] = [fail |-> 0, result |-> 0]
    BY <1>1, <1>2, <1>3 DEF CountsRows
  <2>2. ASSUME NEW i \in 1..k PROVE g[i] = Count(g[i - 1], h[i])
    <3>1. i - 1 \in 0..k /\ i - 1 < k /\ i \in 0..k /\ k \in Nat
      BY <2>1
    <3>2. g[i - 1] = r[i - 1]
      BY <3>1
    <3>3. CASE i = k
      BY <3>1, <3>2, <3>3
    <3>4. CASE i # k
      <4>1. i \in 1..(k - 1) /\ g[i] = r[i]
        BY <3>1, <3>4
      <4> QED
        BY <1>3, <3>2, <4>1 DEF CountsRows
    <3> QED
      BY <3>3, <3>4
  <2> HIDE DEF g
  <2> QED
    BY <2>1, <2>2 DEF CountsRows
<1> QED
  BY <1>1, <1>4

\* LongestRow is what a counter says at the end of the history.
LEMMA RowIsCounted ==
    ASSUME NEW S, NEW h \in Seq(S)
    PROVE  \E r : CountsRows(r, h, Len(h)) /\ LongestRow(h) = Longer(r[Len(h)])
<1> DEFINE N == Len(h)
           Rec(r) == [n \in 0..N |-> IF n = 0 THEN [fail |-> 0, result |-> 0]
                                     ELSE Count(r[n - 1], h[n])]
           c == CHOOSE r : r = Rec(r)
<1>1. N \in Nat
  OBVIOUS
<1>2. LongestRow(h) = Longer(c[N])
  BY Zenon DEF LongestRow
<1>3. PICK r : CountsRows(r, h, N)
  BY <1>1, CounterExists
<1>4. r = Rec(r)
  <2>1. r = [n \in 0..N |-> r[n]]
    BY <1>3 DEF CountsRows
  <2>2. \A n \in 0..N : r[n] = Rec(r)[n]
    <3> SUFFICES ASSUME NEW n \in 0..N PROVE r[n] = Rec(r)[n]
      OBVIOUS
    <3>1. r[0] = [fail |-> 0, result |-> 0] /\ (n # 0 => r[n] = Count(r[n - 1], h[n]))
      <4> HIDE DEF N, Rec
      <4> QED
        BY <1>1, <1>3, CountedRows
    <3> QED
      BY <3>1
  <2>3. Rec(r) = [n \in 0..N |-> Rec(r)[n]]
    OBVIOUS
  <2> HIDE DEF Rec
  <2> QED
    BY <2>1, <2>2, <2>3
<1>5. c = Rec(c)
  <2> HIDE DEF Rec
  <2> QED
    BY <1>4
<1>6. CountsRows(c, h, N)
  <2>1. c = [n \in 0..N |-> c[n]] /\ c[0] = [fail |-> 0, result |-> 0]
    <3> HIDE DEF c
    <3> QED
      BY <1>1, <1>5
  <2>2. ASSUME NEW i \in 1..N PROVE c[i] = Count(c[i - 1], h[i])
    <3> HIDE DEF c
    <3>1. Rec(c)[i] = Count(c[i - 1], h[i])
      BY <1>1
    <3> HIDE DEF Rec
    <3> QED
      BY <1>5, <3>1
  <2> HIDE DEF c
  <2> QED
    BY <2>1, <2>2 DEF CountsRows
<1> HIDE DEF c
<1> QED
  BY <1>2, <1>6

LEMMA CounterTold ==
    ASSUME NEW n \in Nat, NEW h, NEW r, CountsRows(r, h, n)
    PROVE  RowsTold(r[n], h, n)
<1> DEFINE bad == {i \in 0..n : ~RowsTold(r[i], h, i)}
<1> SUFFICES ASSUME bad # {} PROVE FALSE
  OBVIOUS
<1>1. PICK k \in bad : \A j \in bad : k <= j
  <2>1. bad \subseteq Nat
    OBVIOUS
  <2> HIDE DEF bad
  <2> QED
    BY <2>1, LeastOf
<1>2. k # 0
  BY <1>1, ToldStart, CountedRows
<1>3. k \in 1..n /\ k - 1 \in 0..n /\ k - 1 \in Nat /\ ~(k <= k - 1) /\ (k - 1) + 1 = k
  BY <1>1, <1>2
<1>4. RowsTold(r[k - 1], h, k - 1)
  BY <1>1, <1>3
<1>5. RowsTold(Count(r[k - 1], h[(k - 1) + 1]), h, (k - 1) + 1)
  <2> DEFINE j == k - 1
  <2>1. j \in Nat /\ RowsTold(r[j], h, j)
    BY <1>3, <1>4
  <2> HIDE DEF j
  <2>2. RowsTold(Count(r[j], h[j + 1]), h, j + 1)
    BY <2>1, ToldStep
  <2> QED
    BY <2>2 DEF j
<1>6. r[k] = Count(r[k - 1], h[k])
  BY <1>3, CountedRows
<1>7. RowsTold(r[k], h, k)
  BY <1>3, <1>5, <1>6
<1> QED
  BY <1>1, <1>7

\* The longest row of a history is at least m long if there is a row of m.
LEMMA LongestRowIs ==
    ASSUME NEW S, NEW h \in Seq(S), NEW m \in Nat
    PROVE  LongestRow(h) >= m <=> HasRow(h, Len(h), m)
<1>1. PICK r : CountsRows(r, h, Len(h)) /\ LongestRow(h) = Longer(r[Len(h)])
  BY RowIsCounted
<1> DEFINE n == Len(h)
           a == r[n]
<1>2. n \in Nat /\ RowsTold(a, h, n)
  BY <1>1, CounterTold
<1> HIDE DEF n, a
<1>3. /\ a.fail \in Nat /\ a.result \in Nat /\ a.fail <= n
      /\ \A x \in (n - a.fail + 1)..n : h[x] = "F"
      /\ HasRow(h, n, a.result) /\ \A l \in Nat : HasRow(h, n, l) => l <= a.result \/ l <= a.fail
  BY <1>2 DEF RowsTold
<1>4. HasRow(h, n, a.fail)
  <2> DEFINE i == n - a.fail
  <2>1. i \in 0..n /\ i + a.fail = n /\ \A x \in (i + 1)..n : h[x] = "F"
    BY <1>2, <1>3
  <2> HIDE DEF i
  <2> QED
    BY <1>2, <1>3, <2>1 DEF HasRow
<1>5. ASSUME NEW l \in Nat, m <= l, HasRow(h, n, l) PROVE HasRow(h, n, m)
  <2>1. PICK i \in 0..n : i + l <= n /\ \A x \in (i + 1)..(i + l) : h[x] = "F"
    BY <1>5 DEF HasRow
  <2>2. i + m <= n /\ \A x \in (i + 1)..(i + m) : x \in (i + 1)..(i + l)
    BY <1>2, <1>5, <2>1
  <2>3. i + m <= n /\ \A x \in (i + 1)..(i + m) : h[x] = "F"
    BY <2>1, <2>2
  <2> QED
    BY <2>1, <2>3 DEF HasRow
<1>6. Longer(a) = IF a.result < a.fail THEN a.fail ELSE a.result
  BY DEF Longer
<1>7. Longer(a) >= m <=> HasRow(h, n, m)
  BY <1>3, <1>4, <1>5, <1>6
<1> QED
  BY <1>1, <1>7 DEF n, a

\* Rounding the share down does not change whether it reaches the limit.
LEMMA ShareReaches ==
    ASSUME NEW a \in Nat, NEW n \in Nat, n > 0, NEW l \in Nat
    PROVE  a \div n >= l <=> a >= l * n
<1> DEFINE q == a \div n
<1>1. q \in Nat /\ q * n <= a /\ a < q * n + n
  <2>1. q \in Nat
    OBVIOUS
  <2>2. q * n <= a
    OBVIOUS
  <2>3. a < q * n + n
    OBVIOUS
  <2> QED
    BY <2>1, <2>2, <2>3
<1> HIDE DEF q
<1>2. q >= l => q * n >= l * n
  BY <1>1
<1>3. q < l => q * n + n <= l * n
  BY <1>1
<1>4. q * n \in Nat /\ l * n \in Nat /\ (q >= l \/ q < l)
  BY <1>1
<1>5. q >= l <=> a >= l * n
  BY <1>1, <1>2, <1>3, <1>4
<1> QED
  BY <1>5 DEF q

\* What a filter asks of the last n results.
Reaches(f, w, n, failed) ==
    IF f.kind = "P" /\ f.limit \in 1..100
    THEN Cardinality({i \in 1..n : w[i] = "F"}) * 100 >= f.limit * n
    ELSE IF f.kind = "S" /\ f.limit > 0
    THEN \E i \in 1..n : \E j \in i..n :
            j - i + 1 = LesserOf(f.limit, n) /\ \A k \in i..j : w[k] = "F"
    ELSE failed

LEMMA ShareJudged ==
    ASSUME NEW w \in Seq(Chars), Len(w) > 0, NEW l \in Nat
    PROVE  (Failures(w) * 100) \div Len(w) >= l
              <=> Cardinality({i \in 1..Len(w) : w[i] = "F"}) * 100 >= l * Len(w)
<1> DEFINE n == Len(w)
           F == {i \in 1..n : w[i] = "F"}
           c == Cardinality(F)
<1>1. n \in Nat /\ n > 0 /\ DOMAIN w = 1..n
  OBVIOUS
<1>2. Failures(w) = c
  BY <1>1, Zenon DEF Failures
<1>3. c \in Nat
  <2>1. IsFiniteSet(1..n) /\ F \subseteq 1..n
    BY <1>1, FS_Interval
  <2> QED
    BY <2>1, FS_Subset, FS_CardinalityType
<1> HIDE DEF n, c
<1>4. c * 100 \in Nat
  BY <1>3
<1>5. (c * 100) \div n >= l <=> c * 100 >= l * n
  BY <1>1, <1>4, ShareReaches
<1> QED
  BY <1>2, <1>5 DEF n, c, F

LEMMA RowJudged ==
    ASSUME NEW w \in Seq(Chars), NEW m \in Nat, m > 0
    PROVE  LongestRow(w) >= m
              <=> \E i \in 1..Len(w) : \E j \in i..Len(w) :
                     j - i + 1 = m /\ \A k \in i..j : w[k] = "F"
<1> DEFINE n == Len(w)
<1>1. n \in Nat /\ (LongestRow(w) >= m <=> HasRow(w, n, m))
  BY LongestRowIs
<1> HIDE DEF n
<1>2. ASSUME HasRow(w, n, m)
      PROVE  \E i \in 1..n : \E j \in i..n : j - i + 1 = m /\ \A k \in i..j : w[k] = "F"
  <2>1. PICK i \in 0..n : i + m <= n /\ \A x \in (i + 1)..(i + m) : w[x] = "F"
    BY <1>2 DEF HasRow
  <2>2. i + 1 \in 1..n /\ i + m \in (i + 1)..n /\ (i + m) - (i + 1) + 1 = m
    BY <1>1, <2>1
  <2> QED
    BY <2>1, <2>2
<1>3. ASSUME NEW i \in 1..n, NEW j \in i..n, j - i + 1 = m, \A k \in i..j : w[k] = "F"
      PROVE  HasRow(w, n, m)
  <2>1. i - 1 \in 0..n /\ (i - 1) + m <= n /\ (i - 1) + 1 = i /\ (i - 1) + m = j
    BY <1>1, <1>3
  <2>2. \A x \in ((i - 1) + 1)..((i - 1) + m) : w[x] = "F"
    BY <1>3, <2>1
  <2> QED
    BY <2>1, <2>2 DEF HasRow
<1>4. HasRow(w, n, m)
        <=> \E i \in 1..n : \E j \in i..n : j - i + 1 = m /\ \A k \in i..j : w[k] = "F"
  BY <1>2, <1>3
<1> QED
  BY <1>1, <1>4 DEF n

\* The loops of the filter tell what it asks, if the history is as long as the depth.
LEMMA FilterJudges ==
    ASSUME NEW h \in Seq(Chars), NEW n \in Nat, n > 0, Len(h) >= n,
           NEW f \in [kind : {"P", "S", "N"}, limit : Nat], NEW failed \in BOOLEAN
    PROVE  FilterFails(f, h, n, n, failed) <=> Reaches(f, Firsts(h, n), n, failed)
<1> DEFINE w == Firsts(h, n)
<1>1. w \in Seq(Chars) /\ Len(w) = n
  BY FirstsKeeps DEF LesserOf
<1> HIDE DEF w
<1>2. CASE f.kind = "P" /\ f.limit \in 1..100
  <2>1. FilterFails(f, h, n, n, failed) <=> (Failures(w) * 100) \div n >= f.limit
    BY <1>2 DEF FilterFails, w
  <2>2. Reaches(f, w, n, failed) <=> Cardinality({i \in 1..n : w[i] = "F"}) * 100 >= f.limit * n
    BY <1>2 DEF Reaches
  <2>3. (Failures(w) * 100) \div n >= f.limit
           <=> Cardinality({i \in 1..n : w[i] = "F"}) * 100 >= f.limit * n
    BY <1>1, ShareJudged
  <2> QED
    BY <2>1, <2>2, <2>3 DEF w
<1>3. CASE f.kind = "S" /\ f.limit > 0
  <2> DEFINE m == LesserOf(f.limit, n)
  <2>1. m \in Nat /\ m > 0
    BY <1>3 DEF LesserOf
  <2>2. FilterFails(f, h, n, n, failed) <=> LongestRow(w) >= m
    BY <1>3 DEF FilterFails, w
  <2>3. Reaches(f, w, n, failed)
          <=> \E i \in 1..n : \E j \in i..n : j - i + 1 = m /\ \A k \in i..j : w[k] = "F"
    BY <1>3 DEF Reaches
  <2> HIDE DEF m
  <2>4. LongestRow(w) >= m
          <=> \E i \in 1..n : \E j \in i..n : j - i + 1 = m /\ \A k \in i..j : w[k] = "F"
    BY <1>1, <2>1, RowJudged
  <2> QED
    BY <2>2, <2>3, <2>4 DEF w
<1>4. CASE ~(f.kind = "P" /\ f.limit \in 1..100) /\ ~(f.kind = "S" /\ f.limit > 0)
  BY <1>4 DEF FilterFails, Reaches
<1> QED
  BY <1>2, <1>3, <1>4

\* While no start of a run has come in between, the filter is on, what is in memory
\* is loaded, and the depth read with the push is still the depth.
JudgeInv ==
    /\ jpc # "idle" /\ ~clash => Loaded /\ par.enable
    /\ jpc = "judge" /\ ~clash => jdepth = par.depth

LEMMA JudgeRequests == FilterInv /\ JudgeInv /\ SetFilterBuffer => JudgeInv'
<1> SUFFICES ASSUME FilterInv, JudgeInv, SetFilterBuffer PROVE JudgeInv'
  OBVIOUS
<1>1. CASE StartTestRun \/ GetEnable \/ GetDepth \/ CheckDepth \/ GetFilterParams
  <2>1. UNCHANGED fjob /\ clash' = (clash \/ jpc # "idle")
    BY <1>1 DEF StartTestRun, GetEnable, GetDepth, CheckDepth, GetFilterParams, Param
  <2>2. jpc' # "idle" => clash'
    BY <2>1, Zenon DEF fjob
  <2> QED
    BY <2>2, Zenon DEF JudgeInv
<1>2. CASE LoadBuffer
  <2>1. fpc = "load" /\ jpc' = jpc /\ clash' = clash
    BY <1>2, Zenon DEF LoadBuffer, fjob
  <2>2. jpc' = "idle" \/ clash'
    BY <2>1, Zenon DEF JudgeInv, Loaded
  <2> QED
    BY <2>2 DEF JudgeInv
<1>3. CASE Swap("swapLoaded", "renameLoaded", "assign") \/ Rename("renameLoaded", "assign")
           \/ AssignFilterTypes
  <2>1. fpc' \in {"renameLoaded", "assign", "idle"} /\ UNCHANGED <<fjob, clash, par>>
    BY <1>3 DEF Swap, Rename, AssignFilterTypes, fmem, fhist
  <2>2. Loaded'
    BY <2>1 DEF Loaded, Reloading
  <2> QED
    BY <2>1, <2>2 DEF JudgeInv, fjob
<1> QED
  BY <1>1, <1>2, <1>3 DEF SetFilterBuffer

LEMMA JudgeStep == FilterInv /\ JudgeInv /\ [FNext]_fvars => JudgeInv'
<1> SUFFICES ASSUME FilterInv, JudgeInv, [FNext]_fvars PROVE JudgeInv'
  OBVIOUS
<1>1. CASE SetFilterBuffer
  BY <1>1, JudgeRequests
<1>2. CASE DumpResultFilter
  <2>1. fpc' = fpc \/ fpc' \in {"swapDumped", "renameDumped", "idle"}
    BY <1>2 DEF DumpResultFilter, FinishTestRun, Swap, Rename
  <2>2. UNCHANGED <<fjob, clash, par>>
    BY <1>2 DEF DumpResultFilter, FinishTestRun, Swap, Rename, fmem, fhist
  <2>3. Loaded => Loaded'
    BY <2>1 DEF Loaded, Reloading
  <2> QED
    BY <2>2, <2>3 DEF JudgeInv, fjob
<1>3. ASSUME NEW d \in Diags, NEW failed \in BOOLEAN, AskFilter(d, failed) PROVE JudgeInv'
  <2>1. jpc = "idle" /\ UNCHANGED <<fpc, par>>
    BY <1>3 DEF AskFilter, fmem
  <2>2. CASE par.enable /\ par.params # <<>>
    <3>1. jpc' = "wait" /\ clash' = (fpc \in Reloading \cup {"load"})
      BY <1>3, <2>2, Zenon DEF AskFilter
    <3>2. ~clash' => Loaded'
      BY <2>1, <3>1, Zenon DEF Loaded
    <3> QED
      BY <2>1, <2>2, <3>1, <3>2 DEF JudgeInv
  <2>3. CASE ~(par.enable /\ par.params # <<>>)
    <3>1. jpc' = jpc
      BY <1>3, <2>3, Zenon DEF AskFilter
    <3> QED
      BY <2>1, <3>1 DEF JudgeInv
  <2> QED
    BY <2>2, <2>3
<1>4. CASE PushResult
  <2>1. jpc = "wait" /\ jpc' = "judge" /\ jdepth' = par.depth /\ UNCHANGED <<par, fpc, clash>>
    BY <1>4 DEF PushResult
  <2> QED
    BY <2>1 DEF JudgeInv, Loaded
<1>5. CASE JudgeResult \/ FilterCrash
  BY <1>5 DEF JudgeResult, FilterCrash, JudgeInv
<1>6. CASE SetFilterEnableOff \/ UNCHANGED fvars
  <2>1. UNCHANGED <<par, fpc, jpc, jdepth, clash>>
    BY <1>6 DEF SetFilterEnableOff, fvars, fmem, fjob, fhist
  <2> QED
    BY <2>1 DEF JudgeInv, Loaded
<1> QED
  BY <1>1, <1>2, <1>3, <1>4, <1>5, <1>6 DEF FNext, GetFilteredResult

LEMMA VerdictReaches ==
    ASSUME NEW d \in Diags
    PROVE  Verdict(d) <=> Reaches(ftype[d], LastResults(d, par.depth), par.depth, jfail)
BY DEF Verdict, Reaches

\* The verdict of an instance that no start of a run has disturbed.
LEMMA JudgedRight ==
    ASSUME FilterInv, JudgeInv, JudgeResult, intact, ~clash
    PROVE  verdict' = IF Verdict(jdiag) THEN "F" ELSE "P"
<1> DEFINE n == par.depth
           h == hist[jdiag]
           f == ftype[jdiag]
<1>1. jpc = "judge" /\ Loaded /\ par.enable /\ jdepth = n
  BY DEF JudgeResult, JudgeInv
<1>2. verdict' = IF FilterFails(f, h, n, n, jfail) THEN "F" ELSE "P"
  <2>1. PICK k \in {jdepth, par.depth}, m \in {jdepth, par.depth} :
           verdict' = IF FilterFails(ftype[jdiag], hist[jdiag], k, m, jfail) THEN "F" ELSE "P"
    BY Zenon DEF JudgeResult
  <2>2. k = n /\ m = n
    BY <1>1, <2>1
  <2> QED
    BY <2>1, <2>2
<1>3. n \in Nat /\ n > 0
  <2>1. fpc \in FilterSteps /\ par \in FParams
    BY DEF FilterInv, Control
  <2>2. fpc \notin {"enable", "depth", "range"}
    BY <1>1 DEF Loaded, Reloading
  <2>3. n \in 1..MaxDepth
    BY <1>1, <2>2 DEF FilterInv, DepthSet
  <2> QED
    BY <2>3, FilterAssumption
<1>4. jdiag \in Diags /\ jfail \in BOOLEAN
  BY DEF FilterInv, Control
<1>5. h \in Seq(Chars) /\ Window(h, recent[jdiag], n)
  BY <1>1, <1>4 DEF FilterInv, Memory, HistGood
<1>6. f \in [kind : {"P", "S", "N"}, limit : Nat]
  BY <1>4, FilterAssumption DEF FilterInv, Flags, NoFilter
<1>7. Len(h) >= n /\ Firsts(h, n) = LastResults(jdiag, n)
  BY <1>3, <1>4, <1>5, WindowIsLast DEF Window
<1> HIDE DEF n, h, f
<1>8. FilterFails(f, h, n, n, jfail) <=> Reaches(f, Firsts(h, n), n, jfail)
  BY <1>3, <1>4, <1>5, <1>6, <1>7, FilterJudges
<1>9. Verdict(jdiag) <=> Reaches(f, LastResults(jdiag, n), n, jfail)
  BY <1>4, VerdictReaches DEF f, n
<1>10. FilterFails(f, h, n, n, jfail) <=> Verdict(jdiag)
  BY <1>7, <1>8, <1>9
<1> QED
  BY <1>2, <1>10

\* VerdictOfRecent: what the loops of the filter count along the history, its share of
\* failures or its longest row of them, is what the filter asks of the last results,
\* for an instance that no start of a run disturbs (wa_diag_filter.c:522-619).
THEOREM Verdict_Of_Recent == FSpec => VerdictOfRecent
<1> DEFINE Judged ==
              jpc = "judge" /\ jpc' = "idle" /\ verdict' # "none" /\ intact /\ ~clash
                 => verdict' = (IF Verdict(jdiag) THEN "F" ELSE "P")
<1>1. FInit => JudgeInv
  BY DEF FInit, JudgeInv
<1>2. FSpec => []JudgeInv
  BY <1>1, JudgeStep, Filter_Safe, PTL DEF FSpec
<1>3. FilterInv /\ JudgeInv /\ [FNext]_fvars => [Judged]_fvars
  <2> SUFFICES ASSUME FilterInv, JudgeInv, FNext,
                      jpc = "judge", jpc' = "idle", verdict' # "none", intact, ~clash
               PROVE  verdict' = IF Verdict(jdiag) THEN "F" ELSE "P"
    OBVIOUS
  <2>1. ~(SetFilterBuffer \/ DumpResultFilter \/ SetFilterEnableOff)
    <3>1. SetFilterBuffer \/ DumpResultFilter \/ SetFilterEnableOff => UNCHANGED fjob
      BY DEF SetFilterBuffer, StartTestRun, GetEnable, GetDepth, CheckDepth, GetFilterParams,
             Param, LoadBuffer, Swap, Rename, AssignFilterTypes, DumpResultFilter, FinishTestRun,
             SetFilterEnableOff
    <3> QED
      BY <3>1 DEF fjob
  <2>2. ~(\E d \in Diags, failed \in BOOLEAN : AskFilter(d, failed)) /\ ~PushResult /\ ~FilterCrash
    BY DEF AskFilter, PushResult, FilterCrash
  <2>3. JudgeResult
    BY <2>1, <2>2 DEF FNext, GetFilteredResult
  <2> QED
    BY <2>3, JudgedRight
<1> QED
  BY <1>2, <1>3, Filter_Safe, PTL DEF FSpec, VerdictOfRecent
=============================================================================
